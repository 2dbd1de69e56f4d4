---------------------------- MODULE MCScheduler ----------------------------
(* Six hours of twelve units: an hour is two, the ticker's five minutes three. *)
EXTENDS Scheduler

CONSTANTS daily, hourly, regular

JobOf(name, enabled, cron, source, request) ==
    [name |-> name, enabled |-> enabled, cron |-> cron, source |-> source, request |-> request]
Daily == JobOf(daily, TRUE, {4}, "chain", TRUE)
Hourly == JobOf(hourly, TRUE, {0, 2, 4, 6, 8, 10}, "chain", TRUE)
Regular == JobOf(regular, TRUE, {0}, "chain", TRUE)
RegularOff == JobOf(regular, FALSE, {0}, "chain", TRUE)
HourlyOff == JobOf(hourly, FALSE, {0, 2, 4, 6, 8, 10}, "chain", TRUE)
Custom == JobOf(Unset, TRUE, {}, "off-chain", TRUE)
Nameless == JobOf(Unset, TRUE, {4}, "glacier", TRUE)
Empty == JobOf(Unset, TRUE, {}, "chain", FALSE)

MCNames == {daily, hourly, regular}
MCJobs == {Daily, Hourly, HourlyOff, Regular, RegularOff, Custom, Nameless, Empty}
MCFileJobs == <<Daily, HourlyOff, Regular, Custom>>
MCEnvJobs == <<Nameless, Empty, Custom>>
MCCodeJobs == <<Hourly>>
=============================================================================

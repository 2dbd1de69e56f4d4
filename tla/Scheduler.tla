----------------------------- MODULE Scheduler -----------------------------
(***************************************************************************)
(* Where the Backfiller's jobs come from: main registers those of the      *)
(* configuration file, of the environment and of its own code, then the    *)
(* scheduler's ticker starts the scheduled ones.  BackfillLatest runs the  *)
(* default jobs.  What becomes of a job once BackfillRange is called is in *)
(* Backfiller.                                                             *)
(*                                                                         *)
(* Time goes round in periods of six hours; the scheduler looks at nothing *)
(* else of it.  A tick that waits for its goroutine is handled late, and   *)
(* shouldRunScheduledJob is given the time of that moment.                 *)
(***************************************************************************)
EXTENDS Integers, Sequences, FiniteSets

CONSTANTS
    Names,          \* job names, "" being Unset
    JobConfigs,     \* what job configurations there are
    FileJobs,       \* those of the configuration file, in order
    EnvJobs,        \* those of BACKFILL_JOBS
    CodeJobs,       \* those of main's registerCustomJobs
    DurationsText,  \* does the file write durations as "6h"?
    Period,         \* six hours
    Window,         \* five minutes, in which the hour has just begun
    TickEvery,      \* five minutes, the ticker's interval
    MaxDelay,       \* bound: how late a tick can be handled
    Unset

\* A job: `cron` the times of a period its cron expression gives, none if it has
\* no schedule; `request` whether there is one that validateBackfillRequest takes.
Job == [name: Names \union {Unset}, enabled: BOOLEAN, cron: SUBSET (0..(Period - 1)),
        source: {"chain", "glacier", "off-chain"}, request: BOOLEAN]

ASSUME SchedulerAssumption ==
    /\ JobConfigs \subseteq Job
    /\ FileJobs \in Seq(JobConfigs) /\ EnvJobs \in Seq(JobConfigs)
    /\ CodeJobs \in Seq(JobConfigs)
    /\ DurationsText \in BOOLEAN
    /\ Period \in Nat /\ Window \in 1..Period /\ TickEvery \in 1..Period
    /\ MaxDelay \in 0..(TickEvery - 1)
    /\ Unset \notin Names \union JobConfigs \union Nat

VARIABLES
    phase,          \* main: reading "file", "env" or "code", "running" or "stopped"
    left,           \* the jobs of that phase not yet registered
    scheduled,      \* b.scheduledJobs
    customs,        \* the jobs RegisterCustomJob took
    now,            \* the time, in the period
    until,          \* time until the ticker's next tick
    age,            \* how long a tick has been waiting, or Unset
    latest,         \* BackfillLatest: the requests it waits for, and its last error
    started,        \* history: how often each job was started since the period began
    whole,          \* history: the six-hourly jobs scheduled since the period began
    late            \* history: a tick was handled late in this period

config == <<phase, left, scheduled, customs>>
clock == <<now, until, age>>
history == <<started, whole, late>>
schedulerVars == <<config, clock, latest, history>>

\* BackfillLatest's requests.
Requests == <<"chain", "glacier", "off-chain", "chain">>

\* Types; registration is over when the service runs, and the tick that waits is the
\* last one.
SchedulerTypeOK ==
    /\ phase \in {"file", "env", "code", "running", "stopped"}
    /\ left \in Seq(JobConfigs)
    /\ scheduled \in [Names -> JobConfigs \union {Unset}]
    /\ customs \subseteq JobConfigs
    /\ now \in 0..(Period - 1) /\ until \in 1..TickEvery
    /\ age \in (0..MaxDelay) \union {Unset}
    /\ latest \in [awaiting: SUBSET (DOMAIN Requests), error: {"none", "chain", "unavailable"}]
    /\ started \in [Names -> Nat] /\ whole \subseteq Names /\ late \in BOOLEAN
    /\ \A n \in Names : scheduled[n] # Unset => scheduled[n].name = n
    /\ phase = "running" => left = <<>>
    /\ age # Unset => age = TickEvery - until

SchedulerInit ==
    /\ phase = "file"
    /\ left = IF DurationsText THEN <<>> ELSE FileJobs
    /\ scheduled = [n \in Names |-> Unset] /\ customs = {}
    /\ now \in 0..(Period - 1) /\ until = TickEvery /\ age = Unset
    /\ latest = [awaiting |-> {}, error |-> "none"]
    /\ started = [n \in Names |-> 0] /\ whole = {} /\ late = FALSE

-----------------------------------------------------------------------------
\* ScheduleBackfill, by itself or for RegisterScheduledJob.
ScheduleBackfill(j) == scheduled' = [scheduled EXCEPT ![j.name] = j]

\* Can RegisterScheduledJob, and RegisterCustomJob, take the job?  The first looks
\* for a name and a request, the second validates the request.
Schedulable(j) == j.name # Unset /\ j.request
Takes(j) == IF j.cron # {} THEN Schedulable(j) ELSE j.request

\* "0 */6 * * *".
SixHourly(j) == j.cron = {0}

\* One turn of the loop of LoadJobsFromFile or LoadJobsFromEnv, or one call of
\* registerCustomJobs, which gives up at its first error.
RegisterJob ==
    /\ left # <<>>
    /\ LET j == Head(left)
       IN  /\ \/ ~(j.enabled /\ Takes(j)) /\ UNCHANGED <<scheduled, customs>>
              \/ /\ j.enabled /\ Takes(j) /\ j.cron # {}
                 /\ ScheduleBackfill(j) /\ UNCHANGED customs
              \/ /\ j.enabled /\ Takes(j) /\ j.cron = {}
                 /\ customs' = customs \union {j} /\ UNCHANGED scheduled
           /\ left' = IF phase = "code" /\ ~Takes(j) THEN <<>> ELSE Tail(left)
    /\ UNCHANGED <<phase, clock, latest, history>>

\* main goes on, whatever the loading returned.
NextPhase ==
    /\ left = <<>>
    /\ \/ phase = "file" /\ phase' = "env" /\ left' = EnvJobs
       \/ phase = "env" /\ phase' = "code" /\ left' = CodeJobs
       \/ phase = "code" /\ phase' = "running" /\ left' = <<>>
    /\ UNCHANGED <<scheduled, customs, clock, latest, history>>

\* A caller of the running service schedules a job, enabled or not, under a name
\* that may be taken.
Reschedule ==
    /\ phase = "running"
    /\ \E j \in JobConfigs :
          /\ j.name # Unset /\ scheduled[j.name] # j
          /\ ScheduleBackfill(j)
          /\ whole' = IF j.enabled /\ SixHourly(j) THEN whole ELSE whole \ {j.name}
    /\ UNCHANGED <<phase, left, customs, clock, latest, started, late>>

StopScheduler ==
    /\ phase = "running" /\ phase' = "stopped"
    /\ UNCHANGED <<left, scheduled, customs, clock, latest, history>>

-----------------------------------------------------------------------------
Enabled == {n \in Names : scheduled[n] # Unset /\ scheduled[n].enabled}

\* A mutant of ShouldRun: the first minute after the window counts too.
ShouldRunAtEnd == now <= Window

\* A mutant of ShouldRun: the minute must be the first.
ShouldRunOnTheHour == now = 0

\* shouldRunScheduledJob: now.Hour() % 6 == 0 && now.Minute() < 5, whatever the
\* job's schedule.
ShouldRun == now < Window

\* checkScheduledJobs, on a tick.
CheckScheduledJobs ==
    /\ phase = "running" /\ age # Unset
    /\ age' = Unset
    /\ started' = [n \in Names |-> IF n \in Enabled /\ ShouldRun
                                   THEN started[n] + 1 ELSE started[n]]
    /\ late' = (late \/ age > 0)
    /\ UNCHANGED <<config, now, until, latest, whole>>

\* Time passes; a tick falls due.
Pass ==
    /\ phase = "running"
    /\ age \in {Unset} \union 0..(MaxDelay - 1)
    /\ now' = (now + 1) % Period
    /\ \/ /\ until > 1 /\ until' = until - 1
          /\ age' = IF age = Unset THEN Unset ELSE age + 1
       \/ until = 1 /\ until' = TickEvery /\ age' = 0
    /\ started' = IF now' = 0 THEN [n \in Names |-> 0] ELSE started
    /\ whole' = IF now' = 0 THEN {n \in Enabled : SixHourly(scheduled[n])} ELSE whole
    /\ late' = (late /\ now' # 0)
    /\ UNCHANGED <<config, latest>>

-----------------------------------------------------------------------------
\* BackfillLatest hands its requests to BackfillRange, all at once.
BackfillLatest ==
    /\ phase = "running" /\ latest.awaiting = {}
    /\ latest' = [awaiting |-> DOMAIN Requests, error |-> "none"]
    /\ UNCHANGED <<config, clock, history>>

\* One of them returns: a chain job with or without an error, any other with
\* ErrBackfillSourceUnavailable.
LatestResult(i) ==
    /\ phase = "running" /\ i \in latest.awaiting
    /\ \/ /\ Requests[i] = "chain"
          /\ \/ latest' = [latest EXCEPT !.awaiting = @ \ {i}]
             \/ latest' = [awaiting |-> latest.awaiting \ {i}, error |-> "chain"]
       \/ /\ Requests[i] # "chain"
          /\ latest' = [awaiting |-> latest.awaiting \ {i}, error |-> "unavailable"]
    /\ UNCHANGED <<config, clock, history>>

SchedulerNext ==
    \/ RegisterJob \/ NextPhase \/ Reschedule \/ StopScheduler
    \/ CheckScheduledJobs \/ Pass
    \/ BackfillLatest \/ \E i \in DOMAIN Requests : LatestResult(i)

SchedulerSpec == SchedulerInit /\ [][SchedulerNext]_schedulerVars

\* main goes on, time passes, ticks are handled and jobs come to an end.
FairSpec ==
    /\ SchedulerSpec
    /\ WF_schedulerVars(RegisterJob) /\ WF_schedulerVars(NextPhase)
    /\ WF_schedulerVars(Pass) /\ WF_schedulerVars(CheckScheduledJobs)
    /\ \A i \in DOMAIN Requests : WF_schedulerVars(LatestResult(i))

-----------------------------------------------------------------------------
\* A job whose schedule is every six hours, and that is scheduled through a period,
\* has been started exactly once when the period's window is over, wherever the ticks
\* fall in it, if the period's ticks were handled at once (workers.go:278, :323).
\* Nothing is claimed of jobs with another schedule, which the code does not look at.
OncePerPeriod ==
    (phase = "running" /\ now >= Window /\ age = Unset /\ ~late)
        => \A n \in whole : started[n] = 1

\* Ticks that are handled late can start such a job twice in a period, or not at
\* all, but not three times.
AtMostTwice == \A n \in whole : started[n] <= 2

\* The state has its type, and six-hourly jobs start as often as ticks allow.
SchedulerInv == SchedulerTypeOK /\ OncePerPeriod /\ AtMostTwice

\* A six-hourly job that stays scheduled is started again and again once ticks are
\* handled at once and the service is not stopped.
JobsComeRound ==
    \A n \in Names :
        (<>[]~late /\ <>[](phase = "running" /\ n \in Enabled /\ SixHourly(scheduled[n])))
            => []<>(started[n] > 0)

\* BackfillLatest returns, unless the service is stopped under it.
LatestReturns ==
    (latest.awaiting # {}) ~> (latest.awaiting = {} \/ phase = "stopped")

\* Nothing the command starts is put off for ever.
SchedulerLiveness == JobsComeRound /\ LatestReturns

\* A job is started at the times its cron expression gives:
\* docs/adding_jobs_to_backfiller.md:177 "The backfiller supports cron expressions
\* for scheduled jobs".
StartedAsScheduled ==
    [][\A n \in Names : started'[n] > started[n]
          => \E d \in 0..(TickEvery + MaxDelay) :
                (now - d + 2 * Period) % Period \in scheduled[n].cron]_schedulerVars

\* The enabled jobs of the configuration file are registered when the service runs:
\* docs/adding_jobs_to_backfiller.md:57 and :61, whose example has
\* "default_interval": "6h".
FileJobsRegistered ==
    phase = "running" =>
        \A i \in DOMAIN FileJobs : LET j == FileJobs[i]
                                   IN  j.enabled /\ j.cron # {} /\ Schedulable(j)
                                          => scheduled[j.name] # Unset

\* The custom jobs run with BackfillLatest: job_config.go:60 "Register as custom job
\* (will be included in BackfillLatest)".
CustomJobsInLatest ==
    [][BackfillLatest =>
          Cardinality(latest'.awaiting) = Len(Requests) + Cardinality(customs)]_schedulerVars

\* BackfillLatest fails only if a source failed that the service has: main.go:26
\* "Backfill source (chain, glacier, off-chain)".
LatestSourcesServed == latest.error # "unavailable"
=============================================================================

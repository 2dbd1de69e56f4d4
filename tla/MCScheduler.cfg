SPECIFICATION FairSpec
CONSTANTS
    daily = daily
    hourly = hourly
    regular = regular
    Unset = Unset
    Names <- MCNames
    JobConfigs <- MCJobs
    FileJobs <- MCFileJobs
    EnvJobs <- MCEnvJobs
    CodeJobs <- MCCodeJobs
    DurationsText = FALSE
    Period = 12
    Window = 3
    TickEvery = 3
    MaxDelay = 1
INVARIANT
    SchedulerInv

PROPERTY
    SchedulerLiveness

CHECK_DEADLOCK FALSE

CONSTANTS
    s1 = s1
    s2 = s2
    Subs = {s1, s2}
    Request <- MCRequest
    Changes <- MCOneChange
    None = None
    MaxSubs = 1
    ChanCap = 1
    EventCap = 1
    IdleRounds = 1

SPECIFICATION FairSpec

PROPERTIES
    GoneIsDone
    DueIsDelivered

CHECK_DEADLOCK FALSE

CONSTANTS
    s1 = s1
    s2 = s2
    Subs = {s1, s2}
    Request <- MCRequest
    Changes <- MCChanges
    None = None
    MaxSubs = 2
    ChanCap = 1
    EventCap = 1
    IdleRounds = 1

SPECIFICATION Spec

INVARIANTS
    NotificationInv
    DeliveredInOrder
    NoSilentLoss

PROPERTY
    OnlySilentCutOff

CHECK_DEADLOCK FALSE

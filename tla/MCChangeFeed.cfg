SPECIFICATION FairSpec
CONSTANTS
    i1 = i1
    i2 = i2
    s1 = s1
    None = None
    Ids <- MCIds
    Subs <- MCSubs
    Wanted <- MCWanted
    EventCap = 1
    ChanCap = 1
    IdleRounds = 1
    MaxOffers = 3

INVARIANT
    FeedInv

PROPERTY
    ShutdownDrains

CHECK_DEADLOCK FALSE

SPECIFICATION FairSpec
CONSTANTS
    s1 = s1
    s2 = s2
    f1 = f1
    Null = Null
    Starts <- MCStarts
    Forces <- MCForces
    Overlap = 2
    MaxFetches = 2
    NamesMatch = TRUE
    BanksParsed = FALSE
INVARIANT
    SyncInv

PROPERTY
    ComesToRest

CHECK_DEADLOCK FALSE

CONSTANTS
    j1 = j1
    j2 = j2
    j3 = j3
    a = a
    b = b
    w1 = w1
    w2 = w2
    Jobs = {j1, j2, j3}
    Request <- MCRequest
    Deadlines = {j2}
    Workers = {w1, w2}
    QueueCap = 1
    Offers = {a, b}
    Fetches <- MCFetches
    Started = TRUE
    None = None

SPECIFICATION Spec

INVARIANTS
    BackfillerInv
    OutcomeIsTrue

PROPERTIES
    
    RangeReturnsWhileRunning
    StopEndsWorkers

CHECK_DEADLOCK FALSE

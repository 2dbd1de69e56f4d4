CONSTANTS
    x = x
    y = y
    Ids = {x, y}
    None = None
    Margin <- MCMargin
    Liquidity <- MCLiquidity
    QueueCap = 2
    MaxRetries = 2

SPECIFICATION Spec

INVARIANTS
    EtlInv
    OutOfOrderOnlyByRetry
    StoreFollowsEvents

PROPERTIES
    EventsSettle
    StopEnds

CHECK_DEADLOCK FALSE

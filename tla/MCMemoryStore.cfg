CONSTANTS
    Ids = {x, y}
    Lenders <- MCLenders
    Tokens <- MCTokens
    Types <- MCTypes
    Liquidities <- MCLiquidities
    Sources <- MCSources
    Inputs <- MCInputs
    Batches <- MCBatches
    Filters <- MCFilters
    None = None
    IndexesMade = {TRUE, FALSE}
    EventCap = 1
    MaxClock = 4

SYMMETRY MCSymmetry

SPECIFICATION Spec

INVARIANTS
    TypeOK
    FrameOK
    IndexComplete
    IndexExact
    OnlyValidStored

PROPERTY
    AtomicSpec

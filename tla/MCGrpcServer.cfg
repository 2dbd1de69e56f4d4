CONSTANTS
    x = x
    y = y
    h1 = h1
    h2 = h2
    Ids = {x, y}
    Lenders = {"l1"}
    Tokens = {"sol", "usdc"}
    Types = {"V1", "BP", "other"}
    KnownTypes = {"V1", "BP"}
    Liquidities = {"pool"}
    Sources = {"marginfi"}
    None = None
    Inputs <- MCInputs
    Messages <- MCMessages
    Batches <- MCBatches
    Filters <- MCFilters
    Handlers = {h1, h2}
    MaxClock = 4

SYMMETRY MCSymmetry

SPECIFICATION Spec

INVARIANTS
    GrpcInv
    OutcomeMatchesReport
    UpsertFailsOnlyInRace
    DeletionsCounted

CHECK_DEADLOCK FALSE

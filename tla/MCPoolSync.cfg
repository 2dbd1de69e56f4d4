SPECIFICATION Spec
CONSTANTS
    s1 = s1
    p1 = p1
    j1 = j1
    a1 = a1
    a2 = a2
    i1 = i1
    i2 = i2
    None = None
    Calls <- MCCalls
    WithPositions <- MCWithPositions
    Jobs <- MCJobs
    Addresses <- MCAddresses
    Accounts <- MCAccounts
    Word = 4
    FullLTV = 100
    HonoursSize = FALSE
    Ids <- MCIds
    BankAmounts = {1}
SYMMETRY MCSymmetry
INVARIANT
    PoolInv
PROPERTIES
    OthersKept

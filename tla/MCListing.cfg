CONSTANTS
    Universe <- MCUniverse
    Calls <- MCCalls
    DefaultLimit = 2
    MaxLimit = 2
    MaxWrites = 2
    None = None

SPECIFICATION LiveSpec

INVARIANTS
    
    PagesFair

PROPERTY
    PagesEnd

SPECIFICATION FairSpec
CONSTANTS
    MaxStarts = 2
INVARIANT
    ServiceInv

PROPERTY
    ServiceLiveness

CHECK_DEADLOCK FALSE

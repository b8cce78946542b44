SPECIFICATION MCSpec
CONSTANTS
    Bits <- MCBits
    Mask <- MCMask
    Keys <- MCNodes
    Nodes <- MCNodes
    KeyOf <- MCKeyOf
    Hash0 <- MCHash0
    Hash1 <- MCHash1
    NIL = NIL
    INVALID = INVALID
    EntrySz = 2
    FollowDepths = {4, 8}
INVARIANTS
    SlotsInOrder
    CountExact
    NoStrayWrite
PROPERTIES
    FullLeavesTable
    RefinesMap

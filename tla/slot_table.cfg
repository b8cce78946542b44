SPECIFICATION GrowFairSpec
CONSTANTS
    Bits <- MCBits
    Mask <- MCMask
    Keys <- MCKeys
    Nodes <- MCNodes
    KeyOf <- MCKeyOf
    Hash0 <- MCHash0
    Hash1 <- MCHash1
    NIL = NIL
    EntrySz = 2
    FollowDepth = 5
INVARIANTS
    SlotTypeOK
    SlotFieldTracksSlot
    FreedSlotIsEmpty
    EveryLinkedIsFound
    EmptyBothWays
    CountExact
PROPERTIES
    RefinesFp
    KickoutKeepsElements
    KickoutEnds

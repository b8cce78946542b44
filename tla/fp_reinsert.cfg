SPECIFICATION AgainSpec
CONSTANTS
    Bits <- MCBits
    Mask <- MCMask
    Keys <- AgainKeys
    Nodes <- AgainKeys
    KeyOf <- AgainKeyOf
    Hash0 <- AgainHash0
    Hash1 <- AgainHash1
    NIL = NIL
    EntrySz = 2
    FollowDepth = 4
INVARIANTS
    HashFieldTracksBucket

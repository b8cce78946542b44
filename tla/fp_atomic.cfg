SPECIFICATION AtomicSpec
CONSTANTS
    Bits <- MCBits
    Mask <- MCMask
    Keys <- ChainKeys
    Nodes <- ChainNodes
    KeyOf <- ChainKeyOf
    Hash0 <- ChainHash0
    Hash1 <- ChainHash1
    NIL = NIL
    EntrySz = 1
    FollowDepth = 4
PROPERTIES
    RefinesMap
    RefinesTable

SPECIFICATION Spec
CONSTANTS
    Bits <- MCBits
    Mask <- MCMask
    Keys <- MCKeys
    Nodes <- StaleNodes
    Hash0 <- MCHash0
    Hash1 <- MCHash1
    Pool <- StalePool
    KeyBatches <- StaleKeyBatches
    IdxBatches <- StaleIdxBatches
    NIL = NIL
    EntrySz = 1
    StepKeys = 1
    AheadKeys = 1
    Timeout = 1
    Pressure = 1
    MaxTsc = 1
INVARIANTS
    UniqueKeys

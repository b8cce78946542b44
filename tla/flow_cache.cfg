SPECIFICATION Spec
CONSTANTS
    Bits <- MCBits
    Mask <- MCMask
    Keys <- MCKeys
    Nodes <- MCNodes
    Hash0 <- MCHash0
    Hash1 <- MCHash1
    Pool <- MCPool
    KeyBatches <- MCKeyBatches
    IdxBatches <- MCIdxBatches
    NIL = NIL
    EntrySz = 1
    StepKeys = 1
    AheadKeys = 1
    Timeout = 2
    Pressure = 1
    MaxTsc = 4
INVARIANTS
    TypeOK
    PoolPartition
    TsMarksLive
    UniqueKeys
    ResultsHold
PROPERTIES
    FreshSurvive

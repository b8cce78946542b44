SPECIFICATION LapFairSpec
CONSTANTS
    Entries = {n1, n2}
    FREE = FREE
    NbBk = 4
    EntrySz = 2
    Timeout = 1
    TimeoutMin = 1
    Interval = 2
    BaseBk = 3
    FillThreshold = 2
    SkipThreshold = 1
    MaxBks = 2
    UintRange = 16
    ExCalls <- MCExCalls
    Late = 1
    MaxAdded = 2
INVARIANTS
    TypeOK
    LapsAreEven
    LastSweepTells
    LapIsTimely
PROPERTIES
    IdleSweepsAll
    DenseExpiredGoes

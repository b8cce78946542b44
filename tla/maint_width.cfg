SPECIFICATION LapSpec
CONSTANTS
    Entries = {n1}
    FREE = FREE
    NbBk = 4
    EntrySz = 2
    Timeout = 1
    TimeoutMin = 1
    Interval = 1
    BaseBk = 4
    FillThreshold = 0
    SkipThreshold = 1
    MaxBks = 2
    UintRange = 8
    ExCalls <- MCExCalls
    Late = 1
    MaxAdded = 1
PROPERTIES
    WidthFollowsRatio

SPECIFICATION Spec
CONSTANTS
    Bits = {0, 1, 2}
    Mask = {0, 1}
    Keys <- MCKeys
    Hash0 <- MCHash0
    Hash1 <- MCHash1
    Nodes = {n1, n2, n3, n4}
    NIL = NIL
    EntrySz = 1
    Procs = {p, q}
    Flows <- MCFlows
    Enables <- MCEnables
    Cpus <- MCCpus
    Lanes <- MCLanes
SYMMETRY Symmetry
INVARIANTS
    FoundByItsHash
    OneEntryPerFlow

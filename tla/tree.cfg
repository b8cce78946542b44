SPECIFICATION FairSpec
CONSTANTS
    Nodes <- MCNodes
    KeyOf <- MCKeyOf
    NIL = NIL
INVARIANTS
    LinksMirror
    LookupsAgree
    RedBlackButForFix
PROPERTIES
    RefinesSet
    FixEnds

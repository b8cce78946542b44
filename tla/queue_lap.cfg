SPECIFICATION Spec
CONSTANTS
    Heads = {h1, h2}
    Nodes = {a, b, c}
    NIL = NIL
PROPERTIES
    OneFullLap

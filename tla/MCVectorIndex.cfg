CONSTANTS
    Paths = {p, q}
    Jobs = {j1, j2}
    Embedders = {e1}
    None = None
    MaxId = 2
    MaxWrites = 2
    MaxBuilds = 2
    MaxFails = 1
SYMMETRY Symmetry
SPECIFICATION Spec
INVARIANTS
    TypeOK
    HashIsVector
PROPERTIES
    StaysFindable
    Heals
CHECK_DEADLOCK FALSE

CONSTANTS
    Ids = {s1, s2, s3}
    Inits = {i1, i2}
    MaxActive = 2
    MaxPersisted = 2
    Timeout = 1
    Retention = 1
    MaxTime = 2
    MaxCalls = 1
    None = None
SYMMETRY Symmetry
SPECIFICATION Spec
INVARIANTS
    TypeOK
    CapHeld
    ClosedForgotten
    CallsFlushed

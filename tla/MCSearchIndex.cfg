CONSTANTS
    Paths = {p}
    NumVaults = 2
    Rebuilds = {b1, b2}
    Indexers = {i1}
    None = None
    MaxWrites = 3
    MaxUpsets = 1
SPECIFICATION FairSpec
INVARIANTS
    TypeOK
    SameIds
PROPERTIES
    FullRebuildIsExact
    GhostsLeave
    Settles

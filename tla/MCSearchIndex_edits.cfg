CONSTANTS
    Paths = {p}
    NumVaults = 1
    Rebuilds = {b1}
    Indexers = {}
    None = None
    MaxWrites = 2
    MaxUpsets = 0
SPECIFICATION FairSpec
PROPERTY
    EditsArePickedUp

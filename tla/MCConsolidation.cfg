CONSTANTS
    m1 = m1
    m2 = m2
    Memories <- MCMemories
    Tagged <- MCMemories
    Rolling = Rolling
    Clusters <- MCClusters
    Series <- MCSeries
    Runs = {r1, r2}
    Absent = Absent
    Nowhere = Nowhere
    MaxEdits = 1
    MaxCalls = 2
    MaxTorn = 2
SPECIFICATION Spec
INVARIANTS
    TypeOK
    LinkedBack
PROPERTIES
    KeepsText
    AutoHidesWhatItRead
SYMMETRY Symmetry

CONSTANTS
    m1 = m1
    m2 = m2
    Memories <- MCMemories
    Tagged <- MCMemories
    Rolling = Rolling
    Clusters <- MCClusters
    Series <- MCSeries
    Runs = {r1}
    Absent = Absent
    Nowhere = Nowhere
    MaxEdits = 0
    MaxCalls = 3
    MaxTorn = 0
SPECIFICATION Spec
INVARIANT
    NoSelfFold

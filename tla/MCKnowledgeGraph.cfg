CONSTANTS
    Keys = {office, lead}
    Functional = {office, lead}
    Manual = {lead}
    Objects = {a, b, c}
    Times = {1, 2}
    Sources = {n1}
    Open = Open
    None = None
    First = First
    MaxRows = 4
SPECIFICATION Spec
INVARIANTS
    TypeOK
    OneOpenInterval
    LinksEnd
    AsOfUnique
PROPERTIES
    HistoryKept
    SupersessionLeavesOne

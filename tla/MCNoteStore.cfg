CONSTANTS
    Paths = {p}
    Writers = {w1, w2}
    Creators = {c1}
    Body = Body
    Absent = Absent
    Nobody = Nobody
SPECIFICATION Spec
INVARIANTS
    TypeOK
    WritesSerial
    MatchedKeepsWrites
PROPERTY
    WritersFinish

CONSTANTS
    Notes = {p}
    Folded = {p}
    Jobs = {"memory_temperature_refresh", "idle_dream"}
    Tools = {t1}
    Users = {u1}
    None = None
    WarmDays = 0
    SlowDays = 1
    ColdDays = 2
    WarmHeat = 2
    MaxHeat = 2
    MaxDay = 2
    MaxActivity = 2
    MaxFails = 1
SPECIFICATION FairSpec
INVARIANTS
    TypeOK
    DecayByTime
PROPERTIES
    CoolsWithTime
    EveryBurstDreams

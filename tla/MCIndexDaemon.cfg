CONSTANTS
    r1 = r1
    r2 = r2
    p1 = p1
    s1 = s1
    Repos = {r1, r2}
    Machines = {srv, m1}
    Server = srv
    Owner = m1
    Paths = {p1}
    Slugs = {s1}
    NoSlug = NoSlug
    NoPath = NoPath
    NoMachine = NoMachine
    CodeRepos <- MCCodeRepos
    Home <- MCHome
    DirName <- MCDirName
    Nothing = Nothing
    MaxAttempts = 2
    ReclaimAfter = 0
    ClaimLimit = 1
    MaxEnqueues = 2
    Backoff = 2
    MaxEdits = 1
    MaxPushes = 1
    Faulty = TRUE
SPECIFICATION DSpec
INVARIANTS
    DoneHasSymbols
PROPERTIES
    PollsAgain
    RequestsEnd

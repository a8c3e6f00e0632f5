CONSTANTS
    r1 = r1
    r2 = r2
    p1 = p1
    s1 = s1
    Repos = {r1, r2}
    Machines = {srv, m1}
    Server = srv
    Owner = m1
    Paths = {p1}
    Slugs = {s1}
    NoSlug = NoSlug
    NoPath = NoPath
    NoMachine = NoMachine
    CodeRepos <- MCCodeRepos
    Home <- MCHome
    DirName <- MCDirName
    Nothing = Nothing
    MaxAttempts = 3
    ReclaimAfter = 0
    ClaimLimit = 1
    MaxEnqueues = 1
    Backoff = 5
    MaxEdits = 1
    MaxPushes = 1
    Faulty = FALSE
SPECIFICATION DSpec
INVARIANT
    DoneIsFresh

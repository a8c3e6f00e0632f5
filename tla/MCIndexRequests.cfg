CONSTANTS
    r1 = r1
    r2 = r2
    p1 = p1
    s1 = s1
    Repos = {r1, r2}
    Machines = {srv, m1}
    Server = srv
    Paths = {p1}
    Slugs = {s1, s2}
    NoSlug = NoSlug
    NoPath = NoPath
    NoMachine = NoMachine
    CodeRepos <- MCCodeRepos
    MaxAttempts = 2
    ReclaimAfter = 1
    ClaimLimit = 2
    MaxEnqueues = 3
SPECIFICATION Spec
INVARIANTS
    TypeOK
    OneOutstanding
    ServesBounded
    CheckoutOwnedOnce
PROPERTIES
    ResolvedIsFinal
    ImplementsJobs

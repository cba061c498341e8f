\* No SKIP LOCKED: the whole neighbourhood, with two of its pages done by another scan meanwhile,
\* and database retries.
SPECIFICATION Spec
CONSTANTS
    me = me  a = a  b = b  f = f  w1 = w1  w2 = w2
    Pages <- HoodPages
    Workers <- MCWorkers
    Seeds <- HoodSeeds
    Self = me
    Links <- HoodLinks
    Stored <- HoodStored
    Shared = {a, me}
    MaxDepth = 2
    PagesPerVisit = 1
    ClaimAttempts = 2
    DbRetries = 2
    MaxTimeouts = 2
    Budgeted = TRUE
    SkipLocked = FALSE
    NoPage = NoPage
    MaxKills = 0
    MaxDbFaults = 0
SYMMETRY Symmetry
INVARIANTS NoSilentStrand DoneIsComplete ChainEndsDrained
CHECK_DEADLOCK FALSE

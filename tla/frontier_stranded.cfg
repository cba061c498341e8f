\* A killed slice leaves rows behind that its successor never counts.
SPECIFICATION Spec
CONSTANTS
    me = me  a = a  b = b  f = f  w1 = w1  w2 = w2
    Pages <- FewPages
    Workers <- MCWorkers
    Seeds <- FewSeeds
    Self = me
    Links <- FewLinks
    Stored <- FewStored
    Shared = {}
    MaxDepth = 2
    PagesPerVisit = 1
    ClaimAttempts = 2
    DbRetries = 1
    MaxTimeouts = 2
    Budgeted = FALSE
    SkipLocked = TRUE
    NoPage = NoPage
    MaxKills = 1
    MaxDbFaults = 0
SYMMETRY Symmetry
INVARIANT ChainEndsDrained
CHECK_DEADLOCK FALSE

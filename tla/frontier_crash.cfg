\* PostgreSQL claims, time-outs that re-queue a row before it is given up, a request budget that
\* may run out, one process death and one database lost at the close of a visit: what they do to
\* the rows, that the frontier is a work queue whose entries are read in order, that every row
\* settles and that the chain ends.
SPECIFICATION FairSpec
CONSTANTS
    me = me  a = a  b = b  f = f  w1 = w1  w2 = w2
    Pages <- PairPages
    Workers <- MCWorkers
    Seeds <- FewSeeds
    Self = me
    Links <- PairLinks
    Stored <- PairStored
    Shared = {}
    MaxDepth = 2
    PagesPerVisit = 1
    ClaimAttempts = 2
    DbRetries = 1
    MaxTimeouts = 2
    Budgeted = TRUE
    SkipLocked = TRUE
    NoPage = NoPage
    MaxKills = 1
    MaxDbFaults = 1
INVARIANTS TypeOK ClaimExclusive DoneIsComplete
PROPERTIES EveryRowSettles ChainEnds QueueSpec WalkSpec
CHECK_DEADLOCK FALSE

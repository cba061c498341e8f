\* Kills, re-runs, a deletion, a recompute, and a poller that overtakes a waiting job.
SPECIFICATION FairSpec
CONSTANTS
    c1 = c1  c2 = c2  c3 = c3
    Chains <- MCChains
    MaxSlices = 3
    MaxOvertakes = 1
    MaxRuns = 2
    MaxKills = 2
INVARIANTS OneChain JobsWaitForExclusions
PROPERTIES ReclaimsOnlyTheDead EveryRunEnds
CHECK_DEADLOCK FALSE

\* Ticks and the operator's starts, one of them killed or interrupted.
SPECIFICATION Spec
CONSTANTS
    r1 = r1  r2 = r2 
    Runs = {r1, r2}
    Starts <- MCStarts
    None = None
    MaxRounds = 2
    MaxRepairs = 2
    MaxKills = 1
INVARIANTS NumbersAreSpent OnlyGatedCommitsShip
PROPERTY BrokenWorkIsKept
CHECK_DEADLOCK FALSE

\* A cycle without a build ends after one that parked its branch; nothing is killed.
SPECIFICATION Spec
CONSTANTS
    r1 = r1  r2 = r2 
    Runs = {r1, r2}
    Starts <- MCStarts
    None = None
    MaxRounds = 2
    MaxRepairs = 2
    MaxKills = 0
INVARIANT ParkedIsRemembered
CHECK_DEADLOCK FALSE

\* Two workers, two providers, one slot and one token between them.
SPECIFICATION Spec
CONSTANTS
    w1 = w1  w2 = w2
    Workers = {w1, w2}
    Providers = 2
    MaxSlots = 1
    Capacity = 1
    MaxRetries = 1
    FailMax = 2
    Budget = 1
    VisitCost = 2
    Entries = 3
SYMMETRY Symmetry
INVARIANTS SlotsAccounted OpenCircuitSpared BudgetBound
CHECK_DEADLOCK FALSE

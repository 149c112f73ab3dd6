\* Up to five forests of four sizes, one of them over the budget, cut by size or
\* two by two, on two ranks.  The run ends, so the machine may stop.
CONSTANTS
    Sizes = {0, 2, 3, 4}
    SizeBudget = 3
    PerFiles = {0, 2}
    MaxForests = 5
    NumTasks = 2
SPECIFICATION Spec
INVARIANTS
    Contiguous
    PlanHolds
    EveryForestOnce
    NearBestDivision
CHECK_DEADLOCK FALSE

\* Groups of two or three members, and two substeps.  An interval ends, so the
\* machine may stop.
CONSTANTS
    NumSubsteps = 2
    Yield = 1
    Clocks = {0, 5}
    Groups <- MCGroups
    Threshold <- Half
SPECIFICATION Spec
INVARIANTS
    ReservoirsSound
    LedgersBalance
    SuccessMeansResolved
PROPERTIES
    DeadStayAsTheyAre
CHECK_DEADLOCK FALSE

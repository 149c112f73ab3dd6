\* Six halos, two on each of three snapshots, and two substeps.  A unit ends,
\* so the machine may stop.
CONSTANTS
    NumHalos = 6
    NumSubsteps = 2
    Layout <- LayoutPairs
    Trees <- MCTrees
SPECIFICATION Spec
INVARIANTS
    CentralsFound
    CountedOnce
    CarriedOver
PROPERTIES
    LossNeedsDeadHost
CHECK_DEADLOCK FALSE

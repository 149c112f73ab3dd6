\* Five halos on two snapshots: a subhalo with two occupied progenitors beside
\* a FoF central is all it takes.
CONSTANTS
    NumHalos = 5
    NumSubsteps = 1
    Layout <- LayoutFive
    Trees <- MCTrees
SPECIFICATION Spec
PROPERTIES
    MergersConserveLedger
CHECK_DEADLOCK FALSE

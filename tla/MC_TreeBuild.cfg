\* Every merger tree of four halos over four snapshots.  Only a chain of all
\* four exceeds MaxTreeDepth.  A unit ends, so the machine may stop.
CONSTANTS
    NumHalos = 4
    MaxSnap = 3
    MaxTreeDepth = 2
    Trees <- MCTrees
SPECIFICATION FairSpec
INVARIANTS
    IInv
    FatalOnlyIfDeep
PROPERTIES
    EvolvesInOrder
    ScheduleSpec
    Ends
CHECK_DEADLOCK FALSE

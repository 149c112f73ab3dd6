\* Two ranks, four partitions of which one has no input, two output files per
\* partition, three runs.  The last run ends, so the machine may stop.
CONSTANTS
    NTask = 2
    NPartitions = 4
    Present = {0, 1, 3}
    OutputFiles = {0, 1}
    MaxRuns = 3
    JobMayBeKilled = FALSE
    OutputsMayChange = FALSE
    FinalizeWaits = FALSE
SPECIFICATION Spec
INVARIANTS
    OutputsWhole
    CompleteAtBarrier
CHECK_DEADLOCK FALSE

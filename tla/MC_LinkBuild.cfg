\* Forests of four halos on two snapshots; a chain of three hosts is beyond
\* MaxHostDepth.  Reading ends, so the machine may stop.
CONSTANTS
    NumHalos = 4
    MaxSnap = 1
    LastSnap = 2
    MaxHostDepth = 1
    Forests <- MCForests
SPECIFICATION FairSpec
INVARIANTS
    LinksAreRight
    ConverterAgrees
    BatteryIsExact
PROPERTIES
    SoundRowsEnd
CHECK_DEADLOCK FALSE

\* Every phase of up to four entries, run in two substeps over two galaxies, three
\* events in the buffer.  The pipeline ends, so the machine may stop.
CONSTANTS
    Names <- MCNames
    Registry <- MCRegistry
    Configs <- MCConfigs
    MaxEntries = 4
    NumSubsteps = 2
    NumGals = 2
    MaxEvents = 3
SPECIFICATION Spec
INVARIANTS
    EventsInTurn
    CallsAsPromised
CHECK_DEADLOCK FALSE

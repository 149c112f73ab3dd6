\* Chunks of two slots, units of up to seven galaxies, four units.
CONSTANTS
    Capacity = 2
    MaxGalaxies = 7
    MaxResets = 3
SPECIFICATION PoolSpec
INVARIANTS
    NoSharedSlot
    SizedByLargest
CHECK_DEADLOCK FALSE

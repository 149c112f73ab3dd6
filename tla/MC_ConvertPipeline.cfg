CONSTANTS
    Sources = {"src0", "src1"}
    LastSnap = 2
    RowsAt <- MCRowsAt
    Joined = {0}
    ForestsAt <- MCForestsAt
    PoolSize = 2
    MaxCrashes = 1
    MaxEdits = 1
    Gone = {gone}
    NotOwned = {notowned}
    Removed = {removed}
SPECIFICATION FairSpec
INVARIANTS
    ManifestIsTrue
    NoRowLost
    OneConversion
PROPERTIES
    NeverMovesBack
    ConvertsInTheEnd

\* Two trees of five halos.  A shape of two members or more is compiled for
\* no more groups than wait for it.
CONSTANTS
    NumHalos = 5
    SmallShape = 2
    Jobs <- MCJobs
SPECIFICATION CallSpec
INVARIANTS
    BatchingIsNeutral
    GatheredOnce
    TangentsFollow
    EveryGroupOnce

\* Two events in pages of one, two rollups, an identity and a crash.
CONSTANTS
    MaxEvent = 2
    MaxIdentity = 1
    RollupCount = 2
    PageSize = 1
    IdentityPage = 1
    MaxCrash = 1
CHECK_DEADLOCK FALSE
SPECIFICATION Spec
INVARIANTS
    AggregationInv
    PageHasEvents
    ScanCovers
    SleepsOnlyWhenDone

SPECIFICATION Spec
CONSTANTS
    IndexUrls <- MCIndexUrls
    Packages = {"p", "q"}
    Versions = {"1", "2"}
    Files <- MCFiles
    MayList <- MCMayList
    Requests <- MCRequests
    Overrides <- MCOverrides
    Published <- MCPublished
    MaxEvaluations = 3
    MaxCalls = 2
    MaxChanges = 2
INVARIANTS
    TypeOK
    VersionsServed
    LockHasOnlyAsked
    FirstIndexWinsUnlessCached
    LockedIsOffline
CHECK_DEADLOCK FALSE

SPECIFICATION Spec
CONSTANTS
    Paths = {"docs", "docs/x", "docs/y"}
    Root = "."
    Parent <- MCParent
    Versions = {"v1"}
    Source <- MCSource
    MaxWorkers = 2
    MaxSyncs = 2
    MaxFaults = 0
INVARIANTS
    SyncMatchesEntries
CHECK_DEADLOCK FALSE

SPECIFICATION Spec
CONSTANTS
    Paths = {"docs", "docs/x", "docs/y"}
    Root = "."
    Parent <- MCParent
    Versions = {"v1", "v2", "v3"}
    Source <- MCSource
    MaxWorkers = 2
    MaxSyncs = 2
    MaxFaults = 1
INVARIANTS
    TypeOK
    RemainingCountsTasks
    NoTaskOutlivesSync
    CleanSyncMirrors
PROPERTIES
    SyncTerminates
CHECK_DEADLOCK FALSE

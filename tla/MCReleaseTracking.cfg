CONSTANTS
    PRs = {1, 2}
    Features = {1}
    Versions <- MCVersions
    Worlds <- MCWorlds
    Jobs = {j1, j2}
    Commands = {"createIssue", "prepare", "completePrepare", "createBranch", "addBackports", "processBackports", "onPrMerged", "sync", "completeSync", "backportPrepare", "createReleases"}
    MaxLaunches = 3
    MaxIssues = 3
    MaxPrs = 3
    MaxFaults = 1
SYMMETRY JobSymmetry
SPECIFICATION Spec
INVARIANTS TypeOK NewsKept DoneIsDone OneIssuePerVersion
PROPERTIES BranchIsPrepared
CHECK_DEADLOCK FALSE

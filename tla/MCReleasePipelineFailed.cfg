SPECIFICATION Spec
CONSTANTS
    Runs = {"w1"}
    Commands = {"processBackports"}
    PRs = {1, 2}
    WithNews = {}
    Listed = {{1, 2}}
    FirstRelease = TRUE
    MaxRc = 1
    MaxFaults = 1
PROPERTIES
    FailedBackportNotPublished
CHECK_DEADLOCK FALSE

SPECIFICATION Spec
CONSTANTS
    Runs = {w1, w2, w3}
    w1 = w1
    w2 = w2
    w3 = w3
    Commands = {"addBackports", "processBackports", "createRc", "promote"}
    PRs = {1, 2}
    WithNews = {1}
    Listed = {{}, {1, 2}}
    FirstRelease = TRUE
    MaxRc = 1
    MaxFaults = 1
SYMMETRY RunSymmetry
CONSTRAINT OneOrRacing
INVARIANTS
    TypeOK
    ChecklistTellsTheTruth
    FinalWasCandidate
    RcContainsBackports
    EachBackportOnce
PROPERTIES
    PublishedStays
CHECK_DEADLOCK FALSE

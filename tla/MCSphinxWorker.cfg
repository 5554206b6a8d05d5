SPECIFICATION Spec
CONSTANTS
    DocOrder <- MCDocOrder
    Versions <- MCVersions
    Content <- MCContent
    Lists <- MCLists
    GlobToctrees <- MCGlobToctrees
    Sources <- MCSources
    NameLength <- MCNameLength
    DefaultRepo = "@main"
    Formats = {"html"}
    MaxRequests = 3
    MaxWorkers = 2
    MaxFaults = 1
INVARIANTS
    TypeOK
    SphinxSeesInputs
    PublishedIsCurrent
    TocIsCurrent
    DeclaredIsFound
    OnlyDeclaredIsFound
    RetryHeals
CHECK_DEADLOCK FALSE

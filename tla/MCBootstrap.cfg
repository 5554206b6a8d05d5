SPECIFICATION Spec
CONSTANTS
    None = None
    Processes = {p1, p2}
    p1 = p1
    p2 = p2
    Zipapps = {"app1", "app2"}
    Binaries = {"tool", "outer"}
    HasManifest = {"tool", "outer"}
    MaxUserLaunches = 2
    MaxLaunches = 3
    MaxKills = 1
    Earlier = {"app1"}
    Modules = {"tool"}
    WorkspaceName = "_main"
    LegacyExternalRunfiles = FALSE
    Sources = {"zip_main", "data", "app", "tool", "mapping", "dangling", "link"}
    Lines <- MCLines
    PathOrder <- MCPathOrder
    Disk <- MCDisk
    Deployed <- MCDeployed
    TreeArtifacts <- MCTreeArtifacts
    Mapping <- MCMapping
    StartsWith <- MCStartsWith
    Main <- MCMain
    Stage2 <- MCStage2
    SelfPath <- MCSelfPath
    Imports <- MCImports
    VenvPython <- MCVenvPython
    PythonActual <- MCPythonActual
    PyvenvCfg <- MCPyvenvCfg
    Asks <- MCAsks
SYMMETRY MCSymmetry
INVARIANTS
    WholeTree
    OwnRunfiles
CHECK_DEADLOCK FALSE

SPECIFICATION Spec
CONSTANTS
    Requests = {"r1", "r2", "r3"}
    Cancellable = {"r1", "r2"}
    Malformed = {"r3"}
    Files = 1
INVARIANTS
    TypeOK
    OneExitPerRequest
    TablesFollowTasks
    IgnoredCancelWasCompleted
PROPERTIES
    ImplementsProtocol
    EveryRequestAnswered
CHECK_DEADLOCK FALSE

SPECIFICATION Spec
CONSTANTS
    Requests = {"r1"}
    Cancellable = {"r1"}
    Malformed = {}
    Files = 1
INVARIANTS
    AtMostOneResponse
CHECK_DEADLOCK FALSE

SPECIFICATION Spec
CONSTANTS
    Requests = {"r1", "r2", "r3"}
    Malformed <- MCMalformed
    Files = 2
INVARIANTS
    TypeOK
    ResponseTellsTheTruth
PROPERTIES
    ImplementsProtocol
    EveryRequestAnswered
CHECK_DEADLOCK FALSE

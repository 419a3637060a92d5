SPECIFICATION Spec
CONSTANTS
    Descriptors = {f1, f2}
    Clients = {c1, c2}
    MaxSockets = 2
    AcceptFaults = TRUE
    RegisterFaults = TRUE
    Requests <- SomeRequests
    MaxRequests = 2
    MaxPending = 3
    StreamFaults = TRUE
INVARIANTS
    ConnTypeOK
    FreedLast
    ReadsInStep
    BacklogIsSignalled
PROPERTIES
    AnswersInOrder
    FinishEnds
\* a connection that is freed does nothing any more
CHECK_DEADLOCK FALSE

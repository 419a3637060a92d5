SPECIFICATION Spec
CONSTANTS
    Descriptors = {f1}
    Clients = {c1}
    MaxSockets = 1
    AcceptFaults = FALSE
    RegisterFaults = FALSE
    Requests <- SomeRequests
    MaxRequests = 1
    MaxPending = 2
    StreamFaults = FALSE
PROPERTIES
    FutureWriteCompletes
CHECK_DEADLOCK FALSE

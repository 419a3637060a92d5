SPECIFICATION Spec
CONSTANTS
    Inbound = 2
    Outbound = 2
    Delims <- SecondByte
    SendBuffer = 1
    Chunk = 1
    MaxBuffer = 2
    MaxQueue = 2
    Requests <- AllRequests
    Client = TRUE
    Failures = TRUE
    EpollMayFail = TRUE
INVARIANTS
    TypeOK
    PendingAccounts
    DataInOrder
    ListensWhenIdle
    WaitingReadListens
    CloseCallbackIsOwed
    ClosedIsUnregistered
PROPERTIES
    CloseCallbackWaits
\* the loop rests when no one does anything
CHECK_DEADLOCK FALSE

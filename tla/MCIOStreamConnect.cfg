SPECIFICATION Spec
CONSTANTS
    Inbound = 2
    Outbound = 1
    Delims <- SecondByte
    SendBuffer = 1
    Chunk = 1
    MaxBuffer = 9
    MaxQueue = 2
    Requests = {"bytes"}
    Client = TRUE
    Failures = TRUE
    EpollMayFail = FALSE
INVARIANT NoDeletedSocket
\* the loop rests when no one does anything
CHECK_DEADLOCK FALSE

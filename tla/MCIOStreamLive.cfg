SPECIFICATION FairSpec
CONSTANTS
    Inbound = 2
    Outbound = 2
    Delims <- SecondByte
    SendBuffer = 1
    Chunk = 1
    MaxBuffer = 9
    MaxQueue = 1
    Requests = {"bytes"}
    Client = TRUE
    Failures = FALSE
    EpollMayFail = FALSE
PROPERTIES
    BytesAreRead
    WritesFinish
    PeerCloseIsNoticed
    CloseCallbackRuns
\* the loop rests when no one does anything
CHECK_DEADLOCK FALSE

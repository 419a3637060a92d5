SPECIFICATION FairSpec
CONSTANTS
    Callbacks = {c1, c2}
    Timeouts = {}
    Fds <- TwoFds
    Handlers = {h1, h2}
    None = None
    MaxQueue = 2
    MaxTime = 0
    MaxPoll = 3
    MaxEvents = 1
    EpollMayFail = FALSE
INVARIANT EventsAreCurrent
PROPERTIES
    ImplementsQueue
    QueuedCallbackRuns
    EventReachesHandler
    StopEnds
\* the loop may be closed for good
CHECK_DEADLOCK FALSE

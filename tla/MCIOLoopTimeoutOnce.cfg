SPECIFICATION Spec
CONSTANTS
    Callbacks = {c1}
    Timeouts = {t1, t2}
    Fds <- NoFds
    Handlers = {h1}
    None = None
    MaxQueue = 1
    MaxTime = 2
    MaxPoll = 3
    MaxEvents = 1
    EpollMayFail = FALSE
PROPERTIES
    TimeoutRunsOnce
\* the loop may be closed for good
CHECK_DEADLOCK FALSE

SPECIFICATION Spec
CONSTANTS
    Callbacks = {c1}
    Timeouts = {t1, t2}
    Fds <- TwoFds
    Handlers = {h1, h2}
    None = None
    MaxQueue = 1
    MaxTime = 1
    MaxPoll = 3
    MaxEvents = 2
    EpollMayFail = TRUE
INVARIANTS
    TypeOK
    OwnWorkNeverWaits
    EventsAreCurrent
PROPERTIES
    NeverEarlyNorCancelled
\* the loop may be closed for good
CHECK_DEADLOCK FALSE

------------------------------- MODULE IOLoop -------------------------------
(***************************************************************************)
(* The event loop of core/ioloop.cc, on the kernel's epoll object          *)
(* (lib/epoll.cc).  One thread runs IOLoop::start; pc is where it is.      *)
(* User code runs inside that thread, in a callback, a timeout or an I/O   *)
(* handler, and may call every operation of the loop.  Other threads may   *)
(* call add_callback.  The kernel adds descriptors to epoll's ready list.  *)
(*                                                                         *)
(* Callables are model values.  Event masks are left out: a registered     *)
(* descriptor is in the ready list or not.                                 *)
(***************************************************************************)
EXTENDS Naturals, Sequences, FiniteSets, Functions

CONSTANTS Callbacks,    \* callables given to add_callback
          Timeouts,     \* Timeout objects
          Fds,          \* descriptor numbers
          Handlers,     \* handlers given to add_handler
          None,         \* nullptr
          MaxQueue,     \* bound: callbacks waiting at any time
          MaxTime,      \* bound: the clock stops here
          MaxPoll,      \* 3600000 in start()
          MaxEvents,    \* EPoll::MAX_EVENTS
          EpollMayFail  \* whether epoll_ctl(ADD) may fail (ENOSPC, ENOMEM)

ASSUME ConstAssumption ==
    /\ Fds \subseteq Nat
    /\ MaxQueue \in Nat /\ MaxTime \in Nat
    /\ MaxPoll \in Nat \ {0} /\ MaxEvents \in Nat \ {0}
    /\ EpollMayFail \in BOOLEAN
    /\ None \notin Callbacks \cup Timeouts \cup Handlers
    /\ Callbacks \cap (Timeouts \cup Handlers) = {} /\ Timeouts \cap Handlers = {}

VARIABLES callbacks_,   \* callbacks waiting for the next iteration
          batch,        \* start()'s copy of callbacks_, what is left to run
          timeouts_,    \* the heap: Timeout -> [status, deadline_]
          handlers_,    \* handlers_[fd], None when absent
          events_,      \* events polled and not dispatched: for each fd the
                        \* registration that the event was raised for, or None
          running_,
          stopped_,
          pc,           \* where the thread of start() is
          current,      \* the callable that is running, or None
          now,          \* start()'s clock reading
          poll_timeout,
          wakeAt,       \* when the epoll_wait in progress gives up
          clock,        \* msec_now()
          interest,     \* kernel: fd -> handler that its add_handler named
          ready,        \* kernel: epoll's ready list
          late,         \* history: callbacks other threads queued since the
                        \* loop last looked at callbacks_
          fired         \* history: timeouts whose callback has been called

loopVars   == <<running_, stopped_, pc, current>>
queueVars  == <<callbacks_, batch, late>>
timeVars   == <<timeouts_, now, poll_timeout, wakeAt, clock, fired>>
eventVars  == <<handlers_, events_, interest, ready>>
vars       == <<loopVars, queueVars, timeVars, eventVars>>

NoTimeout  == [status |-> "free", deadline_ |-> 0]
Heap       == {t \in Timeouts : timeouts_[t].status # "free"}

\* TimeoutLess orders the priority_queue by deadline_, so top() is the LARGEST
Top(t)     == /\ t \in Heap
              /\ \A u \in Heap : timeouts_[u].deadline_ <= timeouts_[t].deadline_

InCall     == pc \in {"inCallback", "inTimeout", "inHandler"}
InLoop     == pc \notin {"idle", "closed"}
UserCode   == pc = "idle" \/ InCall
PendingEvents == {fd \in Fds : events_[fd] # None}

Init ==
    /\ callbacks_ = <<>> /\ batch = <<>> /\ late = 0
    /\ timeouts_ = [t \in Timeouts |-> NoTimeout]
    /\ handlers_ = [fd \in Fds |-> None]
    /\ events_ = [fd \in Fds |-> None]
    /\ interest = [fd \in Fds |-> None]
    /\ ready = <<>>
    /\ running_ = FALSE /\ stopped_ = FALSE
    /\ pc = "idle" /\ current = None
    /\ now = 0 /\ poll_timeout = MaxPoll /\ wakeAt = 0 /\ clock = 0
    /\ fired = {}
-----------------------------------------------------------------------------
(* The operations that user code calls in the thread of the loop.          *)

Room == Len(batch) + Len(callbacks_) < MaxQueue

AddCallback(c) ==
    /\ UserCode /\ Room
    /\ callbacks_' = Append(callbacks_, c)
    /\ UNCHANGED <<batch, late, loopVars, timeVars, eventVars>>

\* add_callback from another thread: the mutex makes it one step
AddCallbackFromThread(c) ==
    /\ Room
    /\ callbacks_' = Append(callbacks_, c)
    /\ late' = IF pc = "poll" THEN late + 1 ELSE late
    /\ UNCHANGED <<batch, loopVars, timeVars, eventVars>>

AddTimeout(t, deadline) ==
    /\ UserCode
    /\ timeouts_[t] = NoTimeout
    /\ timeouts_' = [timeouts_ EXCEPT ![t] = [status |-> "pending",
                                              deadline_ |-> deadline]]
    /\ fired' = fired \ {t}
    /\ UNCHANGED <<now, poll_timeout, wakeAt, clock, loopVars, queueVars, eventVars>>

\* callers hold the handle of a Timeout that is still in the heap
RemoveTimeout(t) ==
    /\ UserCode
    /\ timeouts_[t].status = "pending"
    /\ timeouts_' = [timeouts_ EXCEPT ![t].status = "cancelled"]
    /\ UNCHANGED <<now, poll_timeout, wakeAt, clock, fired>>
    /\ UNCHANGED <<loopVars, queueVars, eventVars>>

\* handlers_.insert does not replace an entry that is already there
InsertHandler(fd, h) ==
    handlers_' = [handlers_ EXCEPT ![fd] = IF @ = None THEN h ELSE @]

\* the descriptor may be ready when it is registered or re-armed
MayBeReady(fd) ==
    \/ UNCHANGED ready
    \/ fd \notin Range(ready) /\ ready' = Append(ready, fd)

\* a handler object (an IOStream, a TCPServer's accept) serves one descriptor
AddHandler(fd, h) ==
    /\ UserCode
    /\ interest[fd] = None
    /\ h \notin Range(interest) \cup Range(handlers_)
    /\ InsertHandler(fd, h)
    /\ interest' = [interest EXCEPT ![fd] = h]
    /\ MayBeReady(fd)
    /\ UNCHANGED <<events_, loopVars, queueVars, timeVars>>

\* poll_.add throws after handlers_ was changed
AddHandlerFails(fd, h) ==
    /\ UserCode /\ EpollMayFail
    /\ interest[fd] = None
    /\ h \notin Range(interest) \cup Range(handlers_)
    /\ InsertHandler(fd, h)
    /\ UNCHANGED <<events_, interest, ready, loopVars, queueVars, timeVars>>

UpdateHandler(fd) ==
    /\ UserCode
    /\ interest[fd] # None
    /\ MayBeReady(fd)
    /\ UNCHANGED <<handlers_, events_, interest, loopVars, queueVars, timeVars>>

\* EPOLL_CTL_DEL; a descriptor is at most once in the ready list
Unready(fd) ==
    \/ fd \notin Range(ready) /\ UNCHANGED ready
    \/ \E i \in 1..Len(ready) :
          /\ ready[i] = fd
          /\ ready' = SubSeq(ready, 1, i - 1) \o SubSeq(ready, i + 1, Len(ready))

\* mutant: events_.erase(fd) is missing
RemoveHandlerKeepsEvent(fd) ==
    /\ UserCode
    /\ handlers_' = [handlers_ EXCEPT ![fd] = None]
    /\ interest' = [interest EXCEPT ![fd] = None]
    /\ Unready(fd)
    /\ UNCHANGED <<events_, loopVars, queueVars, timeVars>>

\* mutant: handlers_.erase(fd) is missing
RemoveHandlerKeepsHandler(fd) ==
    /\ UserCode
    /\ events_' = [events_ EXCEPT ![fd] = None]
    /\ interest' = [interest EXCEPT ![fd] = None]
    /\ Unready(fd)
    /\ UNCHANGED <<handlers_, loopVars, queueVars, timeVars>>

RemoveHandler(fd) ==
    /\ UserCode
    /\ handlers_' = [handlers_ EXCEPT ![fd] = None]
    /\ events_' = [events_ EXCEPT ![fd] = None]
    /\ interest' = [interest EXCEPT ![fd] = None]
    /\ Unready(fd)
    /\ UNCHANGED <<loopVars, queueVars, timeVars>>

Stop ==
    /\ UserCode
    /\ running_' = FALSE /\ stopped_' = TRUE
    /\ UNCHANGED <<pc, current, queueVars, timeVars, eventVars>>

\* IOLoop::close, which the loop's thread may call when start() has returned
Close ==
    /\ pc = "idle"
    /\ pc' = "closed"
    /\ interest' = [fd \in Fds |-> None]
    /\ ready' = <<>>
    /\ UNCHANGED <<running_, stopped_, current, handlers_, events_>>
    /\ UNCHANGED <<queueVars, timeVars>>

User ==
    \/ \E c \in Callbacks : AddCallback(c)
    \/ \E t \in Timeouts, d \in 0..MaxTime : AddTimeout(t, d)
    \/ \E t \in Timeouts : RemoveTimeout(t)
    \/ \E fd \in Fds, h \in Handlers : AddHandler(fd, h) \/ AddHandlerFails(fd, h)
    \/ \E fd \in Fds : UpdateHandler(fd) \/ RemoveHandler(fd)
    \/ Stop
    \/ Close
-----------------------------------------------------------------------------
(* IOLoop::start, in the order of its statements.                          *)

StartRefused ==
    /\ pc = "idle" /\ stopped_
    /\ stopped_' = FALSE
    /\ UNCHANGED <<running_, pc, current, queueVars, timeVars, eventVars>>

StartLoop ==
    /\ pc = "idle" /\ ~stopped_
    /\ running_' = TRUE
    /\ pc' = "top"
    /\ UNCHANGED <<stopped_, current, queueVars, timeVars, eventVars>>

\* mutant: callbacks_ is copied and not cleared
TakeCallbacksNotCleared ==
    /\ pc = "top"
    /\ batch' = callbacks_
    /\ poll_timeout' = MaxPoll
    /\ pc' = "callbacks"
    /\ UNCHANGED <<callbacks_, late, running_, stopped_, current>>
    /\ UNCHANGED <<timeouts_, now, wakeAt, clock, fired, eventVars>>

TakeCallbacks ==
    /\ pc = "top"
    /\ batch' = callbacks_ /\ callbacks_' = <<>>
    /\ poll_timeout' = MaxPoll
    /\ pc' = "callbacks"
    /\ UNCHANGED <<late, running_, stopped_, current>>
    /\ UNCHANGED <<timeouts_, now, wakeAt, clock, fired, eventVars>>

RunNextCallback ==
    /\ pc = "callbacks" /\ batch # <<>>
    /\ current' = Head(batch) /\ batch' = Tail(batch)
    /\ pc' = "inCallback"
    /\ UNCHANGED <<callbacks_, late, running_, stopped_, timeVars, eventVars>>

\* mutant: callbacks that were queued meanwhile are run in the same iteration
CallbacksDoneAgain ==
    /\ pc = "callbacks" /\ batch = <<>>
    /\ now' = clock
    /\ pc' = IF callbacks_ # <<>> THEN "top" ELSE "timeouts"
    /\ UNCHANGED <<running_, stopped_, current, timeouts_, poll_timeout>>
    /\ UNCHANGED <<wakeAt, clock, fired, queueVars, eventVars>>

\* the clock is read once, before the timeouts are looked at; the reading is
\* used when there is one
CallbacksDone ==
    /\ pc = "callbacks" /\ batch = <<>>
    /\ now' = clock
    /\ pc' = "timeouts"
    /\ UNCHANGED <<running_, stopped_, current, timeouts_, poll_timeout>>
    /\ UNCHANGED <<wakeAt, clock, fired, queueVars, eventVars>>

PopCancelled(t) ==
    /\ pc = "timeouts" /\ Top(t)
    /\ timeouts_[t].status = "cancelled"
    /\ timeouts_' = [timeouts_ EXCEPT ![t] = NoTimeout]
    /\ UNCHANGED <<now, poll_timeout, wakeAt, clock, fired>>
    /\ UNCHANGED <<loopVars, queueVars, eventVars>>

\* mutant: the test for a cancelled timeout is missing
FireTimeoutCancelled(t) ==
    /\ pc = "timeouts" /\ Top(t)
    /\ timeouts_[t].deadline_ <= now
    /\ fired' = fired \cup {t}
    /\ current' = t
    /\ pc' = "inTimeout"
    /\ UNCHANGED <<running_, stopped_, timeouts_, now, poll_timeout>>
    /\ UNCHANGED <<wakeAt, clock, queueVars, eventVars>>

\* an expired timeout is run and stays where it is
FireTimeout(t) ==
    /\ pc = "timeouts" /\ Top(t)
    /\ timeouts_[t].status = "pending" /\ timeouts_[t].deadline_ <= now
    /\ fired' = fired \cup {t}
    /\ current' = t
    /\ pc' = "inTimeout"
    /\ UNCHANGED <<running_, stopped_, timeouts_, now, poll_timeout>>
    /\ UNCHANGED <<wakeAt, clock, queueVars, eventVars>>

ToCheck == pc' = "check" /\ UNCHANGED <<running_, stopped_, current, queueVars,
                                        timeouts_, now, wakeAt, clock, fired, eventVars>>

NoTimeouts ==
    /\ pc = "timeouts" /\ Heap = {}
    /\ ToCheck /\ UNCHANGED poll_timeout

\* mutant: the difference is taken the wrong way round
WaitForTimeoutNegated(t) ==
    /\ pc = "timeouts" /\ Top(t)
    /\ timeouts_[t].status = "pending" /\ timeouts_[t].deadline_ > now
    /\ poll_timeout' = now - timeouts_[t].deadline_
    /\ ToCheck

WaitForTimeout(t) ==
    /\ pc = "timeouts" /\ Top(t)
    /\ timeouts_[t].status = "pending" /\ timeouts_[t].deadline_ > now
    /\ LET msecs == timeouts_[t].deadline_ - now
       IN  poll_timeout' = IF msecs < poll_timeout THEN msecs ELSE poll_timeout
    /\ ToCheck

\* mutant: callbacks_ is not looked at before waiting
EnterPollUnchecked ==
    /\ pc = "check" /\ running_
    /\ wakeAt' = clock + poll_timeout
    /\ late' = 0
    /\ pc' = "poll"
    /\ UNCHANGED <<running_, stopped_, current, callbacks_, batch>>
    /\ UNCHANGED <<timeouts_, now, poll_timeout, clock, fired, eventVars>>

\* the unlocked test of callbacks_, then the test of running_
EnterPoll ==
    /\ pc = "check" /\ running_
    /\ poll_timeout' = IF callbacks_ # <<>> THEN 0 ELSE poll_timeout
    /\ wakeAt' = clock + poll_timeout'
    /\ late' = 0
    /\ pc' = "poll"
    /\ UNCHANGED <<running_, stopped_, current, callbacks_, batch>>
    /\ UNCHANGED <<timeouts_, now, clock, fired, eventVars>>

\* mutant: break leaves the timeout loop only
LeaveLoopAgain ==
    /\ pc = "check" /\ ~running_
    /\ pc' = "top"
    /\ UNCHANGED <<running_, stopped_, current, queueVars, timeVars, eventVars>>

\* the break, and the reset of stopped_ behind the loop
LeaveLoop ==
    /\ pc = "check" /\ ~running_
    /\ stopped_' = FALSE
    /\ pc' = "idle"
    /\ UNCHANGED <<running_, current, queueVars, timeVars, eventVars>>

\* epoll_wait reports the head of the ready list; edge-triggered descriptors
\* are not put back.  The map insert keeps an entry that is already there.
PollEvents ==
    /\ pc = "poll" /\ ready # <<>>
    /\ LET n == IF Len(ready) < MaxEvents THEN Len(ready) ELSE MaxEvents
           polled == {ready[i] : i \in 1..n}
       IN  /\ events_' = [fd \in Fds |-> IF fd \in polled /\ events_[fd] = None
                                         THEN interest[fd] ELSE events_[fd]]
           /\ ready' = SubSeq(ready, n + 1, Len(ready))
    /\ pc' = "events"
    /\ UNCHANGED <<handlers_, interest, running_, stopped_, current>>
    /\ UNCHANGED <<queueVars, timeVars>>

\* at MaxTime the clock stands for every later time
PollTimesOut ==
    /\ pc = "poll" /\ ready = <<>>
    /\ clock >= wakeAt \/ clock = MaxTime
    /\ pc' = "top"
    /\ UNCHANGED <<running_, stopped_, current, queueVars, timeVars, eventVars>>

\* EINTR, which epoll_wait returns only when it has no event to report
PollInterrupted ==
    /\ pc = "poll" /\ ready = <<>>
    /\ pc' = "top"
    /\ UNCHANGED <<running_, stopped_, current, queueVars, timeVars, eventVars>>

\* events_ is a std::map: begin() is the smallest descriptor.  The code reads
\* the entry after it has erased it; a node that was just freed keeps its value
\* in the allocators this is built with (glibc's and jemalloc).
DispatchEvent ==
    /\ pc = "events" /\ PendingEvents # {}
    /\ \E fd \in PendingEvents :
          /\ \A other \in PendingEvents : fd <= other
          /\ events_' = [events_ EXCEPT ![fd] = None]
          /\ current' = handlers_[fd]
    /\ pc' = "inHandler"
    /\ UNCHANGED <<running_, stopped_, handlers_, interest, ready>>
    /\ UNCHANGED <<queueVars, timeVars>>

\* mutant: handlers are dispatched for ever, the inner loop polls by itself
EventsDonePollsAgain ==
    /\ pc = "events" /\ PendingEvents = {}
    /\ pc' = IF ready # <<>> THEN "poll" ELSE "top"
    /\ UNCHANGED <<running_, stopped_, current, queueVars, timeVars, eventVars>>

EventsDone ==
    /\ pc = "events" /\ PendingEvents = {}
    /\ pc' = "top"
    /\ UNCHANGED <<running_, stopped_, current, queueVars, timeVars, eventVars>>

\* user code returns, or throws an Error, which the loop catches
Return ==
    /\ InCall
    /\ pc' = CASE pc = "inCallback" -> "callbacks"
               [] pc = "inTimeout"  -> "timeouts"
               [] pc = "inHandler"  -> "events"
    /\ current' = None
    /\ UNCHANGED <<running_, stopped_, queueVars, timeVars, eventVars>>

\* the steps that start() takes by itself; Poll... belong to the kernel
Loop ==
    \/ TakeCallbacks \/ RunNextCallback \/ CallbacksDone
    \/ \E t \in Timeouts : PopCancelled(t) \/ FireTimeout(t) \/ WaitForTimeout(t)
    \/ NoTimeouts \/ EnterPoll \/ LeaveLoop
    \/ PollEvents \/ PollTimesOut \/ DispatchEvent \/ EventsDone \/ Return
-----------------------------------------------------------------------------
(* The environment: time, the kernel, other threads.                       *)

Tick == /\ clock < MaxTime
        /\ clock' = clock + 1
        /\ UNCHANGED <<timeouts_, now, poll_timeout, wakeAt, fired>>
        /\ UNCHANGED <<loopVars, queueVars, eventVars>>

BecomesReady(fd) ==
    /\ interest[fd] # None
    /\ fd \notin Range(ready)
    /\ ready' = Append(ready, fd)
    /\ UNCHANGED <<handlers_, events_, interest, loopVars, queueVars, timeVars>>

Environment ==
    \/ Tick
    \/ PollInterrupted
    \/ \E fd \in Fds : BecomesReady(fd)
    \/ \E c \in Callbacks : AddCallbackFromThread(c)

Next == StartRefused \/ StartLoop \/ Loop \/ User \/ Environment

Spec == Init /\ [][Next]_vars

\* start() keeps running, user code returns, epoll_wait honours its timeout
\* and time passes
FairSpec == Spec /\ WF_vars(Loop) /\ WF_vars(Tick)
-----------------------------------------------------------------------------
(* Correctness.                                                            *)

Status == {"free", "pending", "cancelled"}
Places == {"idle", "top", "callbacks", "inCallback", "timeouts", "inTimeout",
           "check", "poll", "events", "inHandler", "closed"}

QueueTypeOK ==
    /\ callbacks_ \in Seq(Callbacks)
    /\ batch \in Seq(Callbacks)
    /\ late \in Nat

TimeTypeOK ==
    /\ timeouts_ \in [Timeouts -> [status : Status, deadline_ : 0..MaxTime]]
    /\ now \in 0..MaxTime
    /\ poll_timeout \in Nat
    /\ wakeAt \in Nat
    /\ clock \in 0..MaxTime
    /\ fired \subseteq Timeouts

EventTypeOK ==
    /\ handlers_ \in [Fds -> Handlers \cup {None}]
    /\ events_ \in [Fds -> Handlers \cup {None}]
    /\ interest \in [Fds -> Handlers \cup {None}]
    /\ ready \in Seq(Fds)

LoopTypeOK ==
    /\ running_ \in BOOLEAN
    /\ stopped_ \in BOOLEAN
    /\ pc \in Places
    /\ current \in Callbacks \cup Timeouts \cup Handlers \cup {None}

\* Every variable has its type: in particular poll_timeout is never negative,
\* which epoll_wait would take for "wait forever" (start, ioloop.cc:147).
TypeOK == QueueTypeOK /\ TimeTypeOK /\ EventTypeOK /\ LoopTypeOK

\* The loop never waits in epoll_wait on a callback that was queued by its own
\* callbacks, timeouts or handlers: what is in the queue while it waits was
\* put there by other threads after it looked (start, "we don't want to wait
\* in poll() before we run them").
OwnWorkNeverWaits ==
    pc = "poll" /\ poll_timeout # 0 => Len(callbacks_) = late

\* An event that waits in events_ belongs to the registration that its
\* descriptor has now, although handlers of other descriptors run in between
\* and may remove this one and register a new stream under the same number;
\* and there is a handler to call (handlers_[fd] would otherwise insert an
\* empty one, whose call ends the process).  It is the registration's own
\* handler unless epoll_ctl has failed, which leaves an old one in handlers_.
EventsAreCurrent ==
    \A fd \in PendingEvents :
       /\ events_[fd] = interest[fd] /\ handlers_[fd] # None
       /\ EpollMayFail \/ handlers_[fd] = interest[fd]

\* A timeout's callback is not called before its deadline, nor after
\* remove_timeout was called for it.
NeverEarlyNorCancelled ==
    [][\A t \in Timeouts : current' = t /\ current # t =>
          timeouts_[t].status = "pending" /\ timeouts_[t].deadline_ <= clock]_vars

\* ioloop.h:125, "Calls the given callback at the time deadline": a timeout
\* is called once.  FireTimeout leaves it in the heap, so it is called again.
TimeoutRunsOnce == [][\A t \in Timeouts : FireTimeout(t) => t \notin fired]_vars

\* The same sentence: the wait that start() computes, from its reading of the
\* clock, is not longer than the time to the earliest deadline.  The heap's
\* order puts the latest one on top.
WakesForEarliest ==
    pc = "poll" => \A t \in Timeouts : timeouts_[t].status = "pending"
                                          => now + poll_timeout <= timeouts_[t].deadline_

\* The queue that clients see: what is left of the batch, then callbacks_.
Abstract == INSTANCE CallbackQueue
    WITH queue <- batch \o callbacks_,
         running <- IF current \in Callbacks THEN current ELSE None

\* add_callback's callbacks are run in the order of the calls, each once and
\* none while another runs, whichever thread queued them and whenever the loop
\* was stopped and started.
ImplementsQueue == Abstract!Spec

\* A callback that was queued is run, unless the loop is stopped: neither
\* callbacks that queue callbacks nor a stream of events keep it waiting.
QueuedCallbackRuns ==
    \A c \in Callbacks :
        InLoop /\ c \in Range(batch \o callbacks_) ~> (current = c \/ ~InLoop)

\* An event that the kernel raised reaches the handler registered for the
\* descriptor, unless that is removed or the loop stopped: callbacks that
\* queue callbacks do not starve I/O (start, "Prevent IO event starvation"),
\* and no event is lost between epoll's list, events_ and the handler.
EventReachesHandler ==
    \A fd \in Fds, h \in Handlers :
        InLoop /\ fd \in Range(ready) /\ interest[fd] = h
            ~> (current = h \/ interest[fd] # h \/ ~InLoop)

\* stop() makes start() return.
StopEnds == InLoop /\ ~running_ ~> pc = "idle"
=============================================================================

---------------------------- MODULE IOLoopProofs ----------------------------
(***************************************************************************)
(* Proofs about IOLoop, for every set of callbacks, timeouts, handlers and *)
(* descriptors and every value of the bounds.                              *)
(***************************************************************************)
EXTENDS IOLoop, SequenceTheorems, TLAPS

-----------------------------------------------------------------------------
(* Types, one lemma for each group of variables.                           *)

\* The queue, the batch and their counter keep their types: add_callback and
\* the head of start()'s loop.
LEMMA QueueTyping == TypeOK /\ [Next]_vars => QueueTypeOK'
<1> SUFFICES ASSUME TypeOK, [Next]_vars PROVE QueueTypeOK'
  OBVIOUS
<1>1. CASE UNCHANGED queueVars
  BY <1>1 DEF TypeOK, QueueTypeOK, queueVars
<1>2. ASSUME NEW c \in Callbacks, AddCallback(c) PROVE QueueTypeOK'
  BY <1>2, AppendProperties DEF TypeOK, QueueTypeOK, AddCallback
<1>3. ASSUME NEW c \in Callbacks, AddCallbackFromThread(c) PROVE QueueTypeOK'
  BY <1>3, AppendProperties DEF TypeOK, QueueTypeOK, AddCallbackFromThread
<1>4. CASE TakeCallbacks
  BY <1>4 DEF TypeOK, QueueTypeOK, TakeCallbacks
<1>5. CASE EnterPoll
  BY <1>5 DEF TypeOK, QueueTypeOK, EnterPoll
<1>6. CASE RunNextCallback
  BY <1>6, HeadTailProperties DEF TypeOK, QueueTypeOK, RunNextCallback
<1>7. QED
  BY <1>1, <1>2, <1>3, <1>4, <1>5, <1>6
     DEF Next, Loop, User, Environment, vars, StartRefused, StartLoop,
         CallbacksDone, PopCancelled, FireTimeout, WaitForTimeout,
         NoTimeouts, LeaveLoop, PollEvents, PollTimesOut, DispatchEvent,
         EventsDone, Return, AddTimeout, RemoveTimeout, AddHandler,
         AddHandlerFails, UpdateHandler, RemoveHandler, Stop, Close, Tick,
         PollInterrupted, BecomesReady, ToCheck

\* The timeouts and the clock keep their types; poll_timeout stays a natural
\* number, since WaitForTimeout subtracts an earlier time from a later one.
LEMMA TimeTyping == TypeOK /\ [Next]_vars => TimeTypeOK'
<1> SUFFICES ASSUME TypeOK, [Next]_vars PROVE TimeTypeOK'
  OBVIOUS
<1> USE ConstAssumption
<1>1. CASE UNCHANGED timeVars
  BY <1>1 DEF TypeOK, TimeTypeOK, Status, timeVars
<1>2. ASSUME NEW t \in Timeouts, NEW d \in 0..MaxTime, AddTimeout(t, d) PROVE TimeTypeOK'
  BY <1>2
     DEF TypeOK, TimeTypeOK, Status, NoTimeout, AddTimeout
<1>3. ASSUME NEW t \in Timeouts, RemoveTimeout(t) PROVE TimeTypeOK'
  BY <1>3 DEF TypeOK, TimeTypeOK, Status, RemoveTimeout
<1>4. CASE TakeCallbacks
  BY <1>4
     DEF TypeOK, TimeTypeOK, Status, ConstAssumption, TakeCallbacks
<1>5. CASE CallbacksDone
  BY <1>5 DEF TypeOK, TimeTypeOK, Status, CallbacksDone
<1>6. ASSUME NEW t \in Timeouts, PopCancelled(t) PROVE TimeTypeOK'
  BY <1>6
     DEF TypeOK, TimeTypeOK, Status, NoTimeout, PopCancelled
<1>7. ASSUME NEW t \in Timeouts, FireTimeout(t) PROVE TimeTypeOK'
  BY <1>7 DEF TypeOK, TimeTypeOK, Status, FireTimeout
<1>8. ASSUME NEW t \in Timeouts, WaitForTimeout(t) PROVE TimeTypeOK'
  BY <1>8
     DEF TypeOK, TimeTypeOK, Status, ToCheck, WaitForTimeout
<1>9. CASE EnterPoll
  BY <1>9 DEF TypeOK, TimeTypeOK, Status, EnterPoll
<1>10. CASE Tick
  BY <1>10 DEF TypeOK, TimeTypeOK, Status, Tick
<1>11. QED
  BY <1>1, <1>2, <1>3, <1>4, <1>5, <1>6, <1>7, <1>8, <1>9, <1>10
     DEF Next, Loop, User, Environment, vars, StartRefused, StartLoop,
         RunNextCallback, NoTimeouts, LeaveLoop, PollEvents, PollTimesOut,
         DispatchEvent, EventsDone, Return, AddCallback,
         AddCallbackFromThread, AddHandler, AddHandlerFails, UpdateHandler,
         RemoveHandler, Stop, Close, PollInterrupted, BecomesReady, ToCheck,
         timeVars

\* The handlers, the pending events and epoll's state keep their types.
LEMMA EventTyping == TypeOK /\ [Next]_vars => EventTypeOK'
<1> SUFFICES ASSUME TypeOK, [Next]_vars PROVE EventTypeOK'
  OBVIOUS
<1>1. CASE UNCHANGED eventVars
  BY <1>1 DEF TypeOK, EventTypeOK, eventVars
<1>2. ASSUME NEW fd \in Fds, NEW h \in Handlers, AddHandler(fd, h) PROVE EventTypeOK'
  <2>1. ready' \in Seq(Fds)
    <3>1. MayBeReady(fd)
      BY <1>2 DEF AddHandler
    <3>2. QED
      BY <3>1, AppendProperties, SMTT(30) DEF MayBeReady, TypeOK, EventTypeOK
  <2>2. QED
    BY <1>2, <2>1 DEF TypeOK, EventTypeOK, InsertHandler, AddHandler
<1>3. ASSUME NEW fd \in Fds, NEW h \in Handlers, AddHandlerFails(fd, h) PROVE EventTypeOK'
  BY <1>3 DEF TypeOK, EventTypeOK, InsertHandler, AddHandlerFails
<1>4. ASSUME NEW fd \in Fds, UpdateHandler(fd) PROVE EventTypeOK'
  BY <1>4, AppendProperties
     DEF TypeOK, EventTypeOK, MayBeReady, UpdateHandler
<1>5. ASSUME NEW fd \in Fds, RemoveHandler(fd) PROVE EventTypeOK'
  <2>1. ready' \in Seq(Fds)
    <3>1. CASE UNCHANGED ready
      BY <3>1 DEF TypeOK, EventTypeOK
    <3>2. ASSUME NEW i \in 1..Len(ready),
                 ready' = SubSeq(ready, 1, i - 1) \o SubSeq(ready, i + 1, Len(ready))
          PROVE  ready' \in Seq(Fds)
      <4>1. ready \in Seq(Fds) /\ Len(ready) \in Nat
        BY LenProperties DEF TypeOK, EventTypeOK
      <4>2. SubSeq(ready, 1, i - 1) \in Seq(Fds)
        BY <4>1, SubSeqProperties, ElementOfSeq
      <4>3. SubSeq(ready, i + 1, Len(ready)) \in Seq(Fds)
        BY <4>1, SubSeqProperties, ElementOfSeq
      <4>4. QED
        BY <3>2, <4>2, <4>3, ConcatProperties
    <3>3. QED
      BY <1>5, <3>1, <3>2 DEF RemoveHandler, Unready
  <2>2. QED
    BY <1>5, <2>1 DEF TypeOK, EventTypeOK, RemoveHandler
<1>6. CASE Close
  BY <1>6 DEF TypeOK, EventTypeOK, Close
<1>7. CASE PollEvents
  <2>1. ready \in Seq(Fds) /\ Len(ready) \in Nat
    BY LenProperties DEF TypeOK, EventTypeOK
  <2>2. PICK n \in Nat : ready' = SubSeq(ready, n + 1, Len(ready))
    BY <1>7, <2>1, ConstAssumption DEF PollEvents, ConstAssumption
  <2>3. ready' \in Seq(Fds)
    BY <2>1, <2>2, SubSeqProperties, ElementOfSeq
  <2>4. events_' \in [Fds -> Handlers \cup {None}]
    BY <1>7 DEF PollEvents, TypeOK, EventTypeOK
  <2>5. QED
    BY <1>7, <2>3, <2>4 DEF TypeOK, EventTypeOK, PollEvents
<1>8. CASE DispatchEvent
  BY <1>8 DEF TypeOK, EventTypeOK, PendingEvents, DispatchEvent
<1>9. ASSUME NEW fd \in Fds, BecomesReady(fd) PROVE EventTypeOK'
  BY <1>9, AppendProperties DEF TypeOK, EventTypeOK, BecomesReady
<1>10. QED
  BY <1>1, <1>2, <1>3, <1>4, <1>5, <1>6, <1>7, <1>8, <1>9
     DEF Next, Loop, User, Environment, vars, StartRefused, StartLoop,
         TakeCallbacks, RunNextCallback, CallbacksDone, PopCancelled,
         FireTimeout, WaitForTimeout, NoTimeouts, EnterPoll, LeaveLoop,
         PollTimesOut, EventsDone, Return, AddCallback,
         AddCallbackFromThread, AddTimeout, RemoveTimeout, Stop, Tick,
         PollInterrupted, ToCheck

\* The flags, the place in start() and the running callable keep their types.
LEMMA LoopTyping == TypeOK /\ [Next]_vars => LoopTypeOK'
<1> SUFFICES ASSUME TypeOK, [Next]_vars PROVE LoopTypeOK'
  OBVIOUS
<1>1. CASE UNCHANGED loopVars
  BY <1>1 DEF TypeOK, LoopTypeOK, Places, loopVars
<1>2. CASE StartRefused
  BY <1>2 DEF TypeOK, LoopTypeOK, Places, StartRefused
<1>3. CASE StartLoop
  BY <1>3 DEF TypeOK, LoopTypeOK, Places, StartLoop
<1>4. CASE TakeCallbacks
  BY <1>4 DEF TypeOK, LoopTypeOK, Places, TakeCallbacks
<1>5. CASE RunNextCallback
  BY <1>5, HeadTailProperties
     DEF TypeOK, LoopTypeOK, Places, QueueTypeOK, RunNextCallback
<1>6. CASE CallbacksDone
  BY <1>6 DEF TypeOK, LoopTypeOK, Places, CallbacksDone
<1>7. ASSUME NEW t \in Timeouts, FireTimeout(t) PROVE LoopTypeOK'
  BY <1>7 DEF TypeOK, LoopTypeOK, Places, FireTimeout
<1>8. CASE NoTimeouts
  BY <1>8
     DEF TypeOK, LoopTypeOK, Places, ToCheck, NoTimeouts
<1>9. ASSUME NEW t \in Timeouts, WaitForTimeout(t) PROVE LoopTypeOK'
  BY <1>9
     DEF TypeOK, LoopTypeOK, Places, ToCheck, WaitForTimeout
<1>10. CASE EnterPoll
  BY <1>10 DEF TypeOK, LoopTypeOK, Places, EnterPoll
<1>11. CASE LeaveLoop
  BY <1>11 DEF TypeOK, LoopTypeOK, Places, LeaveLoop
<1>12. CASE PollEvents
  BY <1>12 DEF TypeOK, LoopTypeOK, Places, PollEvents
<1>13. CASE PollTimesOut
  BY <1>13 DEF TypeOK, LoopTypeOK, Places, PollTimesOut
<1>14. CASE PollInterrupted
  BY <1>14 DEF TypeOK, LoopTypeOK, Places, PollInterrupted
<1>15. CASE DispatchEvent
  BY <1>15
     DEF TypeOK, LoopTypeOK, Places, PendingEvents, EventTypeOK,
         DispatchEvent
<1>16. CASE EventsDone
  BY <1>16 DEF TypeOK, LoopTypeOK, Places, EventsDone
<1>17. CASE Return
  BY <1>17
     DEF TypeOK, LoopTypeOK, Places, InCall, Return
<1>18. CASE Stop
  BY <1>18 DEF TypeOK, LoopTypeOK, Places, Stop
<1>19. CASE Close
  BY <1>19 DEF TypeOK, LoopTypeOK, Places, Close
<1>20. QED
  BY <1>1, <1>2, <1>3, <1>4, <1>5, <1>6, <1>7, <1>8, <1>9, <1>10, <1>11,
     <1>12, <1>13, <1>14, <1>15, <1>16, <1>17, <1>18, <1>19
     DEF Next, Loop, User, Environment, vars, PopCancelled, AddCallback,
         AddCallbackFromThread, AddTimeout, RemoveTimeout, AddHandler,
         AddHandlerFails, UpdateHandler, RemoveHandler, Tick, BecomesReady

\* IOLoop's variables always have their types, whatever the clients call and
\* whenever other threads queue callbacks.
THEOREM Typing == Spec => []TypeOK
<1>1. Init => TypeOK
  <2> SUFFICES ASSUME Init PROVE TypeOK
    OBVIOUS
  <2>1. QueueTypeOK
    BY DEF Init, QueueTypeOK
  <2>2. TimeTypeOK
    BY ConstAssumption DEF Init, TimeTypeOK, NoTimeout, Status, ConstAssumption
  <2>3. EventTypeOK
    BY DEF Init, EventTypeOK
  <2>4. LoopTypeOK
    BY DEF Init, LoopTypeOK, Places
  <2>5. QED
    BY <2>1, <2>2, <2>3, <2>4 DEF TypeOK
<1>2. TypeOK /\ [Next]_vars => TypeOK'
  BY QueueTyping, TimeTyping, EventTyping, LoopTyping DEF TypeOK
<1>3. QED
  BY <1>1, <1>2, PTL DEF Spec

-----------------------------------------------------------------------------
(* Safety.                                                                 *)

\* While the loop waits for events, only other threads have queued callbacks
\* since it looked: start()'s test of callbacks_ before poll suffices.
THEOREM OwnWork == Spec => []OwnWorkNeverWaits
<1>1. Init => OwnWorkNeverWaits
  BY DEF Init, OwnWorkNeverWaits
<1>2. TypeOK /\ OwnWorkNeverWaits /\ [Next]_vars => OwnWorkNeverWaits'
  <2> SUFFICES ASSUME TypeOK, OwnWorkNeverWaits, [Next]_vars
               PROVE  OwnWorkNeverWaits'
    OBVIOUS
  <2>1. CASE UNCHANGED <<pc, poll_timeout, callbacks_, late>>
    BY <2>1 DEF OwnWorkNeverWaits
  <2>2. CASE pc' # "poll"
    BY <2>2 DEF OwnWorkNeverWaits
  <2>3. CASE EnterPoll
    BY <2>3, EmptySeq DEF EnterPoll, OwnWorkNeverWaits
  <2>4. ASSUME NEW c \in Callbacks, AddCallbackFromThread(c)
        PROVE  OwnWorkNeverWaits'
    <3>1. Len(callbacks_') = Len(callbacks_) + 1
      BY <2>4, AppendProperties DEF AddCallbackFromThread, TypeOK, QueueTypeOK
    <3>2. QED
      BY <2>4, <3>1 DEF AddCallbackFromThread, OwnWorkNeverWaits, loopVars, timeVars
  <2>5. QED
    BY <2>1, <2>2, <2>3, <2>4
       DEF Next, Loop, User, Environment, vars, loopVars, queueVars, timeVars,
           StartRefused, StartLoop, TakeCallbacks, RunNextCallback, CallbacksDone,
           PopCancelled, FireTimeout, WaitForTimeout, NoTimeouts, ToCheck,
           LeaveLoop, PollEvents, PollTimesOut, DispatchEvent, EventsDone, Return,
           AddCallback, AddTimeout, RemoveTimeout, AddHandler, AddHandlerFails,
           UpdateHandler, RemoveHandler, Stop, Close, Tick, PollInterrupted,
           BecomesReady, UserCode, InCall
<1>3. QED
  BY <1>1, <1>2, Typing, PTL DEF Spec

\* EventsAreCurrent is not inductive: AddHandler keeps it because no event waits
\* for an unregistered descriptor, and Close because none waits outside of the
\* dispatch loop.
EventsInv ==
    /\ EventsAreCurrent
    /\ \A fd \in Fds : interest[fd] # None => handlers_[fd] # None
    /\ EpollMayFail \/ pc = "closed" \/ handlers_ = interest
    /\ PendingEvents # {} => pc \in {"events", "inHandler"}

\* The invariant is kept by every step, add_handler's failure included.
LEMMA EventsStep == TypeOK /\ EventsInv /\ [Next]_vars => EventsInv'
<1> SUFFICES ASSUME TypeOK, EventsInv, [Next]_vars PROVE EventsInv'
  OBVIOUS
<1> USE DEF EventsInv, EventsAreCurrent, PendingEvents
<1>1. CASE UNCHANGED eventVars /\ UNCHANGED pc
  BY <1>1 DEF eventVars
<1>2. CASE UNCHANGED eventVars /\ pc \notin {"events", "inHandler", "closed"}
  BY <1>2 DEF eventVars
<1>3. ASSUME NEW fd \in Fds, NEW h \in Handlers, AddHandler(fd, h)
      PROVE  EventsInv'
  BY <1>3, ConstAssumption
     DEF AddHandler, InsertHandler, TypeOK, EventTypeOK, loopVars, ConstAssumption
<1>4. ASSUME NEW fd \in Fds, NEW h \in Handlers, AddHandlerFails(fd, h)
      PROVE  EventsInv'
  BY <1>4, ConstAssumption
     DEF AddHandlerFails, InsertHandler, TypeOK, EventTypeOK, loopVars,
         ConstAssumption
<1>5. ASSUME NEW fd \in Fds, UpdateHandler(fd) \/ BecomesReady(fd)
      PROVE  EventsInv'
  BY <1>5 DEF UpdateHandler, BecomesReady, loopVars
<1>6. ASSUME NEW fd \in Fds, RemoveHandler(fd)
      PROVE  EventsInv'
  BY <1>6 DEF RemoveHandler, TypeOK, EventTypeOK, loopVars
<1>7. CASE Close
  BY <1>7 DEF Close, TypeOK, EventTypeOK
<1>8. CASE PollEvents
  BY <1>8 DEF PollEvents, TypeOK, EventTypeOK
<1>9. CASE DispatchEvent
  BY <1>9 DEF DispatchEvent, TypeOK, EventTypeOK
<1>10. CASE EventsDone
  BY <1>10 DEF EventsDone, eventVars
<1>11. CASE Return
  BY <1>11 DEF Return, InCall, eventVars
<1>12. QED
  BY <1>1, <1>2, <1>3, <1>4, <1>5, <1>6, <1>7, <1>8, <1>9, <1>10, <1>11
     DEF Next, Loop, User, Environment, vars, loopVars,
         StartRefused, StartLoop, TakeCallbacks, RunNextCallback, CallbacksDone,
         PopCancelled, FireTimeout, WaitForTimeout, NoTimeouts, ToCheck,
         EnterPoll, LeaveLoop, PollTimesOut, PollInterrupted, Tick, Stop,
         AddCallback, AddCallbackFromThread, AddTimeout, RemoveTimeout

\* An event that waits to be dispatched is one of the descriptor's present
\* registration and has a handler, although handlers that run before it may
\* remove and re-register descriptors.
THEOREM NoStaleEvent == Spec => []EventsAreCurrent
<1>1. Init => EventsInv
  BY DEF Init, EventsInv, EventsAreCurrent, PendingEvents
<1>2. EventsInv => EventsAreCurrent
  BY DEF EventsInv
<1>3. QED
  BY <1>1, <1>2, EventsStep, Typing, PTL DEF Spec

\* start()'s reading of the clock is never ahead of it.
LEMMA ReadingIsPast == Spec => [](now <= clock)
<1>1. Init => now <= clock
  BY DEF Init
<1>2. TypeOK /\ now <= clock /\ [Next]_vars => (now <= clock)'
  <2> SUFFICES ASSUME TypeOK, now <= clock, [Next]_vars PROVE (now <= clock)'
    OBVIOUS
  <2>1. CASE UNCHANGED <<now, clock>>
    BY <2>1
  <2>2. CASE CallbacksDone
    BY <2>2 DEF CallbacksDone, TypeOK, TimeTypeOK
  <2>3. CASE Tick
    BY <2>3, ConstAssumption DEF Tick, TypeOK, TimeTypeOK, ConstAssumption
  <2>4. QED
    BY <2>1, <2>2, <2>3
       DEF Next, Loop, User, Environment, vars, timeVars,
           StartRefused, StartLoop, TakeCallbacks, RunNextCallback,
           PopCancelled, FireTimeout, WaitForTimeout, NoTimeouts, ToCheck,
           EnterPoll, LeaveLoop, PollEvents, PollTimesOut, DispatchEvent,
           EventsDone, Return, AddCallback, AddCallbackFromThread, AddTimeout,
           RemoveTimeout, AddHandler, AddHandlerFails, UpdateHandler,
           RemoveHandler, Stop, Close, PollInterrupted, BecomesReady
<1>3. QED
  BY <1>1, <1>2, Typing, PTL DEF Spec

\* No timeout is called before its deadline, although start() compares with an
\* old reading of the clock, nor after remove_timeout.
THEOREM TimeoutsInTime == Spec => NeverEarlyNorCancelled
<1> DEFINE Called == \A t \in Timeouts : current' = t /\ current # t =>
                timeouts_[t].status = "pending" /\ timeouts_[t].deadline_ <= clock
<1>1. TypeOK /\ now <= clock /\ [Next]_vars => [Called]_vars
  <2> SUFFICES ASSUME TypeOK, now <= clock, [Next]_vars,
                      NEW t \in Timeouts, current' = t, current # t
               PROVE  timeouts_[t].status = "pending" /\ timeouts_[t].deadline_ <= clock
    OBVIOUS
  <2>1. ASSUME NEW u \in Timeouts, FireTimeout(u)
        PROVE  timeouts_[t].status = "pending" /\ timeouts_[t].deadline_ <= clock
    BY <2>1 DEF FireTimeout, TypeOK, TimeTypeOK
  <2>2. CASE RunNextCallback
    BY <2>2, HeadTailProperties, ConstAssumption
       DEF RunNextCallback, TypeOK, QueueTypeOK, ConstAssumption
  <2>3. CASE DispatchEvent
    BY <2>3, ConstAssumption
       DEF DispatchEvent, PendingEvents, TypeOK, EventTypeOK, ConstAssumption
  <2>4. CASE Return
    BY <2>4, ConstAssumption DEF Return, ConstAssumption
  <2>5. CASE UNCHANGED current
    BY <2>5
  <2>6. QED
    BY <2>1, <2>2, <2>3, <2>4, <2>5
       DEF Next, Loop, User, Environment, vars, loopVars,
           StartRefused, StartLoop, TakeCallbacks, CallbacksDone, PopCancelled,
           WaitForTimeout, NoTimeouts, ToCheck, EnterPoll, LeaveLoop, PollEvents,
           PollTimesOut, EventsDone, AddCallback, AddCallbackFromThread,
           AddTimeout, RemoveTimeout, AddHandler, AddHandlerFails, UpdateHandler,
           RemoveHandler, Stop, Close, Tick, PollInterrupted, BecomesReady
<1>2. QED
  BY <1>1, Typing, ReadingIsPast, PTL DEF Spec, NeverEarlyNorCancelled

-----------------------------------------------------------------------------
(* Refinement: the callbacks of an IOLoop are a CallbackQueue.             *)

\* A batch is worked off before the loop goes on, and between calls nothing is
\* running.
RunInv ==
    /\ batch # <<>> => pc \in {"callbacks", "inCallback"}
    /\ ~InCall => current = None

\* Callbacks of the batch wait only while start() runs the batch, and a callable
\* is current only while it is called.
LEMMA Running == Spec => []RunInv
<1>1. Init => RunInv
  BY DEF Init, RunInv
<1>2. RunInv /\ [Next]_vars => RunInv'
  BY DEF RunInv, InCall, UserCode, Next, Loop, User, Environment, vars, loopVars,
         queueVars, StartRefused, StartLoop, TakeCallbacks, RunNextCallback,
         CallbacksDone, PopCancelled, FireTimeout, WaitForTimeout, NoTimeouts,
         ToCheck, EnterPoll, LeaveLoop, PollEvents, PollTimesOut, DispatchEvent,
         EventsDone, Return, AddCallback, AddCallbackFromThread, AddTimeout,
         RemoveTimeout, AddHandler, AddHandlerFails, UpdateHandler,
         RemoveHandler, Stop, Close, Tick, PollInterrupted, BecomesReady
<1>3. QED
  BY <1>1, <1>2, PTL DEF Spec

\* Queueing at the end of callbacks_ is queueing at the end of the whole queue.
LEMMA AppendToConcat ==
  ASSUME NEW S, NEW s \in Seq(S), NEW t \in Seq(S), NEW e \in S
  PROVE  s \o Append(t, e) = Append(s \o t, e)
<1>1. <<e>> \in Seq(S)
  OBVIOUS
<1>2. Append(t, e) = t \o <<e>>
  BY AppendIsConcat
<1>3. s \o t \in Seq(S)
  BY ConcatProperties
<1>4. Append(s \o t, e) = (s \o t) \o <<e>>
  BY <1>3, AppendIsConcat
<1>5. QED
  BY <1>1, <1>2, <1>4, ConcatAssociative

\* The first callback of a batch that is not empty is the first of the queue.
LEMMA HeadTailOfConcat ==
  ASSUME NEW S, NEW s \in Seq(S), NEW t \in Seq(S), s # <<>>
  PROVE  /\ s \o t # <<>>
         /\ Head(s \o t) = Head(s)
         /\ Tail(s \o t) = Tail(s) \o t
<1> DEFINE c == s \o t
<1>1. /\ c \in Seq(S) /\ Len(c) = Len(s) + Len(t)
      /\ \A i \in 1..(Len(s) + Len(t)) : c[i] = IF i <= Len(s) THEN s[i] ELSE t[i - Len(s)]
  BY ConcatProperties
<1>2. Len(s) \in Nat \ {0} /\ Len(t) \in Nat
  BY EmptySeq, LenProperties
<1>3. c # <<>>
  BY <1>1, <1>2, EmptySeq
<1>4. Head(c) = Head(s)
  BY <1>1, <1>2
<1>5. /\ Tail(s) \in Seq(S) /\ Len(Tail(s)) = Len(s) - 1
      /\ \A i \in 1..Len(Tail(s)) : Tail(s)[i] = s[i + 1]
  BY HeadTailProperties
<1>6. /\ Tail(c) \in Seq(S) /\ Len(Tail(c)) = Len(c) - 1
      /\ \A i \in 1..Len(Tail(c)) : Tail(c)[i] = c[i + 1]
  BY <1>1, <1>3, HeadTailProperties
<1> DEFINE d == Tail(s) \o t
<1>7. /\ d \in Seq(S) /\ Len(d) = Len(Tail(s)) + Len(t)
      /\ \A i \in 1..(Len(Tail(s)) + Len(t)) :
             d[i] = IF i <= Len(Tail(s)) THEN Tail(s)[i] ELSE t[i - Len(Tail(s))]
  BY <1>5, ConcatProperties
<1>8. Len(Tail(c)) = Len(d)
  BY <1>1, <1>2, <1>5, <1>6, <1>7
<1>9. ASSUME NEW i \in 1..Len(Tail(c)) PROVE Tail(c)[i] = d[i]
  <2> HIDE DEF c, d
  <2>1. i + 1 \in 1..(Len(s) + Len(t)) /\ i \in 1..(Len(Tail(s)) + Len(t))
    BY <1>1, <1>2, <1>5, <1>6
  <2>2. Tail(c)[i] = c[i + 1]
    BY <1>6
  <2>3. CASE i + 1 <= Len(s)
    BY <2>1, <2>2, <2>3, <1>1, <1>2, <1>5, <1>7
  <2>4. CASE i + 1 > Len(s)
    BY <2>1, <2>2, <2>4, <1>1, <1>2, <1>5, <1>7
  <2>5. QED
    BY <2>1, <2>3, <2>4, <1>2
<1>10. Tail(c) = d
  <2> HIDE DEF c, d
  <2>1. QED
    BY <1>6, <1>7, <1>8, <1>9, SeqEqual
<1>11. QED
  BY <1>3, <1>4, <1>10

\* The clients' view of a step of IOLoop is a step of CallbackQueue or none.
LEMMA QueueStep ==
  TypeOK /\ RunInv /\ [Next]_vars => [Abstract!Next]_(Abstract!qvars)
<1> SUFFICES ASSUME TypeOK, RunInv, [Next]_vars
             PROVE  [Abstract!Next]_(Abstract!qvars)
  OBVIOUS
<1> DEFINE queue == batch \o callbacks_
           running == IF current \in Callbacks THEN current ELSE None
<1>t. /\ callbacks_ \in Seq(Callbacks) /\ batch \in Seq(Callbacks)
      /\ None \notin Callbacks
  BY ConstAssumption DEF TypeOK, QueueTypeOK, ConstAssumption
<1>1. CASE UNCHANGED <<batch, callbacks_, current>>
  BY <1>1 DEF Abstract!qvars
<1>2. ASSUME NEW c \in Callbacks, AddCallback(c) \/ AddCallbackFromThread(c)
      PROVE  Abstract!Next
  <2>1. queue' = Append(queue, c)
    <3>1. callbacks_' = Append(callbacks_, c) /\ batch' = batch
      BY <1>2 DEF AddCallback, AddCallbackFromThread
    <3>2. QED
      BY <1>t, <3>1, AppendToConcat
  <2>2. current' = current
    BY <1>2 DEF AddCallback, AddCallbackFromThread, loopVars
  <2>3. QED
    BY <2>1, <2>2 DEF Abstract!Next, Abstract!Add
<1>3. CASE TakeCallbacks
  <2>1. batch = <<>>
    BY <1>3 DEF TakeCallbacks, RunInv
  <2>2. queue' = queue
    BY <1>t, <1>3, <2>1, ConcatEmptySeq DEF TakeCallbacks
  <2>3. QED
    BY <1>3, <2>2 DEF TakeCallbacks, Abstract!qvars
<1>4. CASE RunNextCallback
  <2>1. batch # <<>> /\ batch' = Tail(batch) /\ callbacks_' = callbacks_
        /\ current' = Head(batch) /\ current = None
    BY <1>4 DEF RunNextCallback, RunInv, InCall
  <2>2. Head(batch) \in Callbacks
    BY <1>t, <2>1, HeadTailProperties
  <2>3. queue # <<>> /\ Head(queue) = Head(batch) /\ queue' = Tail(queue)
    BY <1>t, <2>1, HeadTailOfConcat
  <2>4. Abstract!Run
    BY <1>t, <2>1, <2>2, <2>3 DEF Abstract!Run
  <2>5. QED
    BY <2>4 DEF Abstract!Next
<1>5. CASE UNCHANGED <<batch, callbacks_>> /\ current = None /\ current' \notin Callbacks
  BY <1>t, <1>5 DEF Abstract!qvars
<1>6. CASE Return
  <2>1. UNCHANGED <<batch, callbacks_>> /\ current' = None
    BY <1>6 DEF Return, queueVars
  <2>2. CASE current \in Callbacks
    BY <1>t, <2>1, <2>2 DEF Abstract!Next, Abstract!Finish
  <2>3. CASE current \notin Callbacks
    BY <1>t, <2>1, <2>3 DEF Abstract!qvars
  <2>4. QED
    BY <2>2, <2>3
<1>7. ASSUME NEW t \in Timeouts, FireTimeout(t)
      PROVE  [Abstract!Next]_(Abstract!qvars)
  BY <1>5, <1>7, ConstAssumption
     DEF FireTimeout, RunInv, InCall, queueVars, ConstAssumption
<1>8. CASE DispatchEvent
  <2>1. current' \in Handlers \cup {None}
    BY <1>8 DEF DispatchEvent, PendingEvents, TypeOK, EventTypeOK
  <2>2. QED
    BY <1>5, <1>8, <2>1, ConstAssumption
       DEF DispatchEvent, RunInv, InCall, queueVars, ConstAssumption
<1>9. QED
  BY <1>1, <1>2, <1>3, <1>4, <1>6, <1>7, <1>8
     DEF Next, Loop, User, Environment, vars, loopVars, queueVars,
         StartRefused, StartLoop, CallbacksDone, PopCancelled, WaitForTimeout,
         NoTimeouts, ToCheck, EnterPoll, LeaveLoop, PollEvents, PollTimesOut,
         EventsDone, AddTimeout, RemoveTimeout, AddHandler, AddHandlerFails,
         UpdateHandler, RemoveHandler, Stop, Close, Tick, PollInterrupted,
         BecomesReady

\* Whatever clients and threads do, callbacks are run in the order in which
\* add_callback took them, each once and one at a time.
THEOREM Refinement == Spec => ImplementsQueue
<1>1. Init => Abstract!Init
  <2> SUFFICES ASSUME Init PROVE Abstract!Init
    OBVIOUS
  <2>1. batch \o callbacks_ = <<>>
    BY ConcatEmptySeq, EmptySeq DEF Init
  <2>2. QED
    BY <2>1 DEF Init, Abstract!Init
<1>2. QED
  BY <1>1, QueueStep, Typing, Running, PTL
     DEF Spec, ImplementsQueue, Abstract!Spec
=============================================================================

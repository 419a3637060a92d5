---------------------------- MODULE IOStreamProofs ----------------------------
(***************************************************************************)
(* Proofs about IOStream, for any number of bytes in and out, any          *)
(* delimiters and buffer sizes, and a queue of any length.                 *)
(***************************************************************************)
EXTENDS IOStream, SequenceTheorems, FiniteSetTheorems, WellFoundedInduction, TLAPS

(* What the queue holds.                                                   *)

\* the callbacks that pending_callbacks_ counts
WrappedAt(q) == {i \in DOMAIN q : q[i] # CloseStream}

\* The data in queue q begin after byte d and end with byte c.
Bridges(q, d, c) ==
    LET data == {i \in DOMAIN q : IsData(q[i])}
    IN  /\ \A i \in data : q[i].upto \in d..c
        /\ \A i, j \in data : i < j => q[i].upto <= q[j].upto
        /\ \A i \in data : (\A j \in data : j <= i) => q[i].upto = c
        /\ data = {} => d = c

\* A queue of p wrapped callbacks.
QueueOK(q, p, d, c) ==
    /\ q \in Seq(Items) /\ p = Cardinality(WrappedAt(q))
    /\ d \in 0..c /\ c \in 0..Inbound /\ Bridges(q, d, c)

\* Nothing in q but what may go with the close callback.
OnlyCloses(q) == \A i \in DOMAIN q : q[i].call \in {"close", "IOStream::close"}
-----------------------------------------------------------------------------
(* The invariant.                                                          *)

\* the callback that handle_read and try_inline_read pretend to have
Pretended == IF pc = "recv" THEN 1 ELSE 0

QueueInv == QueueOK(callbacks_, pending_callbacks_ - Pretended, delivered, consumed)

\* Where the thread is says who called, and events that are handled are not polled.
Positions ==
    /\ pc \in {"loop", "user"} => ctx = "loop"
    /\ pc = "inline" => ctx \in {"loop", "user"}
    /\ pc \in {"events", "connected"} => ctx = "handle"
    /\ ctx = "handle" => polled = {}

\* A stream whose events are handled, or that is connecting, is registered.
Registered == open /\ (ctx = "handle" \/ connecting_) => state_ # {}

\* ListensWhenIdle and ClosedIsUnregistered in terms of what the stream has asked
\* for, and what epoll makes of it: it watches what was asked for unless a call
\* has failed.
AsksWhenIdle ==
    pc = "loop" /\ open /\ state_ = {} /\ pending_callbacks_ = 0
        => ~Reading /\ taken = 0 /\ written = 0
ClosedAsksNothing == ~open => state_ = {} /\ polled = {} /\ ~edge
Watching == /\ watched \subseteq state_ /\ polled \subseteq watched
            /\ EpollMayFail \/ watched = state_

StreamInv == /\ TypeOK /\ QueueInv /\ Positions /\ Registered
             /\ AsksWhenIdle /\ ClosedAsksNothing /\ Watching
-----------------------------------------------------------------------------
(* The queue.                                                              *)

\* The wrapped callbacks in a queue can be counted.
LEMMA CountedType ==
    ASSUME NEW q \in Seq(Items)
    PROVE  IsFiniteSet(WrappedAt(q)) /\ Cardinality(WrappedAt(q)) \in Nat
<1>1. Len(q) \in Nat /\ DOMAIN q = 1..Len(q)
  BY LenProperties
<1>2. IsFiniteSet(1..Len(q))
  BY <1>1, FS_Interval
<1>3. WrappedAt(q) \in SUBSET (1..Len(q))
  BY <1>1 DEF WrappedAt
<1>4. QED
  BY <1>2, <1>3, FS_Subset, FS_CardinalityType

\* Another callback is counted, IOStream::close is not.
LEMMA CountAppend ==
    ASSUME NEW q \in Seq(Items), NEW e \in Items
    PROVE  Cardinality(WrappedAt(Append(q, e))) =
              Cardinality(WrappedAt(q)) + (IF e = CloseStream THEN 0 ELSE 1)
<1> DEFINE r == Append(q, e)
<1>1. /\ Len(q) \in Nat /\ DOMAIN q = 1..Len(q) /\ DOMAIN r = 1..Len(q) + 1
      /\ r[Len(q) + 1] = e /\ \A i \in 1..Len(q) : r[i] = q[i]
  BY AppendProperties, LenProperties
<1> HIDE DEF r
<1>2. WrappedAt(r) = IF e = CloseStream THEN WrappedAt(q) ELSE WrappedAt(q) \cup {Len(q) + 1}
  BY <1>1 DEF WrappedAt
<1>3. Len(q) + 1 \notin WrappedAt(q)
  BY <1>1 DEF WrappedAt
<1>4. Cardinality(WrappedAt(q) \cup {Len(q) + 1}) = Cardinality(WrappedAt(q)) + 1
  BY <1>3, CountedType, FS_AddElement
<1>5. QED
  BY <1>2, <1>4, CountedType DEF r

\* The first callback is not counted any more.
LEMMA CountTail ==
    ASSUME NEW q \in Seq(Items), q # <<>>
    PROVE  Cardinality(WrappedAt(q)) =
              Cardinality(WrappedAt(Tail(q))) + (IF Head(q) = CloseStream THEN 0 ELSE 1)
<1> DEFINE r == Tail(q)
           S == WrappedAt(q) \ {1}
           T == WrappedAt(r)
           f == [i \in T |-> i + 1]
<1>1. /\ r \in Seq(Items) /\ Len(q) \in Nat \ {0} /\ DOMAIN q = 1..Len(q)
      /\ DOMAIN r = 1..Len(q) - 1 /\ Head(q) = q[1] /\ \A i \in 1..Len(q) - 1 : r[i] = q[i + 1]
  BY HeadTailProperties, LenProperties, EmptySeq
<1>2. Cardinality(T) = Cardinality(S)
  <2> HIDE DEF r
  <2>1. \A i \in T : i \in Nat /\ i + 1 \in S
    BY <1>1 DEF WrappedAt
  <2>2. \A j \in S : j \in Nat /\ j - 1 \in T /\ f[j - 1] = j
    BY <1>1 DEF WrappedAt
  <2> HIDE DEF T, S
  <2>3. f \in Bijection(T, S)
    <3>1. f \in [T -> S]
      BY <2>1
    <3>2. \A i, j \in T : f[i] = f[j] => i = j
      BY <2>1
    <3>3. \A j \in S : \E i \in T : f[i] = j
      BY <2>2
    <3>4. QED
      BY <3>1, <3>2, <3>3 DEF Bijection, Injection, Surjection, IsInjective
  <2>4. IsFiniteSet(T)
    BY <1>1, CountedType DEF T
  <2>5. QED
    BY <2>3, <2>4, FS_Bijection DEF ExistsBijection
<1>3. 1 \in WrappedAt(q) <=> Head(q) # CloseStream
  BY <1>1 DEF WrappedAt
<1>4. Cardinality(S) = IF Head(q) = CloseStream THEN Cardinality(WrappedAt(q))
                       ELSE Cardinality(WrappedAt(q)) - 1
  BY <1>3, CountedType, FS_RemoveElement
<1>5. Cardinality(WrappedAt(q)) \in Nat
  BY CountedType
<1>6. QED
  BY <1>2, <1>4, <1>5

\* A wrapped callback is queued; with data it takes them out of the buffer.
LEMMA QueueGets ==
    ASSUME NEW q, NEW p, NEW d, NEW c, QueueOK(q, p, d, c),
           NEW name \in Calls \ {"IOStream::close"}, NEW upto \in 0..Inbound, NEW c1,
           IF name \in {"read", "stream"} THEN upto >= c /\ c1 = upto ELSE c1 = c
    PROVE  QueueOK(Append(q, Wrapped(name, upto)), p + 1, d, c1)
<1> DEFINE e == Wrapped(name, upto)
           r == Append(q, e)
<1>0. Inbound \in Nat
  BY StreamAssumption DEF StreamAssumption
<1>1. /\ q \in Seq(Items) /\ p = Cardinality(WrappedAt(q)) /\ d \in 0..c /\ c \in 0..Inbound
      /\ Bridges(q, d, c)
  BY DEF QueueOK
<1>2. /\ e \in Items /\ e # CloseStream /\ e.upto = upto
      /\ IsData(e) <=> name \in {"read", "stream"}
  BY DEF Items, Calls, Wrapped, CloseStream, IsData
<1> HIDE DEF e
<1>3. /\ r \in Seq(Items) /\ Len(q) \in Nat /\ DOMAIN q = 1..Len(q) /\ DOMAIN r = 1..Len(q) + 1
      /\ r[Len(q) + 1] = e /\ \A i \in 1..Len(q) : r[i] = q[i]
  BY <1>1, <1>2, AppendProperties, LenProperties
<1>4. Cardinality(WrappedAt(r)) = p + 1
  BY <1>1, <1>2, CountAppend
<1> HIDE DEF r
<1>5. d \in 0..c1 /\ c1 \in 0..Inbound /\ c <= c1
  BY <1>0, <1>1
<1>6. \A i \in DOMAIN q : IsData(q[i]) => q[i].upto \in d..c
  BY <1>1 DEF Bridges
<1>7. CASE ~IsData(e)
  <2>1. {i \in DOMAIN r : IsData(r[i])} = {i \in DOMAIN q : IsData(q[i])}
    BY <1>3, <1>7
  <2>2. Bridges(r, d, c)
    BY <1>1, <1>3, <2>1 DEF Bridges
  <2>3. QED
    BY <1>2, <1>3, <1>4, <1>5, <1>7, <2>2 DEF QueueOK, r, e
<1>8. CASE IsData(e)
  <2>1. \A i \in DOMAIN r : IsData(r[i]) => r[i].upto \in d..c1
    BY <1>0, <1>1, <1>2, <1>3, <1>5, <1>6, <1>8
  <2>2. ASSUME NEW i \in DOMAIN r, NEW j \in DOMAIN r, IsData(r[i]), IsData(r[j]), i < j
        PROVE  r[i].upto <= r[j].upto
    <3>1. CASE j = Len(q) + 1
      BY <1>0, <1>1, <1>2, <1>3, <1>5, <1>8, <2>1, <2>2, <3>1
    <3>2. CASE j # Len(q) + 1
      <4>1. i \in DOMAIN q /\ j \in DOMAIN q
        BY <1>3, <2>2, <3>2
      <4>2. QED
        BY <1>1, <1>3, <2>2, <4>1 DEF Bridges
    <3>3. QED
      BY <3>1, <3>2
  <2>3. ASSUME NEW i \in DOMAIN r, \A j \in {k \in DOMAIN r : IsData(r[k])} : j <= i
        PROVE  r[i].upto = c1
    <3>1. Len(q) + 1 <= i
      BY <1>3, <1>8, <2>3
    <3>2. i = Len(q) + 1
      BY <1>3, <3>1
    <3>3. QED
      BY <1>2, <1>3, <1>8, <3>2
  <2>4. {i \in DOMAIN r : IsData(r[i])} # {}
    BY <1>3, <1>8
  <2>5. Bridges(r, d, c1)
    BY <2>1, <2>2, <2>3, <2>4 DEF Bridges
  <2>6. QED
    BY <1>3, <1>4, <1>5, <2>5 DEF QueueOK, r, e
<1>9. QED
  BY <1>7, <1>8

\* IOStream::close is queued, which nobody counts.
LEMMA QueueGetsClose ==
    ASSUME NEW q, NEW p, NEW d, NEW c, QueueOK(q, p, d, c)
    PROVE  QueueOK(Append(q, CloseStream), p, d, c)
<1> DEFINE r == Append(q, CloseStream)
<1>1. /\ q \in Seq(Items) /\ p = Cardinality(WrappedAt(q)) /\ d \in 0..c /\ c \in 0..Inbound
      /\ Bridges(q, d, c)
  BY DEF QueueOK
<1>2. CloseStream \in Items /\ ~IsData(CloseStream)
  BY StreamAssumption DEF Items, Calls, CloseStream, IsData, StreamAssumption
<1>3. /\ r \in Seq(Items) /\ Len(q) \in Nat /\ DOMAIN q = 1..Len(q) /\ DOMAIN r = 1..Len(q) + 1
      /\ r[Len(q) + 1] = CloseStream /\ \A i \in 1..Len(q) : r[i] = q[i]
  BY <1>1, <1>2, AppendProperties, LenProperties
<1>4. Cardinality(WrappedAt(r)) = p
  BY <1>1, <1>2, CountAppend, CountedType
<1> HIDE DEF r
<1>5. {i \in DOMAIN r : IsData(r[i])} = {i \in DOMAIN q : IsData(q[i])}
  BY <1>2, <1>3
<1>6. Bridges(r, d, c)
  BY <1>1, <1>3, <1>5 DEF Bridges
<1>7. QED
  BY <1>1, <1>3, <1>4, <1>6 DEF QueueOK, r

\* The loop takes the first callback; with data it delivers them.
LEMMA QueueLoses ==
    ASSUME NEW q, NEW p, NEW d, NEW c, QueueOK(q, p, d, c), q # <<>>
    PROVE  /\ Head(q) \in Items /\ ~IsData(CloseStream)
           /\ QueueOK(Tail(q), IF Head(q) = CloseStream THEN p ELSE p - 1,
                      IF IsData(Head(q)) THEN Head(q).upto ELSE d, c)
<1> DEFINE r  == Tail(q)
           d1 == IF IsData(Head(q)) THEN Head(q).upto ELSE d
<1>0. Inbound \in Nat
  BY StreamAssumption DEF StreamAssumption
<1>1. /\ q \in Seq(Items) /\ p = Cardinality(WrappedAt(q)) /\ d \in 0..c /\ c \in 0..Inbound
      /\ Bridges(q, d, c)
  BY DEF QueueOK
<1>2. /\ r \in Seq(Items) /\ Len(q) \in Nat \ {0} /\ DOMAIN q = 1..Len(q) /\ DOMAIN r = 1..Len(q) - 1
      /\ Head(q) = q[1] /\ Head(q) \in Items /\ \A i \in 1..Len(q) - 1 : r[i] = q[i + 1]
  BY <1>1, HeadTailProperties, LenProperties, EmptySeq
<1>3. Cardinality(WrappedAt(r)) = IF Head(q) = CloseStream THEN p ELSE p - 1
  <2>1. Cardinality(WrappedAt(r)) \in Nat
    BY <1>2, CountedType
  <2>2. p = Cardinality(WrappedAt(r)) + (IF Head(q) = CloseStream THEN 0 ELSE 1)
    BY <1>1, CountTail
  <2>3. QED
    BY <2>1, <2>2
<1> HIDE DEF r
<1>4. 1 \in DOMAIN q /\ \A i \in DOMAIN r : i + 1 \in DOMAIN q /\ r[i] = q[i + 1] /\ 1 < i + 1
  BY <1>2
<1>5. d1 \in d..c
  BY <1>1, <1>2, <1>4 DEF Bridges
<1>6. ASSUME NEW i \in DOMAIN r, IsData(r[i])
      PROVE  r[i].upto \in d1..c
  <2>1. q[i + 1].upto \in d..c
    BY <1>1, <1>4, <1>6 DEF Bridges
  <2>2. IsData(q[1]) => q[1].upto <= q[i + 1].upto
    BY <1>1, <1>4, <1>6 DEF Bridges
  <2>3. QED
    BY <1>1, <1>2, <1>4, <1>5, <2>1, <2>2
<1>7. ASSUME NEW i \in DOMAIN r, NEW j \in DOMAIN r, IsData(r[i]), IsData(r[j]), i < j
      PROVE  r[i].upto <= r[j].upto
  <2>1. i + 1 < j + 1
    BY <1>2, <1>7
  <2>2. QED
    BY <1>1, <1>4, <1>7, <2>1 DEF Bridges
<1>8. ASSUME NEW i \in DOMAIN r, IsData(r[i]), \A j \in {k \in DOMAIN r : IsData(r[k])} : j <= i
      PROVE  r[i].upto = c
  <2>1. ASSUME NEW j \in DOMAIN q, IsData(q[j]) PROVE j <= i + 1
    <3>1. CASE j = 1
      BY <1>2, <3>1
    <3>2. CASE j # 1
      <4>1. j - 1 \in DOMAIN r /\ r[j - 1] = q[j]
        BY <1>2, <3>2
      <4>2. j - 1 <= i
        BY <1>8, <2>1, <4>1
      <4>3. QED
        BY <1>2, <4>2
    <3>3. QED
      BY <3>1, <3>2
  <2>2. QED
    BY <1>1, <1>4, <1>8, <2>1 DEF Bridges
<1>9. ASSUME {i \in DOMAIN r : IsData(r[i])} = {} PROVE d1 = c
  <2>1. ASSUME NEW j \in DOMAIN q, IsData(q[j]) PROVE j = 1
    <3>1. j # 1 => j - 1 \in DOMAIN r /\ r[j - 1] = q[j]
      BY <1>2
    <3>2. QED
      BY <1>9, <2>1, <3>1
  <2>2. QED
    BY <1>1, <1>2, <1>4, <2>1 DEF Bridges
<1>10. Bridges(r, d1, c)
  BY <1>6, <1>7, <1>8, <1>9 DEF Bridges
<1>11. d1 \in 0..c
  BY <1>1, <1>5
<1>12. ~IsData(CloseStream)
  BY DEF IsData, CloseStream
<1>13. QED
  BY <1>1, <1>2, <1>3, <1>10, <1>11, <1>12 DEF QueueOK, r

\* Where nothing is pending, the close callback is alone with IOStream::close.
LEMMA QueueQuiet ==
    ASSUME NEW q, NEW d, NEW c, QueueOK(q, 0, d, c)
    PROVE  OnlyCloses(Append(q, Wrapped("close", 0)))
<1>1. q \in Seq(Items) /\ WrappedAt(q) = {}
  BY CountedType, FS_EmptySet DEF QueueOK
<1>2. \A i \in DOMAIN q : q[i].call = "IOStream::close"
  BY <1>1 DEF WrappedAt, CloseStream
<1>3. Wrapped("close", 0) \in Items /\ Wrapped("close", 0).call = "close"
  BY StreamAssumption DEF Wrapped, Items, Calls, StreamAssumption
<1> DEFINE r == Append(q, Wrapped("close", 0))
<1>4. /\ Len(q) \in Nat /\ DOMAIN q = 1..Len(q) /\ DOMAIN r = 1..Len(q) + 1
      /\ r[Len(q) + 1] = Wrapped("close", 0) /\ \A i \in 1..Len(q) : r[i] = q[i]
  BY <1>1, <1>3, AppendProperties, LenProperties
<1> HIDE DEF r
<1>5. OnlyCloses(r)
  BY <1>2, <1>3, <1>4 DEF OnlyCloses
<1>6. QED
  BY <1>5 DEF r
-----------------------------------------------------------------------------
(* The operations that handlers share.                                     *)

Events3 == {READ, WRITE, ERROR}

\* A queue that agrees with the count and the buffer, part by part.
LEMMA PendingIsNat ==
    ASSUME NEW q, NEW p, NEW d, NEW c, QueueOK(q, p, d, c)
    PROVE  p \in Nat /\ q \in Seq(Items) /\ d \in 0..c /\ c \in 0..Inbound
  BY CountedType DEF QueueOK

\* maybe_run_close_callback queues the close callback alone.
LEMMA MaybeRunKeeps ==
    ASSUME NEW isOpen, NEW q, NEW p, NEW c, QueueOK(q, p, delivered, c), close_callback_ \in BOOLEAN,
           MaybeRunCloseCallback(isOpen, q, p)
    PROVE  /\ QueueOK(callbacks_', pending_callbacks_', delivered, c)
           /\ close_callback_' \in BOOLEAN /\ pending_callbacks_' \in Nat
           /\ pending_callbacks_' >= p
           /\ close_callback_ /\ ~close_callback_' => OnlyCloses(callbacks_')
<1>1. CASE ~isOpen /\ close_callback_ /\ p = 0
  <2>1. /\ callbacks_' = Append(q, Wrapped("close", 0)) /\ pending_callbacks_' = p + 1
        /\ close_callback_' = FALSE
    BY <1>1 DEF MaybeRunCloseCallback
  <2>2. "close" \in Calls \ {"IOStream::close"} /\ 0 \in 0..Inbound
    BY StreamAssumption DEF Calls, StreamAssumption
  <2>3. QueueOK(Append(q, Wrapped("close", 0)), p + 1, delivered, c)
    BY <2>2, QueueGets
  <2>4. OnlyCloses(Append(q, Wrapped("close", 0)))
    BY <1>1, QueueQuiet
  <2>5. pending_callbacks_' \in Nat /\ pending_callbacks_' >= p
    BY <1>1, <2>1
  <2>6. QED
    BY <2>1, <2>3, <2>4, <2>5
<1>2. CASE ~(~isOpen /\ close_callback_ /\ p = 0)
  BY <1>2, PendingIsNat DEF MaybeRunCloseCallback
<1>3. QED
  BY <1>1, <1>2

\* add_io_state registers an open stream, and leaves a closed one alone.
LEMMA AddKeeps ==
    ASSUME TypeOK, NEW bits, bits \subseteq Events3, bits # {}, AddIOState(bits)
    PROVE  /\ open' = open /\ polled' = polled /\ state_' \subseteq Events3 /\ edge' \in BOOLEAN
           /\ state_ \subseteq state_'
           /\ open => state_' # {}
           /\ ~open => UNCHANGED <<state_, edge>>
<1>1. state_ \subseteq Events3 /\ edge \in BOOLEAN
  BY DEF TypeOK, Events3
<1>2. CASE open /\ state_ \cap bits = {}
  BY <1>1, <1>2 DEF AddIOState, Events3
<1>3. CASE ~(open /\ state_ \cap bits = {})
  BY <1>1, <1>3 DEF AddIOState
<1>4. QED
  BY <1>2, <1>3

\* maybe_add_error_listener leaves an open stream registered or with a callback
\* that waits.
LEMMA MaybeAddKeeps ==
    ASSUME TypeOK, NEW q, NEW p, NEW c, QueueOK(q, p, delivered, c), MaybeAddErrorListener(q, p)
    PROVE  /\ QueueOK(callbacks_', pending_callbacks_', delivered, c)
           /\ close_callback_' \in BOOLEAN /\ pending_callbacks_' \in Nat
           /\ close_callback_ /\ ~close_callback_' => OnlyCloses(callbacks_')
           /\ open' = open /\ polled' = polled /\ state_' \subseteq Events3 /\ edge' \in BOOLEAN
           /\ state_ \subseteq state_'
           /\ open => state_' # {} \/ pending_callbacks_' # 0
           /\ ~open => UNCHANGED <<state_, edge>>
<1>1. close_callback_ \in BOOLEAN /\ state_ \subseteq Events3 /\ edge \in BOOLEAN /\ p \in Nat
  BY PendingIsNat DEF TypeOK, Events3
<1>2. CASE state_ = {} /\ p = 0 /\ open
  <2>1. /\ AddIOState({READ}) /\ callbacks_' = q /\ pending_callbacks_' = p
        /\ close_callback_' = close_callback_
    BY <1>2 DEF MaybeAddErrorListener
  <2>2. {READ} \subseteq Events3 /\ {READ} # {}
    BY DEF Events3
  <2>3. /\ open' = open /\ polled' = polled /\ state_' \subseteq Events3 /\ edge' \in BOOLEAN
        /\ state_ \subseteq state_' /\ state_' # {}
    BY <1>2, <2>1, <2>2, AddKeeps
  <2>4. QED
    BY <1>1, <1>2, <2>1, <2>3
<1>3. CASE state_ = {} /\ p = 0 /\ ~open
  <2>1. MaybeRunCloseCallback(open, q, p) /\ UNCHANGED pollVars
    BY <1>3 DEF MaybeAddErrorListener
  <2>2. QED
    BY <1>1, <1>3, <2>1, MaybeRunKeeps DEF pollVars
<1>4. CASE ~(state_ = {} /\ p = 0)
  BY <1>1, <1>4 DEF MaybeAddErrorListener, pollVars
<1>5. QED
  BY <1>2, <1>3, <1>4

\* close() unregisters the stream, and its callbacks wait for the data before them.
LEMMA CloseKeeps ==
    ASSUME TypeOK, NEW held, NEW q, NEW p, NEW t \in 0..Inbound, t >= consumed,
           QueueOK(q, p, delivered, consumed), CloseHolding(held, q, p, t)
    PROVE  /\ open' = FALSE /\ state_' = {} /\ edge' = FALSE /\ polled' = {}
           /\ request' \in {request, "none", "lost"} /\ consumed' \in {consumed, t}
           /\ QueueOK(callbacks_', pending_callbacks_', delivered, consumed')
           /\ close_callback_' \in BOOLEAN /\ pending_callbacks_' \in Nat
           /\ close_callback_ /\ ~close_callback_' => OnlyCloses(callbacks_')
<1> DEFINE final == open /\ request = "close"
           q1    == IF final THEN Append(q, Wrapped("read", t)) ELSE q
           p1    == IF final THEN p + 1 ELSE p
<1>1. /\ open' = FALSE /\ state_' = {} /\ edge' = FALSE /\ polled' = {}
      /\ request' \in {request, "none", "lost"} /\ consumed' = IF final THEN t ELSE consumed
      /\ MaybeRunCloseCallback(held, q1, p1)
  BY DEF CloseHolding
<1>2. QueueOK(q1, p1, delivered, consumed')
  <2>1. "read" \in Calls \ {"IOStream::close"}
    BY DEF Calls
  <2>2. QueueOK(Append(q, Wrapped("read", t)), p + 1, delivered, t)
    BY <2>1, QueueGets
  <2>3. QED
    BY <1>1, <2>2
<1> HIDE DEF q1, p1
<1>3. close_callback_ \in BOOLEAN
  BY DEF TypeOK
<1>4. QED
  BY <1>1, <1>2, <1>3, MaybeRunKeeps

\* What read_from_buffer takes is in the buffer.
LEMMA ReadTakes ==
    ASSUME TypeOK
    PROVE  /\ Streamed \in Nat /\ consumed + Streamed \in consumed..taken /\ Left \in 0..Inbound
           /\ Completes => FinalByte \in consumed + Streamed..taken
<1>1. /\ Inbound \in Nat /\ taken \in 0..Inbound /\ consumed \in 0..taken /\ read_bytes_ \in 0..Inbound
      /\ Delims \subseteq 1..Inbound /\ taken \in Nat /\ consumed \in Nat /\ read_bytes_ \in Nat
  BY StreamAssumption DEF TypeOK, StreamAssumption
<1>2. Streamed \in 0..Buffered /\ Buffered \in Nat /\ consumed + Buffered = taken
  BY <1>1 DEF Streamed, Buffered, Smaller
<1>3. Streamed \in Nat /\ consumed + Streamed \in consumed..taken
  BY <1>1, <1>2
<1>4. read_bytes_ # 0 => Streamed <= read_bytes_
  BY <1>1 DEF Streamed, Buffered, Smaller
<1>5. Left \in 0..Inbound
  BY <1>1, <1>3, <1>4 DEF Left
<1>6. BytesReady => consumed + Streamed + Left \in consumed + Streamed..taken
  BY <1>1, <1>2, <1>3, <1>5 DEF BytesReady
<1>7. ASSUME Marks # {}
      PROVE  (CHOOSE i \in Marks : \A j \in Marks : i <= j) \in Marks
  <2>1. Marks \subseteq Delims /\ \A i \in Delims : i \in Nat
    BY <1>1 DEF Marks
  <2>2. PICK i \in Marks : \A j \in Marks : <<j, i>> \notin OpToRel(<, Nat)
    BY <1>7, <2>1, NatLessThanWellFounded, WFMin
  <2>3. \A j, k \in Nat : j < k => <<j, k>> \in OpToRel(<, Nat)
    BY DEF OpToRel
  <2>4. ASSUME NEW j \in Marks PROVE i <= j
    <3>1. i \in Nat /\ j \in Nat
      BY <2>1
    <3>2. ~(j < i)
      BY <2>2, <2>3, <3>1
    <3>3. QED
      BY <3>1, <3>2
  <2>5. QED
    BY <2>4
<1>8. Marks \subseteq consumed + Streamed..taken
  <2>1. \A i \in Delims : i \in Nat
    BY <1>1
  <2>2. consumed + Streamed \in Nat
    BY <1>1, <1>3
  <2>3. ASSUME NEW i \in Marks PROVE i \in consumed + Streamed..taken
    <3>1. i \in Nat /\ consumed + Streamed < i /\ i <= taken
      BY <2>1 DEF Marks
    <3>2. QED
      BY <1>1, <2>2, <3>1
  <2>4. QED
    BY <2>3
<1>9. Completes => FinalByte \in consumed + Streamed..taken
  BY <1>6, <1>7, <1>8 DEF Completes, MarkReady, FinalByte
<1>10. QED
  BY <1>3, <1>5, <1>9

\* The streaming callback is queued with what it takes.
LEMMA StreamedKeeps ==
    ASSUME TypeOK, QueueInv, pc # "recv"
    PROVE  QueueOK(StreamQueue, StreamPending, delivered, consumed + Streamed)
<1>1. QueueOK(callbacks_, pending_callbacks_, delivered, consumed)
  BY DEF QueueInv, Pretended, TypeOK
<1>2. /\ Streamed \in Nat /\ consumed + Streamed \in 0..Inbound /\ consumed + Streamed >= consumed
      /\ consumed \in Nat
  BY ReadTakes, StreamAssumption DEF TypeOK, StreamAssumption
<1>3. CASE Streamed = 0
  BY <1>1, <1>2, <1>3 DEF StreamQueue, StreamPending
<1>4. CASE Streamed # 0
  <2>1. "stream" \in Calls \ {"IOStream::close"}
    BY DEF Calls
  <2>2. QueueOK(Append(callbacks_, Wrapped("stream", consumed + Streamed)), pending_callbacks_ + 1,
                delivered, consumed + Streamed)
    BY <1>1, <1>2, <2>1, QueueGets
  <2>3. QED
    BY <1>4, <2>2 DEF StreamQueue, StreamPending
<1>5. QED
  BY <1>3, <1>4

\* A read that completes is queued with what it takes.
LEMMA CompleteKeeps ==
    ASSUME TypeOK, QueueInv, pc # "recv", CompleteRead
    PROVE  /\ QueueOK(callbacks_', pending_callbacks_', delivered, consumed')
           /\ consumed' \in consumed..taken /\ pending_callbacks_' \in Nat \ {0}
           /\ request' = "none" /\ read_bytes_' = 0 /\ streaming_callback_' = FALSE
           /\ UNCHANGED <<close_callback_, taken>>
<1>1. QueueOK(StreamQueue, StreamPending, delivered, consumed + Streamed)
  BY StreamedKeeps
<1>2. /\ callbacks_' = Append(StreamQueue, Wrapped("read", FinalByte))
      /\ pending_callbacks_' = StreamPending + 1 /\ consumed' = FinalByte /\ Completes
  BY DEF CompleteRead
<1>3. /\ FinalByte \in 0..Inbound /\ FinalByte >= consumed + Streamed /\ FinalByte \in consumed..taken
      /\ StreamPending \in Nat
  <2>1. /\ FinalByte \in consumed + Streamed..taken /\ consumed + Streamed \in consumed..taken
        /\ taken \in 0..Inbound /\ consumed \in Nat /\ Inbound \in Nat
    BY <1>2, ReadTakes, StreamAssumption DEF TypeOK, StreamAssumption
  <2>2. StreamPending \in Nat
    BY <1>1, PendingIsNat
  <2>3. QED
    BY <2>1, <2>2
<1>4. "read" \in Calls \ {"IOStream::close"}
  BY DEF Calls
<1>5. QueueOK(Append(StreamQueue, Wrapped("read", FinalByte)), StreamPending + 1, delivered, FinalByte)
  BY <1>1, <1>3, <1>4, QueueGets
<1>6. QED
  BY <1>2, <1>3, <1>5 DEF CompleteRead
-----------------------------------------------------------------------------
(* The queue, step by step.                                                *)

\* The close callback is queued when no other callback of the stream waits.
CloseWaits == close_callback_ /\ ~close_callback_' => OnlyCloses(callbacks_')

\* Every step keeps the queue, the count and the buffer in agreement.
LEMMA QueueKeeps == StreamInv /\ [Next]_vars => QueueInv' /\ CloseWaits
<1> SUFFICES ASSUME StreamInv, [Next]_vars PROVE QueueInv' /\ CloseWaits
  OBVIOUS
<1>1. TypeOK /\ QueueInv /\ Positions
  BY DEF StreamInv
<1>2. /\ consumed \in Nat /\ taken \in 0..Inbound /\ consumed <= taken /\ sent \in 0..Inbound
      /\ taken <= sent /\ Inbound \in Nat /\ Chunk \in Nat \ {0} /\ pending_callbacks_ \in Nat
      /\ callbacks_ \in Seq(Items) /\ close_callback_ \in BOOLEAN
  BY <1>1, StreamAssumption DEF TypeOK, StreamAssumption
<1>3. QueueOK(callbacks_, pending_callbacks_ - Pretended, delivered, consumed)
  BY <1>1 DEF QueueInv
<1>4. pc # "recv" => QueueOK(callbacks_, pending_callbacks_, delivered, consumed)
  BY <1>2, <1>3 DEF Pretended
<1>5. pc = "recv" => QueueOK(callbacks_, pending_callbacks_ - 1, delivered, consumed)
  BY <1>3 DEF Pretended
<1>6. ASSUME UNCHANGED <<callbacks_, pending_callbacks_, consumed, delivered>>,
             close_callback_' \in {close_callback_, TRUE}, pc = "recv" <=> pc' = "recv"
      PROVE  QueueInv' /\ CloseWaits
  <2>1. Pretended' = Pretended
    BY <1>6 DEF Pretended
  <2>2. QueueInv'
    BY <1>1, <1>6, <2>1 DEF QueueInv
  <2>3. CloseWaits
    BY <1>6 DEF CloseWaits
  <2>4. QED
    BY <2>2, <2>3
<1>7. ASSUME QueueOK(callbacks_', pending_callbacks_', delivered', consumed'), pc' # "recv",
             pending_callbacks_' \in Nat, CloseWaits
      PROVE  QueueInv' /\ CloseWaits
  BY <1>7 DEF QueueInv, Pretended
<1>8. ASSUME NEW held, NEW q, NEW p, NEW t \in 0..Inbound, t >= consumed,
             QueueOK(q, p, delivered, consumed), CloseHolding(held, q, p, t),
             pc' # "recv", delivered' = delivered
      PROVE  QueueInv' /\ CloseWaits
  <2>1. /\ QueueOK(callbacks_', pending_callbacks_', delivered, consumed')
        /\ pending_callbacks_' \in Nat /\ CloseWaits
    BY <1>1, <1>8, CloseKeeps DEF CloseWaits
  <2>2. QED
    BY <1>7, <1>8, <2>1
<1>9. ASSUME NEW q, NEW p, QueueOK(q, p, delivered, consumed), CloseNow(q, p), pc' # "recv",
             delivered' = delivered
      PROVE  QueueInv' /\ CloseWaits
  BY <1>2, <1>8, <1>9 DEF CloseNow
<1>10. ASSUME NEW q, NEW p, QueueOK(q, p, delivered, consumed'), MaybeAddErrorListener(q, p),
              pc' # "recv", delivered' = delivered
       PROVE  QueueInv' /\ CloseWaits
  <2>1. /\ QueueOK(callbacks_', pending_callbacks_', delivered, consumed')
        /\ pending_callbacks_' \in Nat /\ CloseWaits
    BY <1>1, <1>10, MaybeAddKeeps DEF CloseWaits
  <2>2. QED
    BY <1>7, <1>10, <2>1
<1>11. ASSUME CompleteRead, pc # "recv", pc' # "recv", delivered' = delivered
       PROVE  QueueInv' /\ CloseWaits
  <2>1. /\ QueueOK(callbacks_', pending_callbacks_', delivered, consumed')
        /\ pending_callbacks_' \in Nat /\ close_callback_' = close_callback_
    BY <1>1, <1>11, CompleteKeeps
  <2>2. QED
    BY <1>7, <1>11, <2>1 DEF CloseWaits
<1>12. ASSUME NEW name \in {"write", "connect"}, callbacks_' = Append(callbacks_, Wrapped(name, 0)),
              pending_callbacks_' = pending_callbacks_ + 1, pc # "recv", pc' # "recv",
              UNCHANGED <<consumed, delivered, close_callback_>>
       PROVE  QueueInv' /\ CloseWaits
  <2>1. name \in Calls \ {"IOStream::close"} /\ 0 \in 0..Inbound /\ name \notin {"read", "stream"}
    BY <1>2, <1>12 DEF Calls
  <2>2. QueueOK(callbacks_', pending_callbacks_', delivered, consumed)
    BY <1>4, <1>12, <2>1, QueueGets
  <2>3. QED
    BY <1>2, <1>7, <1>12, <2>2 DEF CloseWaits
<1>13. ASSUME pc # "recv" PROVE QueueOK(StreamQueue, StreamPending, delivered, consumed + Streamed)
  BY <1>1, <1>13, StreamedKeeps
<1>14. ASSUME NEW kind, NEW n, Read(kind, n) PROVE QueueInv' /\ CloseWaits
  BY <1>6, <1>14 DEF Read, UserCode, closeVars, histVars
<1>15. ASSUME NEW streaming \in BOOLEAN, ReadUntilClose(streaming) PROVE QueueInv' /\ CloseWaits
  BY <1>6, <1>15 DEF ReadUntilClose, closeVars, histVars, threadVars
<1>16. ASSUME NEW streaming \in BOOLEAN, ReadUntilCloseWhenClosed(streaming)
       PROVE QueueInv' /\ CloseWaits
  <2>1. /\ pc # "recv" /\ pc' = pc /\ delivered' = delivered /\ close_callback_' = close_callback_
        /\ consumed' = taken
    BY <1>16 DEF ReadUntilCloseWhenClosed, UserCode, threadVars, histVars
  <2>2. {"stream", "read"} \subseteq Calls \ {"IOStream::close"} /\ taken >= consumed /\ taken >= taken
    BY <1>2 DEF Calls
  <2>3. CASE streaming
    <3> DEFINE q1 == Append(callbacks_, Wrapped("stream", taken))
    <3>1. QueueOK(q1, pending_callbacks_ + 1, delivered, taken)
      BY <1>2, <1>4, <2>1, <2>2, QueueGets
    <3>2. QueueOK(Append(q1, Wrapped("read", taken)), pending_callbacks_ + 1 + 1, delivered, taken)
      BY <1>2, <2>2, <3>1, QueueGets
    <3>3. callbacks_' = Append(q1, Wrapped("read", taken))
      <4>1. Wrapped("stream", taken) \in Items /\ Wrapped("read", taken) \in Items
        BY <1>2 DEF Wrapped, Items, Calls
      <4>2. callbacks_' = callbacks_ \o <<Wrapped("stream", taken)>> \o <<Wrapped("read", taken)>>
        BY <1>16, <2>3 DEF ReadUntilCloseWhenClosed
      <4>3. q1 = callbacks_ \o <<Wrapped("stream", taken)>> /\ q1 \in Seq(Items)
        BY <1>2, <4>1, AppendIsConcat, AppendProperties
      <4>4. QED
        BY <4>1, <4>2, <4>3, AppendIsConcat
    <3>4. pending_callbacks_' = pending_callbacks_ + 1 + 1
      BY <1>2, <1>16, <2>3 DEF ReadUntilCloseWhenClosed
    <3>5. QED
      BY <1>2, <1>7, <2>1, <3>2, <3>3, <3>4 DEF CloseWaits
  <2>4. CASE ~streaming
    <3>1. QueueOK(Append(callbacks_, Wrapped("read", taken)), pending_callbacks_ + 1, delivered, taken)
      BY <1>2, <1>4, <2>1, <2>2, QueueGets
    <3>2. callbacks_' = Append(callbacks_, Wrapped("read", taken))
      <4>1. Wrapped("read", taken) \in Items
        BY <1>2 DEF Wrapped, Items, Calls
      <4>2. callbacks_' = callbacks_ \o <<>> \o <<Wrapped("read", taken)>>
        BY <1>16, <2>4 DEF ReadUntilCloseWhenClosed
      <4>3. callbacks_ \o <<>> = callbacks_
        BY <1>2, ConcatEmptySeq
      <4>4. QED
        BY <1>2, <4>1, <4>2, <4>3, AppendIsConcat
    <3>3. pending_callbacks_' = pending_callbacks_ + 1
      BY <1>2, <1>16, <2>4 DEF ReadUntilCloseWhenClosed
    <3>4. QED
      BY <1>2, <1>7, <2>1, <3>1, <3>2, <3>3 DEF CloseWaits
  <2>5. QED
    BY <2>3, <2>4
<1>17. ASSUME NEW n, NEW callback, Write(n, callback) PROVE QueueInv' /\ CloseWaits
  BY <1>6, <1>17 DEF Write, UserCode, closeVars, histVars, readVars
<1>18. CASE SetCloseCallback
  BY <1>6, <1>18 DEF SetCloseCallback, threadVars, histVars, readVars
<1>19. CASE Close
  BY <1>4, <1>9, <1>19 DEF Close, UserCode, threadVars, histVars
<1>20. ASSUME NEW callback, Connect(callback) PROVE QueueInv' /\ CloseWaits
  <2>1. pc # "recv" /\ pc' = pc /\ delivered' = delivered
    BY <1>20 DEF Connect, UserCode, threadVars, histVars
  <2>2. CASE CloseNow(callbacks_, pending_callbacks_)
    BY <1>4, <1>9, <2>1, <2>2
  <2>3. CASE UNCHANGED <<closeVars, readVars>>
    BY <1>6, <2>1, <2>3 DEF closeVars, readVars
  <2>4. QED
    BY <1>20, <2>2, <2>3 DEF Connect
<1>21. CASE User
  BY <1>14, <1>15, <1>16, <1>17, <1>18, <1>19, <1>20, <1>21 DEF User
<1>22. CASE InlineCompletes
  <2>1. pc = "inline" /\ CompleteRead /\ pc' = ctx /\ ctx # "recv" /\ delivered' = delivered
    BY <1>1, <1>22 DEF InlineCompletes, CallReturns, histVars, TypeOK
  <2>2. QED
    BY <1>11, <2>1
<1>23. CASE InlineReads
  <2>1. /\ pc = "inline" /\ pc' = "recv" /\ delivered' = delivered /\ close_callback_' = close_callback_
        /\ callbacks_' = StreamQueue /\ pending_callbacks_' = StreamPending + 1
        /\ consumed' = consumed + Streamed
    BY <1>23 DEF InlineReads, histVars, KeepReading
  <2>2. QueueOK(StreamQueue, StreamPending, delivered, consumed + Streamed) /\ StreamPending \in Nat
    BY <1>13, <2>1, PendingIsNat
  <2>3. pending_callbacks_' - Pretended' = StreamPending
    BY <2>1, <2>2 DEF Pretended
  <2>4. QED
    BY <2>1, <2>2, <2>3 DEF QueueInv, CloseWaits
<1>24. CASE InlineThrows
  <2>1. /\ pc = "inline" /\ pc' = ctx /\ ctx # "recv" /\ delivered' = delivered
        /\ close_callback_' = close_callback_
        /\ callbacks_' = StreamQueue /\ pending_callbacks_' = StreamPending
        /\ consumed' = consumed + Streamed
    BY <1>1, <1>24 DEF InlineThrows, KeepReading, Throw, CallReturns, TypeOK
  <2>2. QueueOK(StreamQueue, StreamPending, delivered, consumed + Streamed) /\ StreamPending \in Nat
    BY <1>13, <2>1, PendingIsNat
  <2>3. QED
    BY <1>7, <2>1, <2>2 DEF CloseWaits
<1>25. CASE RecvData
  BY <1>6, <1>25 DEF RecvData, closeVars, threadVars, histVars
<1>26. CASE RecvNothing
  <2>1. /\ pc = "recv" /\ pc' = "parse" /\ pending_callbacks_' = pending_callbacks_ - 1
        /\ UNCHANGED <<callbacks_, close_callback_, consumed, delivered>>
    BY <1>26 DEF RecvNothing, readVars, histVars
  <2>2. QED
    BY <1>5, <1>7, <2>1, PendingIsNat DEF CloseWaits
<1>27. CASE RecvEOF
  <2>1. /\ pc = "recv" /\ pc' = "parse" /\ delivered' = delivered
        /\ CloseHolding(TRUE, callbacks_, pending_callbacks_ - 1, taken)
    BY <1>27 DEF RecvEOF, histVars
  <2>2. QED
    BY <1>2, <1>5, <1>8, <2>1
<1>28. ASSUME NEW t \in consumed..Inbound, pc = "recv", ReadFails(t) PROVE QueueInv' /\ CloseWaits
  <2>1. CloseHolding(ctx # "handle", callbacks_, pending_callbacks_ - 1, t) /\ delivered' = delivered
    BY <1>28 DEF ReadFails
  <2>2. pc' # "recv"
    BY <1>1, <1>28 DEF ReadFails, HandlerReturns, Throw, CallReturns, TypeOK
  <2>3. t \in 0..Inbound /\ t >= consumed
    BY <1>2, <1>28
  <2>4. QED
    BY <1>5, <1>8, <1>28, <2>1, <2>2, <2>3
<1>29. CASE RecvError
  BY <1>2, <1>28, <1>29 DEF RecvError
<1>30. CASE RecvTooMuch
  <2>1. taken + Received \in consumed..Inbound
    BY <1>2, <1>30 DEF RecvTooMuch, Received, Smaller
  <2>2. QED
    BY <1>28, <1>30, <2>1 DEF RecvTooMuch
<1>31. CASE ParseCompletes
  <2>1. pc = "parse" /\ CompleteRead /\ delivered' = delivered /\ pc' \in {"events", ctx} /\ ctx # "recv"
    BY <1>1, <1>31 DEF ParseCompletes, CallReturns, histVars, TypeOK
  <2>2. QED
    BY <1>11, <2>1
<1>32. CASE ParseKeepsReading
  <2>1. /\ pc = "parse" /\ consumed' = consumed + Streamed /\ delivered' = delivered
        /\ pc' \in {"events", ctx} /\ ctx # "recv"
    BY <1>1, <1>32 DEF ParseKeepsReading, KeepReading, CallReturns, histVars, TypeOK
  <2>2. QueueOK(StreamQueue, StreamPending, delivered, consumed')
    BY <1>13, <2>1
  <2>3. CASE MaybeRunCloseCallback(open, StreamQueue, StreamPending)
    <3>1. /\ QueueOK(callbacks_', pending_callbacks_', delivered, consumed')
          /\ pending_callbacks_' \in Nat /\ CloseWaits
      BY <1>2, <2>2, <2>3, MaybeRunKeeps DEF CloseWaits
    <3>2. QED
      BY <1>7, <2>1, <3>1
  <2>4. CASE MaybeAddErrorListener(StreamQueue, StreamPending)
    BY <1>10, <2>1, <2>2, <2>4
  <2>5. QED
    BY <1>32, <2>3, <2>4 DEF ParseKeepsReading
<1>33. CASE SendData \/ SendBlocks \/ SendCrash
  BY <1>6, <1>33 DEF SendData, SendBlocks, SendCrash, closeVars, threadVars, histVars, readVars
<1>34. CASE SendError
  BY <1>4, <1>9, <1>34 DEF SendError, histVars
<1>35. CASE SendDone
  <2>1. pc = "send" /\ pc' = "sent" /\ UNCHANGED <<consumed, delivered, close_callback_>>
    BY <1>35 DEF SendDone, readVars, histVars
  <2>2. CASE write_callback_
    BY <1>12, <1>35, <2>1, <2>2 DEF SendDone
  <2>3. CASE ~write_callback_
    BY <1>6, <1>35, <2>1, <2>3 DEF SendDone
  <2>4. QED
    BY <2>2, <2>3
<1>36. CASE WriteReturns
  <2>1. pc = "sent" /\ pc' = ctx /\ ctx # "recv" /\ UNCHANGED <<consumed, delivered>>
    BY <1>1, <1>36 DEF WriteReturns, CallReturns, readVars, histVars, TypeOK
  <2>2. CASE UNCHANGED closeVars
    BY <1>6, <2>1, <2>2 DEF closeVars
  <2>3. CASE MaybeAddErrorListener(callbacks_, pending_callbacks_)
    BY <1>4, <1>10, <2>1, <2>3
  <2>4. QED
    BY <1>36, <2>2, <2>3 DEF WriteReturns
<1>37. CASE HandleEvents
  <2>1. pc = "loop" /\ UNCHANGED <<callbacks_, close_callback_, consumed, delivered>>
    BY <1>37 DEF HandleEvents, readVars, histVars
  <2>2. CASE READ \in polled
    <3>1. pc' = "recv" /\ pending_callbacks_' = pending_callbacks_ + 1
      BY <1>37, <2>2 DEF HandleEvents
    <3>2. pending_callbacks_' - Pretended' = pending_callbacks_
      BY <1>2, <3>1 DEF Pretended
    <3>3. QED
      BY <1>4, <2>1, <3>2 DEF QueueInv, CloseWaits
  <2>3. CASE READ \notin polled
    BY <1>6, <1>37, <2>1, <2>3 DEF HandleEvents
  <2>4. QED
    BY <2>2, <2>3
<1>38. CASE HandleWrite \/ ConnectSucceeds \/ NothingToWrite
  BY <1>6, <1>38 DEF HandleWrite, ConnectSucceeds, NothingToWrite, closeVars, histVars, readVars
<1>39. CASE ConnectError
  BY <1>4, <1>9, <1>39 DEF ConnectError, histVars
<1>40. CASE ConnectDone
  <2>1. pc = "connected" /\ pc' = "send" /\ UNCHANGED <<consumed, delivered, close_callback_>>
    BY <1>40 DEF ConnectDone, readVars, histVars
  <2>2. CASE connect_callback_
    BY <1>12, <1>40, <2>1, <2>2 DEF ConnectDone
  <2>3. CASE ~connect_callback_
    BY <1>6, <1>40, <2>1, <2>3 DEF ConnectDone
  <2>4. QED
    BY <2>2, <2>3
<1>41. CASE HandledClosed \/ UpdateState
  BY <1>6, <1>41 DEF HandledClosed, UpdateState, HandlerReturns, closeVars, histVars, readVars
<1>42. CASE HandleError
  <2>1. /\ pc = "sent" /\ pc' = "loop" /\ callbacks_' = Append(callbacks_, CloseStream)
        /\ UNCHANGED <<pending_callbacks_, close_callback_, consumed, delivered>>
    BY <1>42 DEF HandleError, HandlerReturns, readVars, histVars
  <2>2. QED
    BY <1>2, <1>4, <1>7, <2>1, QueueGetsClose DEF CloseWaits
<1>43. CASE Poll
  BY <1>6, <1>43 DEF Poll, closeVars, threadVars, histVars, readVars
<1>44. CASE RunCallback
  <2>1. /\ pc = "loop" /\ pc' = "user" /\ callbacks_ # <<>> /\ Head(callbacks_) # CloseStream
        /\ callbacks_' = Tail(callbacks_) /\ pending_callbacks_' = pending_callbacks_ - 1
        /\ delivered' = (IF IsData(Head(callbacks_)) THEN Head(callbacks_).upto ELSE delivered)
        /\ UNCHANGED <<close_callback_, consumed>>
    BY <1>44 DEF RunCallback, readVars, IsData
  <2>2. QueueOK(callbacks_', pending_callbacks_', delivered', consumed)
    BY <1>4, <2>1, QueueLoses
  <2>3. QED
    BY <1>7, <2>1, <2>2, PendingIsNat DEF CloseWaits
<1>45. CASE CallbackReturns
  BY <1>4, <1>10, <1>45 DEF CallbackReturns, readVars, histVars
<1>46. CASE CallbackThrows \/ UpdateStateThrows
  BY <1>4, <1>9, <1>46 DEF CallbackThrows, UpdateStateThrows, HandlerReturns, histVars
<1>47. CASE RunCloseStream
  <2>1. QueueOK(Tail(callbacks_), pending_callbacks_, delivered, consumed)
    BY <1>4, <1>47, QueueLoses DEF RunCloseStream
  <2>2. QED
    BY <1>9, <1>47, <2>1 DEF RunCloseStream, threadVars, histVars
<1>48. CASE Peer \/ UNCHANGED vars
  <2>1. UNCHANGED <<callbacks_, pending_callbacks_, consumed, delivered, close_callback_, pc>>
    BY <1>48 DEF Peer, PeerSends, PeerCloses, PeerResets, PeerReads, ConnectEnds, Wake, vars, readVars,
           closeVars, threadVars, histVars
  <2>2. QED
    BY <1>6, <2>1
<1>49. QED
  BY <1>21, <1>22, <1>23, <1>24, <1>25, <1>26, <1>27, <1>29, <1>30, <1>31, <1>32, <1>33, <1>34, <1>35,
     <1>36, <1>37, <1>38, <1>39, <1>40, <1>41, <1>42, <1>43, <1>44, <1>45, <1>46, <1>47, <1>48
     DEF Next, Thread, RunQueue
-----------------------------------------------------------------------------
(* Types.                                                                  *)

\* the parts of TypeOK: what the stream is registered for, its reads, its
\* callbacks, its output and the peer, and the thread
PollTypes == /\ open \in BOOLEAN /\ edge \in BOOLEAN
             /\ state_ \subseteq Events3 /\ polled \subseteq state_
ReadTypes == /\ request \in {"none", "bytes", "until", "regex", "close", "lost"}
             /\ read_bytes_ \in 0..Inbound /\ streaming_callback_ \in BOOLEAN
             /\ consumed \in 0..taken /\ taken \in 0..sent /\ sent \in 0..Inbound
CallTypes == /\ write_callback_ \in BOOLEAN /\ close_callback_ \in BOOLEAN
             /\ connect_callback_ \in BOOLEAN /\ connecting_ \in BOOLEAN
             /\ pending_callbacks_ \in Nat
             /\ callbacks_ \in Seq(Items) /\ delivered \in 0..consumed
LinkTypes == /\ accepted \in 0..written /\ written \in 0..Outbound /\ space \in 0..SendBuffer
             /\ fin \in BOOLEAN /\ reset \in BOOLEAN /\ raised \in BOOLEAN
             /\ link \in {"new", "connecting", "up", "failed"}
PlaceTypes == /\ pc \in {"loop", "user", "inline", "recv", "parse", "events", "connected",
                        "send", "sent", "crashed"}
              /\ ctx \in {"loop", "user", "handle"} /\ ev \subseteq Events3

\* The type invariant is its parts.
LEMMA TypeParts ==
    TypeOK <=> /\ PollTypes /\ ReadTypes /\ CallTypes /\ LinkTypes /\ PlaceTypes
               /\ watched \subseteq state_ /\ polled \subseteq watched
  BY DEF TypeOK, PollTypes, ReadTypes, CallTypes, LinkTypes, PlaceTypes, Events3

\* And so it is after a step.
LEMMA TypePartsNext ==
    PollTypes' /\ ReadTypes' /\ CallTypes' /\ LinkTypes' /\ PlaceTypes' /\ Watching' => TypeOK'
  BY DEF TypeOK, PollTypes, ReadTypes, CallTypes, LinkTypes, PlaceTypes, Events3, Watching

\* What a step that closes the stream leaves.
LEMMA CloseFacts ==
    ASSUME StreamInv, NEW held, NEW q, NEW p, NEW t \in consumed..Inbound,
           \/ q = callbacks_ /\ p = pending_callbacks_ - Pretended
           \/ q = callbacks_ /\ p = pending_callbacks_ /\ pc # "recv"
           \/ /\ q = Tail(callbacks_) /\ p = pending_callbacks_ /\ pc # "recv"
              /\ callbacks_ # <<>> /\ Head(callbacks_) = CloseStream,
           CloseHolding(held, q, p, t)
    PROVE  /\ open' = FALSE /\ state_' = {} /\ edge' = FALSE /\ polled' = {}
           /\ request' \in {request, "none", "lost"} /\ consumed' \in consumed..t
           /\ close_callback_' \in BOOLEAN /\ pending_callbacks_' \in Nat
<1>1. TypeOK /\ QueueOK(callbacks_, pending_callbacks_ - Pretended, delivered, consumed)
  BY DEF StreamInv, QueueInv
<1>2. consumed \in Nat /\ pending_callbacks_ \in Nat /\ Inbound \in Nat
  BY <1>1, StreamAssumption DEF TypeOK, StreamAssumption
<1>3. pc # "recv" => pending_callbacks_ - Pretended = pending_callbacks_
  BY <1>2 DEF Pretended
<1>4. QueueOK(q, p, delivered, consumed)
  BY <1>1, <1>3, QueueLoses
<1>5. t \in 0..Inbound /\ t >= consumed
  BY <1>2
<1>6. /\ open' = FALSE /\ state_' = {} /\ edge' = FALSE /\ polled' = {}
      /\ request' \in {request, "none", "lost"} /\ consumed' \in {consumed, t}
      /\ close_callback_' \in BOOLEAN /\ pending_callbacks_' \in Nat
  BY <1>1, <1>4, <1>5, CloseKeeps
<1>7. QED
  BY <1>2, <1>5, <1>6

\* What a call of maybe_add_error_listener leaves.
LEMMA ListenFacts ==
    ASSUME StreamInv, pc # "recv", NEW q, NEW p, MaybeAddErrorListener(q, p),
           \/ q = callbacks_ /\ p = pending_callbacks_
           \/ q = StreamQueue /\ p = StreamPending
    PROVE  /\ open' = open /\ polled' = polled /\ state_' \subseteq Events3 /\ edge' \in BOOLEAN
           /\ close_callback_' \in BOOLEAN /\ pending_callbacks_' \in Nat
           /\ state_ \subseteq state_'
           /\ open => state_' # {} \/ pending_callbacks_' # 0
           /\ ~open => UNCHANGED <<state_, edge>>
<1>1. TypeOK /\ QueueInv /\ pending_callbacks_ \in Nat
  BY DEF StreamInv, TypeOK
<1>2. QueueOK(callbacks_, pending_callbacks_, delivered, consumed)
  BY <1>1 DEF QueueInv, Pretended
<1>3. QueueOK(StreamQueue, StreamPending, delivered, consumed + Streamed)
  BY <1>1, StreamedKeeps
<1>4. CASE q = callbacks_ /\ p = pending_callbacks_
  BY <1>1, <1>2, <1>4, MaybeAddKeeps
<1>5. CASE q = StreamQueue /\ p = StreamPending
  BY <1>1, <1>3, <1>5, MaybeAddKeeps
<1>6. QED
  BY <1>4, <1>5

\* What epoll watches follows what the stream asks for, in every step.
LEMMA WatchKeeps == StreamInv /\ [Next]_vars => Watching'
<1> SUFFICES ASSUME StreamInv, [Next]_vars PROVE Watching'
  OBVIOUS
<1>1. TypeOK /\ Positions /\ Watching
  BY DEF StreamInv
<1>2. ASSUME UNCHANGED <<state_, watched>>, polled' \in {polled, {}} PROVE Watching'
  BY <1>1, <1>2 DEF Watching
<1>3. ASSUME NEW held, NEW q, NEW p, NEW t, CloseHolding(held, q, p, t) PROVE Watching'
  BY <1>3 DEF CloseHolding, Watching
<1>4. ASSUME NEW q, NEW p, CloseNow(q, p) PROVE Watching'
  BY <1>3, <1>4 DEF CloseNow
<1>5. ASSUME NEW bits, AddIOState(bits) PROVE Watching'
  <2>1. CASE open /\ state_ \cap bits = {}
    BY <1>1, <1>5, <2>1 DEF AddIOState, Watching
  <2>2. CASE ~(open /\ state_ \cap bits = {})
    BY <1>2, <1>5, <2>2 DEF AddIOState
  <2>3. QED
    BY <2>1, <2>2
<1>6. ASSUME NEW q, NEW p, MaybeAddErrorListener(q, p) PROVE Watching'
  BY <1>2, <1>5, <1>6 DEF MaybeAddErrorListener, pollVars
<1>7. CASE User
  <2>1. ASSUME NEW streaming, ReadUntilClose(streaming) PROVE Watching'
    BY <1>5, <2>1 DEF ReadUntilClose
  <2>2. ASSUME NEW callback, Connect(callback) PROVE Watching'
    BY <1>4, <1>5, <2>2 DEF Connect
  <2>3. CASE Close
    BY <1>4, <2>3 DEF Close
  <2>4. CASE UNCHANGED pollVars
    BY <1>2, <2>4 DEF pollVars
  <2>5. QED
    BY <1>7, <2>1, <2>2, <2>3, <2>4
       DEF User, Read, ReadUntilCloseWhenClosed, Write, SetCloseCallback
<1>8. CASE RecvEOF \/ RecvError \/ RecvTooMuch
  BY <1>3, <1>8 DEF RecvEOF, RecvError, RecvTooMuch, ReadFails
<1>9. CASE SendError \/ ConnectError \/ CallbackThrows \/ RunCloseStream \/ UpdateStateThrows
  BY <1>4, <1>9 DEF SendError, ConnectError, CallbackThrows, RunCloseStream, UpdateStateThrows
<1>10. CASE ParseKeepsReading
  BY <1>2, <1>6, <1>10 DEF ParseKeepsReading, pollVars
<1>11. CASE WriteReturns
  BY <1>5, <1>6, <1>11 DEF WriteReturns
<1>12. CASE CallbackReturns
  BY <1>6, <1>12 DEF CallbackReturns
<1>13. CASE HandleEvents
  BY <1>2, <1>13 DEF HandleEvents
<1>14. CASE UpdateState
  BY <1>1, <1>14 DEF UpdateState, Positions, Watching
<1>15. CASE Poll
  BY <1>1, <1>15 DEF Poll, Watching
<1>16. CASE Peer
  BY <1>2, <1>16 DEF Peer, PeerSends, PeerCloses, PeerResets, PeerReads, ConnectEnds, Wake
<1>17. CASE UNCHANGED pollVars
  BY <1>2, <1>17 DEF pollVars
<1>18. QED
  BY <1>7, <1>8, <1>9, <1>10, <1>11, <1>12, <1>13, <1>14, <1>15, <1>16, <1>17
     DEF Next, Thread, RunQueue, vars, InlineCompletes, InlineReads, InlineThrows, RecvData,
         RecvNothing, ParseCompletes, SendData, SendBlocks, SendCrash, SendDone, HandleWrite,
         ConnectSucceeds, ConnectDone, NothingToWrite, HandledClosed, HandleError, RunCallback

\* Every step keeps the types.
LEMMA TypeKeeps == StreamInv /\ [Next]_vars => TypeOK'
<1> SUFFICES ASSUME StreamInv, [Next]_vars PROVE TypeOK'
  OBVIOUS
<1>1. /\ TypeOK /\ PollTypes /\ ReadTypes /\ CallTypes /\ LinkTypes /\ PlaceTypes /\ Positions
      /\ QueueInv'
  BY TypeParts, QueueKeeps DEF StreamInv
<1>2. /\ Inbound \in Nat /\ Outbound \in Nat /\ Chunk \in Nat \ {0} /\ SendBuffer \in Nat \ {0}
      /\ consumed \in Nat /\ taken \in Nat /\ sent \in Nat /\ consumed <= taken /\ taken <= sent
      /\ sent <= Inbound /\ accepted \in Nat /\ written \in Nat /\ accepted <= written
      /\ written <= Outbound /\ space \in Nat /\ space <= SendBuffer /\ pending_callbacks_ \in Nat
      /\ ctx \in {"loop", "user", "handle"} /\ ctx # "recv"
  BY <1>1, StreamAssumption DEF StreamAssumption, ReadTypes, LinkTypes, CallTypes, PlaceTypes
<1> DEFINE FlagTypes == /\ write_callback_' \in BOOLEAN /\ close_callback_' \in BOOLEAN
                        /\ connect_callback_' \in BOOLEAN /\ connecting_' \in BOOLEAN
                        /\ pending_callbacks_' \in Int
<1>3. ASSUME PollTypes', ReadTypes', LinkTypes', PlaceTypes', FlagTypes PROVE TypeOK'
  <2>1. callbacks_' \in Seq(Items) /\ delivered' \in 0..consumed' /\ pending_callbacks_' - Pretended' \in Nat
    BY <1>1, PendingIsNat DEF QueueInv
  <2>2. pending_callbacks_' \in Nat
    <3>1. pending_callbacks_' \in Int
      BY <1>3
    <3>2. \/ pending_callbacks_' - 0 \in Nat
          \/ pending_callbacks_' - 1 \in Nat
      BY <2>1 DEF Pretended
    <3>3. \A x \in Int : x - 0 \in Nat \/ x - 1 \in Nat => x \in Nat
      OBVIOUS
    <3>4. QED
      BY <3>1, <3>2, <3>3
  <2>3. CallTypes'
    BY <1>3, <2>1, <2>2 DEF CallTypes
  <2>4. QED
    BY <1>3, <2>3, WatchKeeps, TypePartsNext
<1>4. ASSUME UNCHANGED <<open, state_, edge, polled>> PROVE PollTypes'
  BY <1>1, <1>4 DEF PollTypes
<1>5. ASSUME UNCHANGED <<request, read_bytes_, streaming_callback_, consumed, taken, sent>> PROVE ReadTypes'
  BY <1>1, <1>5 DEF ReadTypes
<1>6. ASSUME UNCHANGED <<accepted, written, space, fin, reset, raised, link>> PROVE LinkTypes'
  BY <1>1, <1>6 DEF LinkTypes
<1>7. ASSUME UNCHANGED <<pc, ctx, ev>> PROVE PlaceTypes'
  BY <1>1, <1>7 DEF PlaceTypes
<1>8. ASSUME UNCHANGED <<write_callback_, connect_callback_, connecting_>>,
             close_callback_' \in {close_callback_, TRUE, FALSE},
             pending_callbacks_' \in {pending_callbacks_, pending_callbacks_ + 1, pending_callbacks_ - 1}
      PROVE  FlagTypes
  <2>1. pending_callbacks_' \in Int
    BY <1>2, <1>8
  <2>2. close_callback_' \in BOOLEAN
    BY <1>1, <1>8 DEF CallTypes
  <2>3. QED
    BY <1>1, <1>8, <2>1, <2>2 DEF CallTypes
\* a step that closes the stream, of which it may have taken bytes up to t
<1>9. ASSUME NEW held, NEW q, NEW p, NEW t \in consumed..sent, t >= taken,
             \/ q = callbacks_ /\ p = pending_callbacks_ - Pretended
             \/ q = callbacks_ /\ p = pending_callbacks_ /\ pc # "recv"
             \/ /\ q = Tail(callbacks_) /\ p = pending_callbacks_ /\ pc # "recv"
                /\ callbacks_ # <<>> /\ Head(callbacks_) = CloseStream,
             CloseHolding(held, q, p, t), taken' = t,
             UNCHANGED <<read_bytes_, streaming_callback_, write_callback_, connect_callback_, sent>>,
             connecting_' \in BOOLEAN
      PROVE  PollTypes' /\ ReadTypes' /\ FlagTypes
  <2>1. t \in consumed..Inbound
    BY <1>2, <1>9
  <2>2. /\ open' = FALSE /\ state_' = {} /\ edge' = FALSE /\ polled' = {}
        /\ request' \in {request, "none", "lost"} /\ consumed' \in consumed..t
        /\ close_callback_' \in BOOLEAN /\ pending_callbacks_' \in Nat
    BY <1>9, <2>1, CloseFacts
  <2>3. PollTypes'
    BY <2>2 DEF PollTypes
  <2>4. ReadTypes'
    BY <1>1, <1>2, <1>9, <2>2 DEF ReadTypes
  <2>5. FlagTypes
    BY <1>1, <1>9, <2>2 DEF CallTypes
  <2>6. QED
    BY <2>3, <2>4, <2>5
<1>10. ASSUME NEW q, NEW p, CloseNow(q, p),
              \/ q = callbacks_ /\ p = pending_callbacks_ /\ pc # "recv"
              \/ /\ q = Tail(callbacks_) /\ p = pending_callbacks_ /\ pc # "recv"
                 /\ callbacks_ # <<>> /\ Head(callbacks_) = CloseStream,
              UNCHANGED <<taken, read_bytes_, streaming_callback_, write_callback_, connect_callback_, sent>>,
              connecting_' \in BOOLEAN
       PROVE  PollTypes' /\ ReadTypes' /\ FlagTypes
  <2>1. taken \in consumed..sent /\ taken >= taken
    BY <1>2
  <2>2. CloseHolding(FALSE, q, p, taken) /\ taken' = taken
    BY <1>10 DEF CloseNow
  <2>3. QED
    BY <1>9, <1>10, <2>1, <2>2
\* a step that registers the stream
<1>11. ASSUME NEW bits \in {{READ}, {WRITE}}, AddIOState(bits) PROVE PollTypes'
  <2>1. bits \subseteq Events3 /\ bits # {}
    BY DEF Events3
  <2>2. QED
    BY <1>1, <1>11, <2>1, AddKeeps DEF PollTypes
<1>12. ASSUME NEW q, NEW p, MaybeAddErrorListener(q, p), pc # "recv",
              \/ q = callbacks_ /\ p = pending_callbacks_
              \/ q = StreamQueue /\ p = StreamPending,
              UNCHANGED <<write_callback_, connect_callback_, connecting_>>
       PROVE  PollTypes' /\ FlagTypes
  <2>1. /\ open' = open /\ polled' = polled /\ state_' \subseteq Events3 /\ edge' \in BOOLEAN
        /\ close_callback_' \in BOOLEAN /\ pending_callbacks_' \in Nat /\ state_ \subseteq state_'
    BY <1>12, ListenFacts
  <2>2. QED
    BY <1>1, <1>12, <2>1 DEF PollTypes, CallTypes
\* the two ends of read_from_buffer
<1>13. ASSUME CompleteRead, pc # "recv", UNCHANGED sent PROVE ReadTypes' /\ pending_callbacks_' \in Int
  <2>1. /\ consumed' \in consumed..taken /\ pending_callbacks_' \in Nat \ {0}
        /\ request' = "none" /\ read_bytes_' = 0 /\ streaming_callback_' = FALSE /\ taken' = taken
    BY <1>1, <1>13, CompleteKeeps DEF StreamInv
  <2>2. 0 \in 0..Inbound /\ consumed' \in 0..taken' /\ taken' \in 0..sent' /\ sent' \in 0..Inbound
    BY <1>2, <1>13, <2>1
  <2>3. ReadTypes'
    BY <2>1, <2>2 DEF ReadTypes
  <2>4. QED
    BY <2>1, <2>3
<1>14. ASSUME KeepReading, UNCHANGED sent PROVE ReadTypes'
  <2>1. consumed + Streamed \in consumed..taken /\ Left \in 0..Inbound
    BY <1>1, ReadTakes
  <2>2. QED
    BY <1>1, <1>2, <1>14, <2>1 DEF KeepReading, ReadTypes
<1>15. pc # "recv" => StreamPending \in Nat
  BY <1>1, StreamedKeeps, PendingIsNat DEF StreamInv
<1>16. CallReturns /\ ctx \in {"loop", "user"} => PlaceTypes'
  BY <1>1 DEF CallReturns, PlaceTypes
<1>17. HandlerReturns => PlaceTypes'
  BY DEF HandlerReturns, PlaceTypes, Events3
\* the user's calls
<1>20. CASE User
  <2>1. ASSUME NEW kind \in Requests, NEW n \in 0..Inbound, Read(kind, n) PROVE TypeOK'
    <3>1. kind \in {"bytes", "streamed", "until", "regex", "close"}
      BY StreamAssumption DEF StreamAssumption
    <3>2. ReadTypes'
      BY <1>1, <1>2, <2>1, <3>1 DEF Read, ReadTypes, peerVars
    <3>3. PlaceTypes'
      BY <1>1, <2>1 DEF Read, UserCode, PlaceTypes
    <3>4. PollTypes' /\ LinkTypes' /\ FlagTypes
      BY <1>1, <1>2, <2>1 DEF Read, PollTypes, LinkTypes, CallTypes, pollVars, writeVars, linkVars, closeVars,
             histVars, peerVars
    <3>5. QED
      BY <1>3, <3>2, <3>3, <3>4
  <2>2. ASSUME NEW streaming \in BOOLEAN, ReadUntilClose(streaming) PROVE TypeOK'
    <3>1. AddIOState({READ})
      BY <2>2 DEF ReadUntilClose
    <3>2. PollTypes'
      BY <1>11, <3>1
    <3>3. ReadTypes'
      BY <1>1, <1>2, <2>2 DEF ReadUntilClose, ReadTypes, peerVars
    <3>4. LinkTypes' /\ PlaceTypes' /\ FlagTypes
      BY <1>1, <1>2, <2>2 DEF ReadUntilClose, LinkTypes, CallTypes, PlaceTypes, writeVars, linkVars, closeVars,
             threadVars, histVars, peerVars
    <3>5. QED
      BY <1>3, <3>2, <3>3, <3>4
  <2>3. ASSUME NEW streaming \in BOOLEAN, ReadUntilCloseWhenClosed(streaming) PROVE TypeOK'
    <3>1. ReadTypes'
      <4>1. UNCHANGED <<request, read_bytes_, taken, sent>> /\ consumed' = taken /\ streaming_callback_' = FALSE
        BY <2>3 DEF ReadUntilCloseWhenClosed, peerVars
      <4>2. consumed' \in 0..taken'
        BY <1>2, <4>1
      <4>3. QED
        BY <1>1, <4>1, <4>2 DEF ReadTypes
    <3>2. pending_callbacks_' \in Int
      BY <1>2, <2>3 DEF ReadUntilCloseWhenClosed
    <3>3. PollTypes' /\ LinkTypes' /\ PlaceTypes' /\ FlagTypes
      BY <1>1, <2>3, <3>2 DEF ReadUntilCloseWhenClosed, PollTypes, LinkTypes, CallTypes, PlaceTypes,
             pollVars, writeVars, linkVars, threadVars, histVars, peerVars
    <3>4. QED
      BY <1>3, <3>1, <3>3
  <2>4. ASSUME NEW n \in 0..(Outbound - written), NEW callback \in BOOLEAN, Write(n, callback) PROVE TypeOK'
    <3>1. LinkTypes'
      BY <1>1, <1>2, <2>4 DEF Write, LinkTypes, linkVars, histVars, peerVars
    <3>2. PlaceTypes'
      BY <1>1, <2>4 DEF Write, UserCode, PlaceTypes
    <3>3. PollTypes' /\ ReadTypes' /\ FlagTypes
      BY <1>1, <1>2, <2>4 DEF Write, PollTypes, ReadTypes, CallTypes, pollVars, readVars, linkVars, closeVars,
             peerVars
    <3>4. QED
      BY <1>3, <3>1, <3>2, <3>3
  <2>5. CASE SetCloseCallback
    <3>1. PollTypes' /\ ReadTypes' /\ LinkTypes' /\ PlaceTypes' /\ FlagTypes
      BY <1>4, <1>5, <1>6, <1>7, <1>8, <2>5
         DEF SetCloseCallback, pollVars, readVars, writeVars, linkVars, threadVars, histVars, peerVars
    <3>2. QED
      BY <1>3, <3>1
  <2>6. CASE Close
    <3>1. PollTypes' /\ ReadTypes' /\ FlagTypes
      BY <1>1, <1>10, <2>6 DEF Close, UserCode, CallTypes, writeVars, linkVars, peerVars
    <3>2. LinkTypes' /\ PlaceTypes'
      BY <1>6, <1>7, <2>6 DEF Close, writeVars, linkVars, threadVars, histVars, peerVars
    <3>3. QED
      BY <1>3, <3>1, <3>2
  <2>7. ASSUME NEW callback \in BOOLEAN, Connect(callback) PROVE TypeOK'
    <3>1. LinkTypes' /\ PlaceTypes'
      BY <1>1, <2>7 DEF Connect, LinkTypes, PlaceTypes, writeVars, threadVars, histVars, peerVars
    <3>2. CASE CloseNow(callbacks_, pending_callbacks_)
               /\ UNCHANGED <<connect_callback_, read_bytes_, streaming_callback_, taken>>
      <4>1. pc # "recv" /\ connecting_' \in BOOLEAN /\ UNCHANGED <<write_callback_, sent>>
        BY <2>7 DEF Connect, UserCode, writeVars, peerVars
      <4>2. PollTypes' /\ ReadTypes' /\ FlagTypes
        BY <1>10, <3>2, <4>1
      <4>3. QED
        BY <1>3, <3>1, <4>2
    <3>3. CASE AddIOState({WRITE}) /\ connect_callback_' = callback /\ UNCHANGED <<closeVars, readVars>>
      <4>1. PollTypes'
        BY <1>11, <3>3
      <4>2. ReadTypes' /\ FlagTypes
        BY <1>1, <1>2, <2>7, <3>3 DEF Connect, ReadTypes, CallTypes, closeVars, readVars, writeVars, peerVars
      <4>3. QED
        BY <1>3, <3>1, <4>1, <4>2
    <3>4. QED
      BY <2>7, <3>2, <3>3 DEF Connect
  <2>8. 0 \in 0..Inbound /\ 1..Inbound \subseteq 0..Inbound
    BY <1>2
  <2>9. QED
    BY <1>20, <2>1, <2>2, <2>3, <2>4, <2>5, <2>6, <2>7, <2>8 DEF User
\* reading
<1>21. CASE InlineCompletes
  <2>1. ReadTypes' /\ pending_callbacks_' \in Int /\ close_callback_' = close_callback_
    BY <1>13, <1>21 DEF InlineCompletes, peerVars, CompleteRead
  <2>2. ctx \in {"loop", "user"}
    BY <1>1, <1>21 DEF InlineCompletes, Positions
  <2>3. PollTypes' /\ LinkTypes' /\ PlaceTypes' /\ FlagTypes
    BY <1>1, <1>4, <1>6, <1>16, <1>21, <2>1, <2>2
       DEF InlineCompletes, CallTypes, pollVars, writeVars, linkVars, histVars, peerVars
  <2>4. QED
    BY <1>3, <2>1, <2>3
<1>22. CASE InlineReads
  <2>1. ReadTypes' /\ pending_callbacks_' \in Int
    BY <1>14, <1>15, <1>22 DEF InlineReads, peerVars
  <2>2. PollTypes' /\ LinkTypes' /\ PlaceTypes' /\ FlagTypes
    BY <1>1, <1>4, <1>6, <1>22, <2>1
       DEF InlineReads, CallTypes, PlaceTypes, pollVars, writeVars, linkVars, histVars, peerVars
  <2>3. QED
    BY <1>3, <2>1, <2>2
<1>23. CASE InlineThrows
  <2>1. ReadTypes' /\ pending_callbacks_' \in Int
    BY <1>14, <1>15, <1>23 DEF InlineThrows, peerVars
  <2>2. ctx \in {"loop", "user"}
    BY <1>1, <1>23 DEF InlineThrows, Positions
  <2>3. PlaceTypes' /\ raised' \in BOOLEAN
    BY <1>1, <1>16, <1>23, <2>2 DEF InlineThrows, Throw, LinkTypes
  <2>4. PollTypes' /\ LinkTypes' /\ FlagTypes
    BY <1>1, <1>4, <1>23, <2>1, <2>3
       DEF InlineThrows, CallTypes, LinkTypes, pollVars, writeVars, linkVars, peerVars
  <2>5. QED
    BY <1>3, <2>1, <2>3, <2>4
<1>24. CASE RecvData
  <2>1. taken' = taken + Received /\ sent > taken
    BY <1>24 DEF RecvData
  <2>2. taken + Received \in taken..sent
    BY <1>2, <2>1 DEF Received, Smaller
  <2>3. ReadTypes'
    BY <1>1, <1>2, <1>24, <2>1, <2>2 DEF RecvData, ReadTypes, peerVars
  <2>4. PollTypes' /\ LinkTypes' /\ PlaceTypes' /\ FlagTypes
    BY <1>4, <1>6, <1>7, <1>8, <1>24
       DEF RecvData, pollVars, writeVars, linkVars, closeVars, threadVars, histVars, peerVars
  <2>5. QED
    BY <1>3, <2>3, <2>4
<1>25. CASE RecvNothing
  <2>1. PollTypes' /\ ReadTypes' /\ LinkTypes' /\ FlagTypes
    BY <1>4, <1>5, <1>6, <1>8, <1>25
       DEF RecvNothing, pollVars, readVars, writeVars, linkVars, histVars, peerVars
  <2>2. PlaceTypes'
    BY <1>1, <1>25 DEF RecvNothing, PlaceTypes
  <2>3. QED
    BY <1>3, <2>1, <2>2
<1>26. CASE RecvEOF
  <2>1. PollTypes' /\ ReadTypes' /\ FlagTypes
    <3>1. taken \in consumed..sent /\ taken >= taken
      BY <1>2
    <3>2. CloseHolding(TRUE, callbacks_, pending_callbacks_ - Pretended, taken)
      BY <1>26 DEF RecvEOF, Pretended
    <3>3. QED
      BY <1>1, <1>9, <1>26, <3>1, <3>2 DEF RecvEOF, CallTypes, writeVars, linkVars, peerVars
  <2>2. LinkTypes' /\ PlaceTypes'
    BY <1>1, <1>6, <1>26 DEF RecvEOF, PlaceTypes, writeVars, linkVars, histVars, peerVars
  <2>3. QED
    BY <1>3, <2>1, <2>2
<1>27. ASSUME NEW t \in consumed..sent, t >= taken, pc = "recv", ReadFails(t) PROVE TypeOK'
  <2>1. PollTypes' /\ ReadTypes' /\ FlagTypes
    <3>1. CloseHolding(ctx # "handle", callbacks_, pending_callbacks_ - Pretended, t) /\ taken' = t
      BY <1>27 DEF ReadFails, Pretended
    <3>2. QED
      BY <1>1, <1>9, <1>27, <3>1 DEF ReadFails, CallTypes, writeVars, linkVars, peerVars
  <2>2. PlaceTypes' /\ raised' \in BOOLEAN
    BY <1>1, <1>2, <1>16, <1>17, <1>27 DEF ReadFails, Throw, LinkTypes
  <2>3. LinkTypes'
    BY <1>1, <1>27, <2>2 DEF ReadFails, LinkTypes, writeVars, linkVars, peerVars
  <2>4. QED
    BY <1>3, <2>1, <2>2, <2>3
<1>28. CASE RecvError
  <2>1. taken \in consumed..sent /\ taken >= taken
    BY <1>2
  <2>2. QED
    BY <1>27, <1>28, <2>1 DEF RecvError
<1>29. CASE RecvTooMuch
  <2>1. taken + Received \in consumed..sent /\ taken + Received >= taken
    BY <1>2, <1>29 DEF RecvTooMuch, Received, Smaller
  <2>2. QED
    BY <1>27, <1>29, <2>1 DEF RecvTooMuch
<1>30. CASE ParseCompletes
  <2>1. ReadTypes' /\ pending_callbacks_' \in Int /\ close_callback_' = close_callback_
    BY <1>13, <1>30 DEF ParseCompletes, peerVars, CompleteRead
  <2>2. PlaceTypes'
    BY <1>1, <1>2, <1>16, <1>30 DEF ParseCompletes, PlaceTypes
  <2>3. PollTypes' /\ LinkTypes' /\ FlagTypes
    BY <1>1, <1>4, <1>6, <1>30, <2>1
       DEF ParseCompletes, CallTypes, pollVars, writeVars, linkVars, histVars, peerVars
  <2>4. QED
    BY <1>3, <2>1, <2>2, <2>3
<1>31. CASE ParseKeepsReading
  <2>1. pc = "parse" /\ ReadTypes' /\ UNCHANGED <<write_callback_, connect_callback_, connecting_>>
    BY <1>14, <1>31 DEF ParseKeepsReading, writeVars, linkVars, peerVars
  <2>2. PlaceTypes'
    BY <1>1, <1>2, <1>16, <1>31 DEF ParseKeepsReading, PlaceTypes
  <2>3. LinkTypes'
    BY <1>6, <1>31 DEF ParseKeepsReading, writeVars, linkVars, histVars, peerVars
  <2>4. PollTypes' /\ FlagTypes
    <3>1. CASE MaybeRunCloseCallback(open, StreamQueue, StreamPending) /\ UNCHANGED pollVars
      <4>1. QueueOK(StreamQueue, StreamPending, delivered, consumed + Streamed) /\ close_callback_ \in BOOLEAN
        BY <1>1, <2>1, StreamedKeeps DEF StreamInv, CallTypes
      <4>2. close_callback_' \in BOOLEAN /\ pending_callbacks_' \in Nat
        BY <3>1, <4>1, MaybeRunKeeps
      <4>3. QED
        BY <1>1, <1>4, <2>1, <3>1, <4>2 DEF CallTypes, pollVars
    <3>2. CASE MaybeAddErrorListener(StreamQueue, StreamPending)
      BY <1>12, <2>1, <3>2
    <3>3. QED
      BY <1>31, <3>1, <3>2 DEF ParseKeepsReading
  <2>5. QED
    BY <1>3, <2>1, <2>2, <2>3, <2>4
\* writing
<1>32. CASE SendData
  <2>1. /\ accepted' = accepted + Smaller(written - accepted, space)
        /\ space' = space - Smaller(written - accepted, space)
        /\ UNCHANGED <<written, fin, reset, raised, link>>
    BY <1>32 DEF SendData, Unsent, linkVars, histVars
  <2>2. LinkTypes'
    BY <1>1, <1>2, <2>1 DEF LinkTypes, Smaller
  <2>3. PollTypes' /\ ReadTypes' /\ PlaceTypes' /\ FlagTypes
    BY <1>4, <1>5, <1>7, <1>8, <1>32
       DEF SendData, pollVars, readVars, linkVars, closeVars, threadVars
  <2>4. QED
    BY <1>3, <2>2, <2>3
<1>33. CASE SendBlocks \/ SendCrash \/ HandleWrite \/ ConnectSucceeds \/ NothingToWrite
  <2>1. PollTypes' /\ ReadTypes' /\ LinkTypes' /\ FlagTypes
    BY <1>4, <1>5, <1>6, <1>8, <1>33
       DEF SendBlocks, SendCrash, HandleWrite, ConnectSucceeds, NothingToWrite, pollVars, readVars, writeVars,
           linkVars, closeVars, histVars, peerVars
  <2>2. PlaceTypes'
    BY <1>1, <1>33 DEF SendBlocks, SendCrash, HandleWrite, ConnectSucceeds, NothingToWrite, PlaceTypes
  <2>3. QED
    BY <1>3, <2>1, <2>2
<1>34. CASE SendError \/ ConnectError
  <2>1. PollTypes' /\ ReadTypes' /\ FlagTypes
    <3>1. /\ pc # "recv" /\ CloseNow(callbacks_, pending_callbacks_)
          /\ UNCHANGED <<taken, read_bytes_, streaming_callback_, write_callback_, connect_callback_, sent, connecting_>>
      BY <1>34 DEF SendError, ConnectError, writeVars, linkVars, peerVars
    <3>2. QED
      BY <1>1, <1>10, <3>1 DEF CallTypes
  <2>2. LinkTypes' /\ PlaceTypes'
    BY <1>1, <1>6, <1>34 DEF SendError, ConnectError, PlaceTypes, writeVars, linkVars, histVars, peerVars
  <2>3. QED
    BY <1>3, <2>1, <2>2
<1>35. CASE SendDone \/ ConnectDone
  <2>1. PollTypes' /\ ReadTypes' /\ LinkTypes'
    BY <1>4, <1>5, <1>6, <1>35
       DEF SendDone, ConnectDone, pollVars, readVars, writeVars, linkVars, histVars, peerVars
  <2>2. /\ pending_callbacks_' \in {pending_callbacks_, pending_callbacks_ + 1}
        /\ UNCHANGED close_callback_
        /\ \/ write_callback_' = FALSE /\ UNCHANGED <<connect_callback_, connecting_>>
           \/ UNCHANGED write_callback_ /\ connect_callback_' = FALSE /\ connecting_' = FALSE
    BY <1>35 DEF SendDone, ConnectDone, linkVars, writeVars
  <2>3. pending_callbacks_' \in Int
    BY <1>2, <2>2
  <2>4. FlagTypes
    BY <1>1, <2>2, <2>3 DEF CallTypes
  <2>5. PlaceTypes'
    BY <1>1, <1>35 DEF SendDone, ConnectDone, PlaceTypes
  <2>6. QED
    BY <1>3, <2>1, <2>4, <2>5
<1>36. CASE WriteReturns
  <2>1. ReadTypes' /\ LinkTypes' /\ PlaceTypes'
    BY <1>2, <1>5, <1>6, <1>16, <1>36
       DEF WriteReturns, readVars, writeVars, linkVars, histVars, peerVars
  <2>2. pc # "recv" /\ UNCHANGED <<write_callback_, connect_callback_, connecting_>>
    BY <1>36 DEF WriteReturns, writeVars, linkVars
  <2>3. CASE AddIOState({WRITE}) /\ UNCHANGED closeVars
    BY <1>3, <1>8, <1>11, <2>1, <2>2, <2>3 DEF closeVars
  <2>4. CASE MaybeAddErrorListener(callbacks_, pending_callbacks_)
    BY <1>3, <1>12, <2>1, <2>2, <2>4
  <2>5. QED
    BY <1>36, <2>3, <2>4 DEF WriteReturns
\* events
<1>37. CASE HandleEvents
  <2>1. ReadTypes' /\ LinkTypes' /\ FlagTypes
    BY <1>5, <1>6, <1>8, <1>37 DEF HandleEvents, readVars, writeVars, linkVars, histVars, peerVars
  <2>2. PollTypes' /\ PlaceTypes'
    BY <1>1, <1>37 DEF HandleEvents, PollTypes, PlaceTypes
  <2>3. QED
    BY <1>3, <2>1, <2>2
<1>38. CASE HandledClosed \/ HandleError
  <2>1. PollTypes' /\ ReadTypes' /\ LinkTypes' /\ FlagTypes
    BY <1>4, <1>5, <1>6, <1>8, <1>38
       DEF HandledClosed, HandleError, pollVars, readVars, writeVars, linkVars, closeVars, histVars, peerVars
  <2>2. PlaceTypes'
    BY <1>17, <1>38 DEF HandledClosed, HandleError
  <2>3. QED
    BY <1>3, <2>1, <2>2
<1>39. CASE UpdateState
  <2>1. ReadTypes' /\ LinkTypes' /\ PlaceTypes' /\ FlagTypes
    BY <1>5, <1>6, <1>8, <1>17, <1>39
       DEF UpdateState, readVars, writeVars, linkVars, closeVars, histVars, peerVars
  <2>2. polled = {}
    BY <1>1, <1>39 DEF UpdateState, Positions
  <2>3. Wanted \subseteq Events3
    BY DEF Wanted, Events3
  <2>4. PollTypes'
    BY <1>1, <1>39, <2>2, <2>3 DEF UpdateState, PollTypes
  <2>5. QED
    BY <1>3, <2>1, <2>4
<1>40. CASE Poll
  <2>1. ReadTypes' /\ LinkTypes' /\ PlaceTypes' /\ FlagTypes
    BY <1>5, <1>6, <1>7, <1>8, <1>40
       DEF Poll, readVars, writeVars, linkVars, closeVars, threadVars, histVars, peerVars
  <2>2. PollTypes'
    BY <1>1, <1>40 DEF Poll, PollTypes, TypeOK
  <2>3. QED
    BY <1>3, <2>1, <2>2
\* callbacks
<1>41. CASE RunCallback
  <2>1. PollTypes' /\ ReadTypes' /\ LinkTypes' /\ FlagTypes
    BY <1>4, <1>5, <1>6, <1>8, <1>41 DEF RunCallback, pollVars, readVars, writeVars, linkVars, peerVars
  <2>2. PlaceTypes'
    BY <1>1, <1>41 DEF RunCallback, PlaceTypes
  <2>3. QED
    BY <1>3, <2>1, <2>2
<1>42. CASE CallbackReturns
  <2>1. ReadTypes' /\ LinkTypes'
    BY <1>5, <1>6, <1>42 DEF CallbackReturns, readVars, writeVars, linkVars, histVars, peerVars
  <2>2. PollTypes' /\ FlagTypes
    BY <1>12, <1>42 DEF CallbackReturns, writeVars, linkVars
  <2>3. PlaceTypes'
    BY <1>1, <1>42 DEF CallbackReturns, PlaceTypes
  <2>4. QED
    BY <1>3, <2>1, <2>2, <2>3
<1>43. CASE CallbackThrows \/ RunCloseStream \/ UpdateStateThrows
  <2>1. /\ pc # "recv"
        /\ UNCHANGED <<taken, read_bytes_, streaming_callback_, write_callback_, connect_callback_, sent, connecting_>>
        /\ \/ CloseNow(callbacks_, pending_callbacks_)
           \/ /\ callbacks_ # <<>> /\ Head(callbacks_) = CloseStream
              /\ CloseNow(Tail(callbacks_), pending_callbacks_)
    BY <1>43 DEF CallbackThrows, RunCloseStream, UpdateStateThrows, writeVars, linkVars, peerVars
  <2>2. connecting_' \in BOOLEAN
    BY <1>1, <2>1 DEF CallTypes
  <2>3. PollTypes' /\ ReadTypes' /\ FlagTypes
    BY <1>10, <2>1, <2>2
  <2>4. LinkTypes' /\ PlaceTypes'
    BY <1>1, <1>6, <1>17, <1>43
       DEF CallbackThrows, RunCloseStream, UpdateStateThrows, PlaceTypes, writeVars, linkVars, threadVars,
           histVars, peerVars
  <2>5. QED
    BY <1>3, <2>3, <2>4
\* the peer
<1>44. CASE Peer
  <2>1. PICK bits : Wake(bits)
    BY <1>44 DEF Peer, PeerSends, PeerCloses, PeerResets, PeerReads, ConnectEnds
  <2>2. PollTypes' /\ PlaceTypes'
    BY <1>1, <2>1 DEF Wake, PollTypes, PlaceTypes, threadVars
  <2>3. ReadTypes'
    BY <1>1, <1>2, <1>44 DEF Peer, PeerSends, PeerCloses, PeerResets, PeerReads, ConnectEnds, Wake, ReadTypes,
           readVars, peerVars
  <2>4. LinkTypes'
    <3>1. UNCHANGED <<accepted, written, raised>>
      BY <2>1 DEF Wake, writeVars, histVars
    <3>2. /\ fin' \in {fin, TRUE} /\ reset' \in {reset, TRUE} /\ space' \in {space, SendBuffer}
          /\ link' \in {link, "up", "failed"}
      BY <1>44 DEF Peer, PeerSends, PeerCloses, PeerResets, PeerReads, ConnectEnds, linkVars, peerVars
    <3>3. SendBuffer \in 0..SendBuffer
      BY <1>2
    <3>4. fin' \in BOOLEAN /\ reset' \in BOOLEAN
      BY <1>1, <3>2 DEF LinkTypes
    <3>5. space' \in 0..SendBuffer
      BY <1>1, <3>2, <3>3 DEF LinkTypes
    <3>6. QED
      BY <1>1, <3>1, <3>2, <3>4, <3>5 DEF LinkTypes
  <2>5. FlagTypes
    BY <1>1, <1>2, <1>44 DEF Peer, PeerSends, PeerCloses, PeerResets, PeerReads, ConnectEnds, Wake, CallTypes,
           writeVars, linkVars, closeVars
  <2>6. QED
    BY <1>3, <2>2, <2>3, <2>4, <2>5
<1>45. CASE UNCHANGED vars
  BY <1>3, <1>4, <1>5, <1>6, <1>7, <1>8, <1>45
     DEF vars, pollVars, readVars, writeVars, linkVars, closeVars, threadVars, histVars, peerVars
<1>46. QED
  BY <1>20, <1>21, <1>22, <1>23, <1>24, <1>25, <1>26, <1>28, <1>29, <1>30, <1>31, <1>32, <1>33, <1>34,
     <1>35, <1>36, <1>37, <1>38, <1>39, <1>40, <1>41, <1>42, <1>43, <1>44, <1>45
     DEF Next, Thread, RunQueue
-----------------------------------------------------------------------------
(* Where the thread is and what the stream is registered for.              *)

\* Every step leaves the thread at a place that fits the stream's state, and a stream
\* that is idle registered, one that is closed not.
LEMMA PlacesKeep ==
    StreamInv /\ [Next]_vars => Positions' /\ Registered' /\ AsksWhenIdle' /\ ClosedAsksNothing'
<1> DEFINE Places == Positions' /\ Registered' /\ AsksWhenIdle' /\ ClosedAsksNothing'
<1> SUFFICES ASSUME StreamInv, [Next]_vars PROVE Places
  OBVIOUS
<1>1. TypeOK /\ QueueInv /\ Positions /\ Registered /\ AsksWhenIdle /\ ClosedAsksNothing
  BY DEF StreamInv
<1>2. /\ open \in BOOLEAN /\ edge \in BOOLEAN /\ connecting_ \in BOOLEAN /\ polled \subseteq state_
      /\ ctx \in {"loop", "user", "handle"} /\ pending_callbacks_ \in Nat
      /\ taken \in Nat /\ written \in Nat
  BY <1>1, StreamAssumption DEF TypeOK, StreamAssumption
\* steps that close the stream
<1>3. ASSUME open' = FALSE, state_' = {}, edge' = FALSE, polled' = {}, Positions' PROVE Places
  BY <1>3 DEF Registered, AsksWhenIdle, ClosedAsksNothing
<1>4. ASSUME NEW held, NEW q, NEW p, NEW t \in consumed..sent,
             \/ q = callbacks_ /\ p = pending_callbacks_ - Pretended
             \/ q = callbacks_ /\ p = pending_callbacks_ /\ pc # "recv"
             \/ /\ q = Tail(callbacks_) /\ p = pending_callbacks_ /\ pc # "recv"
                /\ callbacks_ # <<>> /\ Head(callbacks_) = CloseStream,
             CloseHolding(held, q, p, t), Positions'
      PROVE  Places
  <2>1. t \in consumed..Inbound
    BY <1>1, <1>4, StreamAssumption DEF TypeOK, StreamAssumption
  <2>2. open' = FALSE /\ state_' = {} /\ edge' = FALSE /\ polled' = {}
    BY <1>4, <2>1, CloseFacts
  <2>3. QED
    BY <1>3, <1>4, <2>2
<1>5. ASSUME NEW q, NEW p, CloseNow(q, p), Positions',
             \/ q = callbacks_ /\ p = pending_callbacks_ /\ pc # "recv"
             \/ /\ q = Tail(callbacks_) /\ p = pending_callbacks_ /\ pc # "recv"
                /\ callbacks_ # <<>> /\ Head(callbacks_) = CloseStream
      PROVE  Places
  <2>1. taken \in consumed..sent
    BY <1>1, StreamAssumption DEF TypeOK, StreamAssumption
  <2>2. CloseHolding(FALSE, q, p, taken)
    BY <1>5 DEF CloseNow
  <2>3. QED
    BY <1>4, <1>5, <2>1, <2>2
\* steps that leave the socket and its registration alone
<1>6. ASSUME UNCHANGED <<open, state_, edge>>, polled' \in {polled, {}},
             ctx' = "handle" => ctx = "handle", connecting_' => connecting_,
             \/ pc' # "loop"
             \/ ~open
             \/ state_ # {}
             \/ pending_callbacks_' # 0
             \/ pc = "loop" /\ UNCHANGED <<pending_callbacks_, request, taken, written>>,
             Positions'
      PROVE  Places
  <2>1. Registered'
    BY <1>1, <1>6 DEF Registered
  <2>2. ClosedAsksNothing'
    BY <1>1, <1>6 DEF ClosedAsksNothing
  <2>3. AsksWhenIdle'
    BY <1>1, <1>6 DEF AsksWhenIdle, Reading
  <2>4. QED
    BY <1>6, <2>1, <2>2, <2>3
\* steps that may register it
<1>7. ASSUME open' = open, polled' = polled, state_ \subseteq state_', ~open => UNCHANGED <<state_, edge>>,
             open => state_' # {} \/ pending_callbacks_' # 0,
             ctx' = "handle" => ctx = "handle", connecting_' => connecting_ \/ state_' # {}, Positions'
      PROVE  Places
  <2>1. Registered'
    BY <1>1, <1>7 DEF Registered
  <2>2. ClosedAsksNothing'
    BY <1>1, <1>7 DEF ClosedAsksNothing
  <2>3. AsksWhenIdle'
    BY <1>7 DEF AsksWhenIdle
  <2>4. QED
    BY <1>7, <2>1, <2>2, <2>3
<1>8. ASSUME NEW bits \in {{READ}, {WRITE}}, AddIOState(bits), open,
             ctx' = "handle" => ctx = "handle", Positions'
      PROVE  Places
  <2>1. bits \subseteq Events3 /\ bits # {}
    BY DEF Events3
  <2>2. /\ open' = open /\ polled' = polled /\ state_ \subseteq state_' /\ state_' # {}
        /\ ~open => UNCHANGED <<state_, edge>>
    BY <1>1, <1>8, <2>1, AddKeeps
  <2>3. QED
    BY <1>7, <1>8, <2>2
<1>9. ASSUME NEW q, NEW p, MaybeAddErrorListener(q, p), pc # "recv",
             \/ q = callbacks_ /\ p = pending_callbacks_
             \/ q = StreamQueue /\ p = StreamPending,
             ctx' = "handle" => ctx = "handle", connecting_' = connecting_, Positions'
      PROVE  Places
  <2>1. /\ open' = open /\ polled' = polled /\ state_ \subseteq state_'
        /\ open => state_' # {} \/ pending_callbacks_' # 0
        /\ ~open => UNCHANGED <<state_, edge>>
    BY <1>9, ListenFacts
  <2>2. QED
    BY <1>7, <1>9, <2>1
\* what becomes of the thread
<1>10. ASSUME UNCHANGED <<pc, ctx>>, polled' \in {polled, {}} PROVE Positions'
  BY <1>1, <1>10 DEF Positions
<1>11. ASSUME CallReturns, ctx # "handle" PROVE Positions' /\ ctx' # "handle"
  BY <1>2, <1>11 DEF CallReturns, Positions
<1>12. ASSUME HandlerReturns PROVE Positions' /\ ctx' # "handle"
  BY <1>12 DEF HandlerReturns, Positions
<1>13. ASSUME ctx' = ctx, polled' \in {polled, {}}, pc' \in {"recv", "parse", "send", "sent", "crashed"} PROVE Positions'
  BY <1>1, <1>13 DEF Positions
<1>14. ASSUME ctx' = ctx, ctx = "handle", polled' \in {polled, {}}, pc' \in {"events", "connected"} PROVE Positions'
  BY <1>1, <1>14 DEF Positions
<1>15. ASSUME ctx' = pc, pc \in {"loop", "user"}, pc' \in {"inline", "send"} PROVE Positions' /\ ctx' # "handle"
  BY <1>15 DEF Positions
\* the user's calls
<1>20. CASE User
  <2>1. ASSUME NEW kind, NEW n, Read(kind, n) PROVE Places
    <3>1. Positions' /\ ctx' # "handle" /\ pc' # "loop"
      BY <1>15, <2>1 DEF Read, UserCode
    <3>2. QED
      BY <1>6, <2>1, <3>1 DEF Read, pollVars, linkVars
  <2>2. ASSUME NEW streaming \in BOOLEAN, ReadUntilClose(streaming) PROVE Places
    <3>1. AddIOState({READ}) /\ open /\ UNCHANGED <<pc, ctx, polled>>
      BY <2>2 DEF ReadUntilClose, AddIOState, threadVars
    <3>2. QED
      BY <1>8, <1>10, <3>1
  <2>3. ASSUME NEW streaming \in BOOLEAN, ReadUntilCloseWhenClosed(streaming) PROVE Places
    <3>1. UNCHANGED <<open, state_, edge, polled, pc, ctx, connecting_>> /\ ~open
      BY <2>3 DEF ReadUntilCloseWhenClosed, pollVars, threadVars, linkVars
    <3>2. QED
      BY <1>6, <1>10, <3>1
  <2>4. ASSUME NEW n, NEW callback, Write(n, callback) PROVE Places
    <3>1. open /\ UserCode /\ UNCHANGED <<open, state_, edge, polled, connecting_>>
      BY <2>4 DEF Write, pollVars, linkVars
    <3>2. CASE connecting_
      <4>1. state_ # {}
        BY <1>1, <3>1, <3>2 DEF Registered
      <4>2. UNCHANGED <<pc, ctx>>
        BY <2>4, <3>2 DEF Write
      <4>3. QED
        BY <1>6, <1>10, <3>1, <4>1, <4>2
    <3>3. CASE ~connecting_
      <4>1. Positions' /\ ctx' # "handle" /\ pc' # "loop"
        BY <1>15, <2>4, <3>1, <3>3 DEF Write, UserCode
      <4>2. QED
        BY <1>6, <3>1, <4>1
    <3>4. QED
      BY <3>2, <3>3
  <2>5. CASE SetCloseCallback
    <3>1. /\ UNCHANGED <<open, state_, edge, polled, pc, ctx, connecting_, pending_callbacks_, request, taken, written>>
          /\ pc \in {"loop", "user"}
      BY <2>5 DEF SetCloseCallback, UserCode, pollVars, threadVars, linkVars, readVars, writeVars
    <3>2. QED
      BY <1>6, <1>10, <3>1
  <2>6. CASE Close
    <3>1. pc # "recv" /\ CloseNow(callbacks_, pending_callbacks_) /\ UNCHANGED <<pc, ctx>> /\ polled' = {}
      BY <2>6 DEF Close, UserCode, threadVars, CloseNow, CloseHolding
    <3>2. QED
      BY <1>5, <1>10, <3>1
  <2>7. ASSUME NEW callback, Connect(callback) PROVE Places
    <3>1. pc # "recv" /\ open /\ UNCHANGED <<pc, ctx>>
      BY <2>7 DEF Connect, UserCode, threadVars
    <3>2. CASE CloseNow(callbacks_, pending_callbacks_)
      <4>1. polled' = {}
        BY <3>2 DEF CloseNow, CloseHolding
      <4>2. QED
        BY <1>5, <1>10, <3>1, <3>2, <4>1
    <3>3. CASE AddIOState({WRITE})
      <4>1. polled' = polled
        BY <3>3 DEF AddIOState
      <4>2. QED
        BY <1>8, <1>10, <3>1, <3>3, <4>1
    <3>4. QED
      BY <2>7, <3>2, <3>3 DEF Connect
  <2>8. QED
    BY <1>20, <2>1, <2>2, <2>3, <2>4, <2>5, <2>6, <2>7 DEF User
\* reading
<1>21. CASE InlineCompletes
  <2>1. UNCHANGED <<open, state_, edge, polled, connecting_>> /\ pc = "inline" /\ CallReturns /\ CompleteRead
    BY <1>21 DEF InlineCompletes, pollVars, linkVars
  <2>2. pending_callbacks_' # 0
    BY <1>1, <2>1, CompleteKeeps
  <2>3. ctx # "handle"
    BY <1>1, <2>1 DEF Positions
  <2>4. QED
    BY <1>6, <1>11, <2>1, <2>2, <2>3
<1>22. CASE InlineReads
  <2>1. UNCHANGED <<open, state_, edge, polled, connecting_, ctx>> /\ pc' = "recv"
    BY <1>22 DEF InlineReads, pollVars, linkVars
  <2>2. QED
    BY <1>6, <1>13, <2>1
<1>23. CASE InlineThrows
  <2>1. UNCHANGED <<open, state_, edge, polled, connecting_>> /\ pc = "inline" /\ CallReturns /\ ~open
    BY <1>23 DEF InlineThrows, Throw, pollVars, linkVars
  <2>2. ctx # "handle"
    BY <1>1, <2>1 DEF Positions
  <2>3. QED
    BY <1>6, <1>11, <2>1, <2>2
<1>24. CASE RecvData
  <2>1. UNCHANGED <<open, state_, edge, polled, connecting_, pc, ctx>> /\ pc = "recv"
    BY <1>24 DEF RecvData, pollVars, linkVars, threadVars
  <2>2. QED
    BY <1>6, <1>10, <2>1
<1>25. CASE RecvNothing
  <2>1. UNCHANGED <<open, state_, edge, polled, connecting_, ctx>> /\ pc' = "parse"
    BY <1>25 DEF RecvNothing, pollVars, linkVars
  <2>2. QED
    BY <1>6, <1>13, <2>1
<1>26. CASE RecvEOF
  <2>1. /\ CloseHolding(TRUE, callbacks_, pending_callbacks_ - Pretended, taken)
        /\ polled' = {} /\ ctx' = ctx /\ pc' = "parse"
    BY <1>26 DEF RecvEOF, Pretended, CloseHolding
  <2>2. taken \in consumed..sent
    BY <1>1, StreamAssumption DEF TypeOK, StreamAssumption
  <2>3. QED
    BY <1>4, <1>13, <2>1, <2>2
<1>27. ASSUME NEW t \in consumed..sent, pc = "recv", ReadFails(t) PROVE Places
  <2>1. CloseHolding(ctx # "handle", callbacks_, pending_callbacks_ - Pretended, t)
    BY <1>27 DEF ReadFails, Pretended
  <2>2. Positions'
    BY <1>11, <1>12, <1>27 DEF ReadFails, Throw
  <2>3. QED
    BY <1>4, <1>27, <2>1, <2>2
<1>28. CASE RecvError \/ RecvTooMuch
  <2>1. PICK t \in {taken, taken + Received} :
             pc = "recv" /\ ReadFails(t) /\ (t = taken \/ sent > taken)
    BY <1>28 DEF RecvError, RecvTooMuch
  <2>2. t \in consumed..sent
    BY <1>1, <2>1, StreamAssumption DEF TypeOK, StreamAssumption, Received, Smaller
  <2>3. QED
    BY <1>27, <2>1, <2>2
<1>30. CASE ParseCompletes
  <2>1. UNCHANGED <<open, state_, edge, polled, connecting_>> /\ pc = "parse" /\ CompleteRead
    BY <1>30 DEF ParseCompletes, pollVars, linkVars
  <2>2. pending_callbacks_' # 0
    BY <1>1, <2>1, CompleteKeeps
  <2>3. Positions' /\ (ctx' = "handle" => ctx = "handle")
    BY <1>11, <1>14, <1>30, <2>1 DEF ParseCompletes
  <2>4. QED
    BY <1>6, <2>1, <2>2, <2>3
<1>31. CASE ParseKeepsReading
  <2>1. pc = "parse" /\ connecting_' = connecting_
    BY <1>31 DEF ParseKeepsReading, linkVars
  <2>2. CASE ctx = "handle"
    <3>1. UNCHANGED <<open, state_, edge, polled, ctx>> /\ pc' = "events"
      BY <1>31, <2>2 DEF ParseKeepsReading, pollVars
    <3>2. QED
      BY <1>6, <1>14, <2>1, <2>2, <3>1
  <2>3. CASE ctx # "handle"
    <3>1. MaybeAddErrorListener(StreamQueue, StreamPending) /\ CallReturns
      BY <1>31, <2>3 DEF ParseKeepsReading
    <3>2. QED
      BY <1>9, <1>11, <2>1, <2>3, <3>1
  <2>4. QED
    BY <2>2, <2>3
\* writing
<1>32. CASE SendData
  <2>1. UNCHANGED <<open, state_, edge, polled, connecting_, pc, ctx>> /\ pc = "send"
    BY <1>32 DEF SendData, pollVars, linkVars, threadVars
  <2>2. QED
    BY <1>6, <1>10, <2>1
<1>33. CASE SendBlocks \/ SendCrash \/ SendDone \/ HandleWrite \/ NothingToWrite
  <2>1. UNCHANGED <<open, state_, edge, polled, connecting_, ctx>> /\ pc' \in {"send", "sent", "crashed"}
    BY <1>33 DEF SendBlocks, SendCrash, SendDone, HandleWrite, NothingToWrite, pollVars, linkVars
  <2>2. QED
    BY <1>6, <1>13, <2>1
<1>34. CASE SendError \/ ConnectError
  <2>1. pc # "recv" /\ CloseNow(callbacks_, pending_callbacks_) /\ polled' = {}
    BY <1>34 DEF SendError, ConnectError, CloseNow, CloseHolding
  <2>2. Positions'
    BY <1>1, <1>34, <2>1 DEF SendError, ConnectError, Positions
  <2>3. QED
    BY <1>5, <2>1, <2>2
<1>35. CASE WriteReturns
  <2>1. pc = "sent" /\ ctx # "handle" /\ CallReturns /\ connecting_' = connecting_
    BY <1>35 DEF WriteReturns, linkVars
  <2>2. Positions' /\ ctx' # "handle"
    BY <1>11, <2>1
  <2>3. CASE AddIOState({WRITE}) /\ open
    BY <1>8, <2>2, <2>3
  <2>4. CASE MaybeAddErrorListener(callbacks_, pending_callbacks_)
    BY <1>9, <2>1, <2>2, <2>4
  <2>5. QED
    BY <1>35, <2>3, <2>4 DEF WriteReturns
\* events
<1>36. CASE HandleEvents
  <2>1. /\ UNCHANGED <<open, state_, edge, connecting_>> /\ polled # {} /\ polled' = {}
        /\ ctx' = "handle" /\ pc' \in {"recv", "events"}
    BY <1>36 DEF HandleEvents, linkVars
  <2>2. Positions'
    BY <2>1 DEF Positions
  <2>3. Registered'
    BY <1>2, <2>1 DEF Registered
  <2>4. AsksWhenIdle' /\ ClosedAsksNothing'
    BY <1>1, <2>1 DEF AsksWhenIdle, ClosedAsksNothing
  <2>5. QED
    BY <2>2, <2>3, <2>4
<1>37. CASE ConnectSucceeds
  <2>1. UNCHANGED <<open, state_, edge, polled, connecting_, ctx>> /\ pc' = "connected" /\ pc = "events"
    BY <1>37 DEF ConnectSucceeds, pollVars, linkVars
  <2>2. ctx = "handle"
    BY <1>1, <2>1 DEF Positions
  <2>3. QED
    BY <1>6, <1>14, <2>1, <2>2
<1>38. CASE ConnectDone
  <2>1. UNCHANGED <<open, state_, edge, polled, ctx>> /\ pc' = "send" /\ connecting_' = FALSE
    BY <1>38 DEF ConnectDone, pollVars
  <2>2. QED
    BY <1>6, <1>13, <2>1
<1>39. CASE HandledClosed \/ HandleError
  <2>1. /\ UNCHANGED <<open, state_, edge, polled, connecting_>> /\ HandlerReturns
        /\ (~open \/ (open /\ ctx = "handle"))
    BY <1>39 DEF HandledClosed, HandleError, pollVars, linkVars
  <2>2. ~open \/ state_ # {}
    BY <1>1, <2>1 DEF Registered
  <2>3. QED
    BY <1>6, <1>12, <2>1, <2>2
<1>40. CASE UpdateState
  <2>1. open /\ open' /\ state_' = Wanted /\ HandlerReturns
    BY <1>40 DEF UpdateState
  <2>2. state_' # {}
    BY <2>1 DEF Wanted
  <2>3. Registered' /\ AsksWhenIdle' /\ ClosedAsksNothing'
    BY <2>1, <2>2 DEF Registered, AsksWhenIdle, ClosedAsksNothing
  <2>4. QED
    BY <1>12, <2>1, <2>3
<1>41. CASE Poll
  <2>1. /\ UNCHANGED <<open, state_, pc, ctx, connecting_, pending_callbacks_, request, taken, written>>
        /\ pc = "loop" /\ polled' = Level \cap watched /\ edge' = FALSE
    BY <1>41 DEF Poll, threadVars, linkVars, closeVars, readVars, writeVars
  <2>2. ctx = "loop"
    BY <1>1, <2>1 DEF Positions
  <2>3. Positions'
    BY <2>1, <2>2 DEF Positions
  <2>4. Registered' /\ ClosedAsksNothing'
    BY <1>1, <2>1 DEF Registered, ClosedAsksNothing, TypeOK
  <2>5. AsksWhenIdle'
    BY <1>1, <2>1 DEF AsksWhenIdle, Reading
  <2>6. QED
    BY <2>3, <2>4, <2>5
\* callbacks
<1>42. CASE RunCallback
  <2>1. UNCHANGED <<open, state_, edge, polled, connecting_, ctx>> /\ pc = "loop" /\ pc' = "user"
    BY <1>42 DEF RunCallback, pollVars, linkVars
  <2>2. Positions'
    BY <1>1, <2>1 DEF Positions
  <2>3. QED
    BY <1>6, <2>1, <2>2
<1>43. CASE CallbackReturns
  <2>1. /\ pc = "user" /\ pc' = "loop" /\ ctx' = ctx /\ connecting_' = connecting_
        /\ MaybeAddErrorListener(callbacks_, pending_callbacks_)
    BY <1>43 DEF CallbackReturns, linkVars
  <2>2. ctx = "loop"
    BY <1>1, <2>1 DEF Positions
  <2>3. Positions' /\ ctx' # "handle"
    BY <2>1, <2>2 DEF Positions
  <2>4. QED
    BY <1>9, <2>1, <2>3
<1>48. CASE UpdateStateThrows
  <2>1. pc # "recv" /\ CloseNow(callbacks_, pending_callbacks_) /\ Positions'
    BY <1>12, <1>48 DEF UpdateStateThrows
  <2>2. QED
    BY <1>5, <2>1
<1>44. CASE CallbackThrows \/ RunCloseStream
  <2>1. /\ pc \in {"loop", "user"} /\ pc' = "loop" /\ ctx' = ctx
        /\ \/ CloseNow(callbacks_, pending_callbacks_)
           \/ /\ callbacks_ # <<>> /\ Head(callbacks_) = CloseStream
              /\ CloseNow(Tail(callbacks_), pending_callbacks_)
    BY <1>44 DEF CallbackThrows, RunCloseStream, threadVars
  <2>2. Positions'
    BY <1>1, <2>1 DEF Positions
  <2>3. QED
    BY <1>5, <2>1, <2>2
\* the peer
<1>45. CASE Peer
  <2>1. PICK bits : Wake(bits)
    BY <1>45 DEF Peer, PeerSends, PeerCloses, PeerResets, PeerReads, ConnectEnds
  <2>2. /\ UNCHANGED <<open, state_, polled, pc, ctx, pending_callbacks_, request, taken, written>>
        /\ edge' = (edge \/ watched \cap bits # {})
    BY <2>1 DEF Wake, threadVars, closeVars, readVars, writeVars
  <2>3. connecting_' = connecting_
    BY <1>45 DEF Peer, PeerSends, PeerCloses, PeerResets, PeerReads, ConnectEnds, linkVars
  <2>4. Positions' /\ Registered'
    BY <1>1, <1>10, <2>2, <2>3 DEF Registered
  <2>5. AsksWhenIdle'
    BY <1>1, <2>2 DEF AsksWhenIdle, Reading
  <2>6. ClosedAsksNothing'
    BY <1>1, <2>2 DEF ClosedAsksNothing, TypeOK
  <2>7. QED
    BY <2>4, <2>5, <2>6
<1>46. CASE UNCHANGED vars
  BY <1>1, <1>46 DEF vars, pollVars, threadVars, closeVars, readVars, writeVars, linkVars, Positions,
     Registered, AsksWhenIdle, Reading, ClosedAsksNothing
<1>47. QED
  BY <1>20, <1>21, <1>22, <1>23, <1>24, <1>25, <1>26, <1>28, <1>30, <1>31, <1>32, <1>33, <1>34, <1>35,
     <1>36, <1>37, <1>38, <1>39, <1>40, <1>41, <1>42, <1>43, <1>44, <1>45, <1>46, <1>48
     DEF Next, Thread, RunQueue
-----------------------------------------------------------------------------
(* The theorems.                                                           *)

\* A new stream.
LEMMA InitHolds == Init => StreamInv
<1> SUFFICES ASSUME Init PROVE StreamInv
  OBVIOUS
<1>1. /\ Inbound \in Nat /\ Outbound \in Nat /\ SendBuffer \in Nat /\ 0 \in 0..Inbound /\ 0 \in 0..0
      /\ 0 \in 0..Outbound /\ SendBuffer \in 0..SendBuffer
  BY StreamAssumption DEF StreamAssumption
<1>2. PollTypes /\ ReadTypes /\ LinkTypes /\ PlaceTypes
  BY <1>1 DEF Init, PollTypes, ReadTypes, LinkTypes, PlaceTypes, Events3
<1>3. CallTypes
  BY <1>1, EmptySeq DEF Init, CallTypes
<1>4. TypeOK
  BY <1>2, <1>3, TypeParts DEF Init
<1>5. QueueInv
  <2>1. callbacks_ \in Seq(Items) /\ DOMAIN callbacks_ = {}
    BY <1>3, EmptySeq, LenProperties DEF Init, CallTypes
  <2>2. WrappedAt(callbacks_) = {} /\ {i \in DOMAIN callbacks_ : IsData(callbacks_[i])} = {}
    BY <2>1 DEF WrappedAt
  <2>3. Bridges(callbacks_, 0, 0)
    BY <2>1, <2>2 DEF Bridges
  <2>4. QueueOK(callbacks_, 0, 0, 0)
    BY <1>1, <2>1, <2>2, <2>3, FS_EmptySet DEF QueueOK
  <2>5. pending_callbacks_ - Pretended = 0 /\ delivered = 0 /\ consumed = 0
    BY DEF Init, Pretended
  <2>6. QED
    BY <2>4, <2>5 DEF QueueInv
<1>6. Positions /\ Registered /\ AsksWhenIdle /\ ClosedAsksNothing /\ Watching
  BY DEF Init, Positions, Registered, AsksWhenIdle, Reading, ClosedAsksNothing, Watching
<1>7. QED
  BY <1>4, <1>5, <1>6 DEF StreamInv

\* The invariant is inductive.
LEMMA StepKeeps == StreamInv /\ [Next]_vars => StreamInv'
<1> SUFFICES ASSUME StreamInv, [Next]_vars PROVE StreamInv'
  OBVIOUS
<1>1. TypeOK'
  BY TypeKeeps
<1>2. QueueInv'
  BY QueueKeeps
<1>3. Positions' /\ Registered' /\ AsksWhenIdle' /\ ClosedAsksNothing'
  BY PlacesKeep
<1>4. Watching'
  BY WatchKeeps
<1>5. QED
  BY <1>1, <1>2, <1>3, <1>4 DEF StreamInv

\* The inductive invariant holds in every state: queue, counter and buffer agree,
\* and the stream is registered where somebody would look for it.
THEOREM StreamInvariant == Spec => []StreamInv
<1>1. Init => StreamInv
  BY InitHolds
<1>2. StreamInv /\ [Next]_vars => StreamInv'
  BY StepKeeps
<1>3. QED
  BY <1>1, <1>2, PTL DEF Spec

\* Every variable has its type, for any bounds.
THEOREM TypeOKHolds == Spec => []TypeOK
<1>1. StreamInv => TypeOK
  BY DEF StreamInv
<1>2. QED
  BY <1>1, StreamInvariant, PTL

\* pending_callbacks_ is exact at every moment: whatever throws or closes the
\* stream takes back what it has counted.
THEOREM PendingAccountsHolds == Spec => []PendingAccounts
<1>1. StreamInv => PendingAccounts
  <2> SUFFICES ASSUME StreamInv PROVE PendingAccounts
    OBVIOUS
  <2>1. pending_callbacks_ \in Nat /\ callbacks_ \in Seq(Items)
    BY DEF StreamInv, TypeOK
  <2>2. Cardinality(WrappedAt(callbacks_)) \in Nat
    BY <2>1, CountedType
  <2>3. pending_callbacks_ - Pretended = Cardinality(WrappedAt(callbacks_))
    BY DEF StreamInv, QueueInv, QueueOK
  <2>4. pending_callbacks_ = Cardinality(WrappedAt(callbacks_)) + (IF pc = "recv" THEN 1 ELSE 0)
    BY <2>1, <2>2, <2>3 DEF Pretended
  <2>5. QED
    BY <2>4 DEF PendingAccounts, WrappedAt
<1>2. QED
  BY <1>1, StreamInvariant, PTL

\* No byte is lost, repeated or overtaken between the buffer, the loop's queue and
\* the user, however the stream is read and whenever it is closed.
THEOREM DataInOrderHolds == Spec => []DataInOrder
<1>1. StreamInv => DataInOrder
  BY DEF StreamInv, QueueInv, QueueOK, Bridges, DataInOrder
<1>2. QED
  BY <1>1, StreamInvariant, PTL

\* The close callback never overtakes another callback of the stream.
THEOREM CloseCallbackWaitsHolds == Spec => CloseCallbackWaits
<1>1. StreamInv /\ [Next]_vars => CloseWaits
  BY QueueKeeps
<1>2. StreamInv /\ [Next]_vars =>
         [close_callback_ /\ ~close_callback_' =>
             \A i \in DOMAIN callbacks_' : callbacks_'[i].call \in {"close", "IOStream::close"}]_vars
  BY <1>1 DEF CloseWaits, OnlyCloses
<1>3. QED
  BY <1>2, StreamInvariant, PTL DEF Spec, CloseCallbackWaits

\* A used stream at rest is registered, on every path back to the loop.
THEOREM ListensWhenIdleHolds == Spec => []ListensWhenIdle
<1>1. StreamInv => ListensWhenIdle
  BY DEF StreamInv, AsksWhenIdle, Watching, ListensWhenIdle
<1>2. QED
  BY <1>1, StreamInvariant, PTL

\* A closed stream has no registration and no event that waits.
THEOREM ClosedIsUnregisteredHolds == Spec => []ClosedIsUnregistered
<1>1. StreamInv => ClosedIsUnregistered
  BY DEF StreamInv, ClosedAsksNothing, Watching, ClosedIsUnregistered
<1>2. QED
  BY <1>1, StreamInvariant, PTL
=============================================================================

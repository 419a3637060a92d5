------------------------------ MODULE IOStream ------------------------------
(***************************************************************************)
(* core/iostream.cc: one IOStream, its socket, its entry in epoll and its  *)
(* callbacks in the queue of the loop.  The loop's thread runs the steps   *)
(* of pc; the peer, the kernel and the user act in between.  User code     *)
(* runs in the stream's callbacks (pc = "user") and anywhere else in the   *)
(* loop (pc = "loop"); the loop runs callbacks in order, and events and    *)
(* callbacks in any order.                                                 *)
(*                                                                         *)
(* Bytes are numbered in the order in which they are sent.  read_buffer_   *)
(* holds the bytes consumed + 1 .. taken, write_buffer_ the bytes          *)
(* accepted + 1 .. written; Buffer says how.  A delimiter is one byte;     *)
(* Delims are the numbers of the bytes that are one.                       *)
(***************************************************************************)
EXTENDS Naturals, Sequences, FiniteSets

CONSTANTS Inbound,    \* bound: bytes that the peer sends
          Outbound,   \* bound: bytes that the user writes
          Delims,     \* numbers of the inbound bytes that are a delimiter
          SendBuffer, \* bytes that the kernel's send buffer holds
          Chunk,      \* read_chunk_size_
          MaxBuffer,  \* max_buffer_size_
          MaxQueue,   \* bound: callbacks waiting when the user calls
          Requests,   \* kinds of read the user asks for
          Client,     \* the socket may be one that is not connected yet
          Failures,   \* the peer may reset and connect may fail
          EpollMayFail \* epoll_ctl(ADD) and (MOD) may fail (ENOSPC, ENOMEM)

READ  == "READ"
WRITE == "WRITE"
ERROR == "ERROR"

ASSUME StreamAssumption ==
    /\ Inbound \in Nat /\ Outbound \in Nat /\ Delims \subseteq 1..Inbound
    /\ SendBuffer \in Nat \ {0} /\ Chunk \in Nat \ {0}
    /\ MaxBuffer \in Nat \ {0} /\ MaxQueue \in Nat \ {0}
    /\ Requests \subseteq {"bytes", "streamed", "until", "regex", "close"}
    /\ Client \in BOOLEAN /\ Failures \in BOOLEAN /\ EpollMayFail \in BOOLEAN

VARIABLES open,               \* socket_ != nullptr
          state_,             \* events the stream has asked to be told of
          watched,            \* events that epoll watches the descriptor for
          request,            \* the read that read_callback_ waits for
          read_bytes_,
          streaming_callback_, write_callback_, close_callback_,
          connect_callback_,  \* whether each of these is set
          connecting_,
          pending_callbacks_,
          taken, consumed,    \* read_buffer_
          written, accepted,  \* write_buffer_
          callbacks_,         \* the stream's callbacks in the loop's queue
          polled,             \* the stream's entry in the loop's events_
          pc, ctx, ev,        \* where the loop's thread is, the caller it
                              \* returns to, the events it handles
          delivered,          \* history: last byte given to a callback
          raised,             \* history: a read threw outside of a callback
          sent, fin, reset,   \* what the peer did
          space,              \* room in the kernel's send buffer
          link,               \* state of the connection
          edge                \* the descriptor is in epoll's ready list

readVars   == <<request, read_bytes_, streaming_callback_, taken, consumed>>
writeVars  == <<write_callback_, written, accepted>>
linkVars   == <<connect_callback_, connecting_, link>>
closeVars  == <<callbacks_, pending_callbacks_, close_callback_>>
pollVars   == <<open, state_, watched, edge, polled>>
threadVars == <<pc, ctx, ev>>
histVars   == <<delivered, raised>>
peerVars   == <<sent, fin, reset, space>>
vars == <<readVars, writeVars, linkVars, closeVars, pollVars, threadVars,
          histVars, peerVars>>

Smaller(a, b) == IF a < b THEN a ELSE b
Buffered == taken - consumed
Unsent   == written - accepted
Reading  == request # "none"       \* reading()
Writing  == Unsent > 0             \* writing()

\* queue entries: a wrapped callback and the last byte of its argument, or
\* IOStream::close itself
Wrapped(name, upto) == [call |-> name, upto |-> upto]
CloseStream == [call |-> "IOStream::close", upto |-> 0]

Broken   == reset \/ link = "failed"

\* what epoll finds ready
Level ==
    IF Broken THEN {READ, WRITE, ERROR}
    ELSE (IF sent > taken \/ fin THEN {READ} ELSE {})
         \cup (IF link = "up" /\ space > 0 THEN {WRITE} ELSE {})

Init ==
    /\ open = TRUE /\ state_ = {} /\ watched = {} /\ edge = FALSE /\ polled = {}
    /\ request = "none" /\ read_bytes_ = 0 /\ streaming_callback_ = FALSE
    /\ write_callback_ = FALSE /\ close_callback_ = FALSE
    /\ connect_callback_ = FALSE /\ connecting_ = FALSE
    /\ pending_callbacks_ = 0 /\ callbacks_ = <<>>
    /\ taken = 0 /\ consumed = 0 /\ written = 0 /\ accepted = 0
    /\ pc = "loop" /\ ctx = "loop" /\ ev = {}
    /\ delivered = 0 /\ raised = FALSE
    /\ sent = 0 /\ fin = FALSE /\ reset = FALSE /\ space = SendBuffer
    /\ link \in IF Client THEN {"new", "up"} ELSE {"up"}
-----------------------------------------------------------------------------
(* The private operations that handlers share.  q and p are the queue and  *)
(* pending_callbacks_ as the caller has left them.                         *)

\* mutant: pending_callbacks_ is not looked at
MaybeRunCloseCallbackAtOnce(isOpen, q, p) ==
    IF ~isOpen /\ close_callback_
    THEN /\ callbacks_' = Append(q, Wrapped("close", 0))
         /\ pending_callbacks_' = p + 1
         /\ close_callback_' = FALSE
    ELSE /\ callbacks_' = q
         /\ pending_callbacks_' = p
         /\ UNCHANGED close_callback_

\* maybe_run_close_callback
MaybeRunCloseCallback(isOpen, q, p) ==
    IF ~isOpen /\ close_callback_ /\ p = 0
    THEN /\ callbacks_' = Append(q, Wrapped("close", 0))
         /\ pending_callbacks_' = 1
         /\ close_callback_' = FALSE
    ELSE /\ callbacks_' = q
         /\ pending_callbacks_' = p
         /\ UNCHANGED close_callback_

\* mutant: remove_handler leaves the event that was polled for the stream
CloseHoldingKeepsEvent(held, q, p, t) ==
    LET final == open /\ request = "close"
        q1    == IF final THEN Append(q, Wrapped("read", t)) ELSE q
        p1    == IF final THEN p + 1 ELSE p
    IN  /\ open' = FALSE /\ state_' = {} /\ watched' = {} /\ edge' = FALSE
        /\ UNCHANGED polled
        /\ request' = CASE final -> "none"
                        [] request = "regex" -> "lost"
                        [] OTHER -> request
        /\ consumed' = IF final THEN t ELSE consumed
        /\ MaybeRunCloseCallback(held, q1, p1)

\* close(), when read_buffer_ ends at byte t.  It is "held" when the caller has
\* counted a pending callback of its own, which p leaves out.
CloseHolding(held, q, p, t) ==
    LET final == open /\ request = "close"
        q1    == IF final THEN Append(q, Wrapped("read", t)) ELSE q
        p1    == IF final THEN p + 1 ELSE p
    IN  /\ open' = FALSE /\ state_' = {} /\ watched' = {} /\ edge' = FALSE
        /\ polled' = {}
        /\ request' = CASE final -> "none"
                        [] request = "regex" -> "lost"   \* delete read_regex_
                        [] OTHER -> request
        /\ consumed' = IF final THEN t ELSE consumed
        /\ MaybeRunCloseCallback(held, q1, p1)

CloseNow(q, p) == CloseHolding(FALSE, q, p, taken)

\* add_io_state; registering or modifying an entry looks at what is ready.
\* epoll_ctl may fail after state_ was changed, and (MOD) does so when there is
\* no entry (ENOENT).  add_io_state is the last thing its callers do: its Error
\* goes to the user, who may go on, or to the loop, which logs it.
AddIOState(bits) ==
    /\ UNCHANGED <<open, polled>>
    /\ IF open /\ state_ \cap bits = {}
       THEN /\ state_' = state_ \cup bits \cup {ERROR}
            /\ \/ /\ state_ = {} \/ watched # {}
                  /\ watched' = state_'
                  /\ edge' = (edge \/ Level \cap state_' # {})
               \/ EpollMayFail /\ UNCHANGED <<watched, edge>>
       ELSE UNCHANGED <<state_, watched, edge>>

\* mutant: the close callback that waited is not run when the stream is closed
MaybeAddErrorListenerOpen(q, p) ==
    /\ callbacks_' = q /\ pending_callbacks_' = p /\ UNCHANGED close_callback_
    /\ IF state_ = {} /\ p = 0 /\ open THEN AddIOState({READ}) ELSE UNCHANGED pollVars

\* maybe_add_error_listener
MaybeAddErrorListener(q, p) ==
    IF state_ = {} /\ p = 0
    THEN IF open
         THEN AddIOState({READ}) /\ callbacks_' = q /\ pending_callbacks_' = p
              /\ UNCHANGED close_callback_
         ELSE MaybeRunCloseCallback(open, q, p) /\ UNCHANGED pollVars
    ELSE callbacks_' = q /\ pending_callbacks_' = p
         /\ UNCHANGED <<close_callback_, pollVars>>

\* a call of the user's returns; an Error leaves it, which outside of a
\* callback the caller gets; handle_events returns
CallReturns == pc' = ctx /\ ctx' = "loop" /\ UNCHANGED ev
Throw       == CallReturns /\ raised' = (raised \/ ctx = "loop")
HandlerReturns == pc' = "loop" /\ ctx' = "loop" /\ ev' = {}
-----------------------------------------------------------------------------
(* read_from_buffer.  First the streaming callback takes what it may, then *)
(* the read is completed if the rest suffices.                             *)

Streamed ==
    IF streaming_callback_
    THEN IF read_bytes_ # 0 THEN Smaller(read_bytes_, Buffered) ELSE Buffered
    ELSE 0
Left == IF read_bytes_ = 0 THEN 0 ELSE read_bytes_ - Streamed
Marks == {i \in Delims : consumed + Streamed < i /\ i <= taken}

\* mutant: the size of the buffer is not looked at
BytesReadyUnchecked == Left # 0

BytesReady == Left # 0 /\ Buffered - Streamed >= Left
Searches   == request \in {"until", "regex"} /\ Buffered > 0
MarkReady  == Searches /\ Marks # {}
Completes  == BytesReady \/ MarkReady

\* The search merges the chunks of the buffer until it has found the delimiter
\* or the buffer holds one byte (not one chunk).  A thread that spins takes no
\* step any more.
Spins == Searches /\ Marks = {} /\ Buffered # 1

FinalByte == IF BytesReady THEN consumed + Streamed + Left
             ELSE CHOOSE i \in Marks : \A j \in Marks : i <= j

StreamQueue   == IF Streamed = 0 THEN callbacks_
                 ELSE Append(callbacks_, Wrapped("stream", consumed + Streamed))
StreamPending == IF Streamed = 0 THEN pending_callbacks_ ELSE pending_callbacks_ + 1

CompleteRead ==
    /\ Completes
    /\ callbacks_' = Append(StreamQueue, Wrapped("read", FinalByte))
    /\ pending_callbacks_' = StreamPending + 1
    /\ consumed' = FinalByte
    /\ request' = "none" /\ read_bytes_' = 0 /\ streaming_callback_' = FALSE
    /\ UNCHANGED <<close_callback_, taken>>

\* mutant: the streaming callback is given bytes that stay in the buffer
KeepReadingUnconsumed ==
    /\ ~Completes /\ ~Spins
    /\ read_bytes_' = Left
    /\ UNCHANGED <<request, streaming_callback_, taken, consumed>>

\* the caller says what becomes of StreamQueue and StreamPending
KeepReading ==
    /\ ~Completes /\ ~Spins
    /\ consumed' = consumed + Streamed
    /\ read_bytes_' = Left
    /\ UNCHANGED <<request, streaming_callback_, taken>>
-----------------------------------------------------------------------------
(* The user's calls.                                                       *)

UserCode == pc \in {"loop", "user"} /\ Len(callbacks_) < MaxQueue

\* read_bytes, read_until, read_until_regex.  Callers keep to what
\* set_read_callback asserts (ASSERT logs and goes on): no read is in progress.
Read(kind, n) ==
    /\ UserCode /\ ~Reading /\ link # "new"
    /\ request' = IF kind = "streamed" THEN "bytes" ELSE kind
    /\ IF kind \in {"bytes", "streamed"}
       THEN read_bytes_' = n /\ streaming_callback_' = (kind = "streamed")
       ELSE UNCHANGED <<read_bytes_, streaming_callback_>>
    /\ pc' = "inline" /\ ctx' = pc
    /\ UNCHANGED <<taken, consumed, ev>>
    /\ UNCHANGED <<writeVars, linkVars, closeVars, pollVars, histVars, peerVars>>

ReadUntilClose(streaming) ==
    /\ UserCode /\ ~Reading /\ link # "new" /\ open
    /\ request' = "close" /\ streaming_callback_' = streaming
    /\ AddIOState({READ})
    /\ UNCHANGED <<read_bytes_, taken, consumed>>
    /\ UNCHANGED <<writeVars, linkVars, closeVars, threadVars, histVars, peerVars>>

ReadUntilCloseWhenClosed(streaming) ==
    /\ UserCode /\ ~Reading /\ ~open
    /\ LET first == IF streaming THEN <<Wrapped("stream", taken)>> ELSE <<>>
       IN  /\ callbacks_' = callbacks_ \o first \o <<Wrapped("read", taken)>>
           /\ pending_callbacks_' = pending_callbacks_ + Len(first) + 1
    /\ consumed' = taken
    /\ streaming_callback_' = FALSE
    /\ UNCHANGED <<request, read_bytes_, taken, close_callback_>>
    /\ UNCHANGED <<writeVars, linkVars, pollVars, threadVars, histVars, peerVars>>

Write(n, callback) ==
    /\ UserCode /\ open
    /\ link # "new" \/ connecting_
    /\ written' = written + n
    /\ write_callback_' = callback
    /\ IF connecting_ THEN UNCHANGED <<pc, ctx>> ELSE pc' = "send" /\ ctx' = pc
    /\ UNCHANGED <<accepted, ev>>
    /\ UNCHANGED <<readVars, linkVars, closeVars, pollVars, histVars, peerVars>>

SetCloseCallback ==
    /\ UserCode /\ open
    /\ close_callback_' = TRUE
    /\ UNCHANGED <<callbacks_, pending_callbacks_>>
    /\ UNCHANGED <<readVars, writeVars, linkVars, pollVars, threadVars, histVars,
                   peerVars>>

Close ==
    /\ UserCode
    /\ CloseNow(callbacks_, pending_callbacks_)
    /\ UNCHANGED <<read_bytes_, streaming_callback_, taken>>
    /\ UNCHANGED <<writeVars, linkVars, threadVars, histVars, peerVars>>

\* connect() fails at once, or waits for the descriptor to become writable
Connect(callback) ==
    /\ UserCode /\ open /\ link = "new"
    /\ connecting_' = TRUE
    /\ \/ /\ Failures
          /\ link' = "failed"
          /\ CloseNow(callbacks_, pending_callbacks_)
          /\ UNCHANGED <<connect_callback_, read_bytes_, streaming_callback_, taken>>
       \/ /\ link' = "connecting"
          /\ connect_callback_' = callback
          /\ AddIOState({WRITE})
          /\ UNCHANGED <<closeVars, readVars>>
    /\ UNCHANGED <<writeVars, threadVars, histVars, peerVars>>

User ==
    \/ \E kind \in Requests \ {"bytes", "streamed", "close"} : Read(kind, 0)
    \/ \E kind \in Requests \cap {"bytes", "streamed"}, n \in 0..Inbound : Read(kind, n)
    \/ "close" \in Requests /\ \E streaming \in BOOLEAN :
          ReadUntilClose(streaming) \/ ReadUntilCloseWhenClosed(streaming)
    \/ \E n \in 0..(Outbound - written), callback \in BOOLEAN : Write(n, callback)
    \/ SetCloseCallback
    \/ Close
    \/ \E callback \in BOOLEAN : Connect(callback)
-----------------------------------------------------------------------------
(* Reading: try_inline_read and handle_read.                               *)

InlineCompletes ==
    /\ pc = "inline"
    /\ CompleteRead
    /\ CallReturns
    /\ UNCHANGED <<writeVars, linkVars, pollVars, histVars, peerVars>>

InlineReads ==
    /\ pc = "inline" /\ open
    /\ KeepReading
    /\ callbacks_' = StreamQueue
    /\ pending_callbacks_' = StreamPending + 1     \* the pretended one
    /\ pc' = "recv"
    /\ UNCHANGED <<close_callback_, ctx, ev, writeVars, linkVars, pollVars>>
    /\ UNCHANGED <<histVars, peerVars>>

InlineThrows ==
    /\ pc = "inline" /\ ~open
    /\ KeepReading
    /\ callbacks_' = StreamQueue
    /\ pending_callbacks_' = StreamPending
    /\ Throw
    /\ UNCHANGED <<close_callback_, writeVars, linkVars, pollVars>>
    /\ UNCHANGED <<delivered, peerVars>>

Received == Smaller(Chunk, sent - taken)

\* mutant: one recv for each event
RecvDataOnce ==
    /\ pc = "recv" /\ sent > taken
    /\ taken + Received - consumed < MaxBuffer
    /\ taken' = taken + Received
    /\ pending_callbacks_' = pending_callbacks_ - 1
    /\ pc' = "parse"
    /\ UNCHANGED <<request, read_bytes_, streaming_callback_, consumed, ctx, ev>>
    /\ UNCHANGED <<callbacks_, close_callback_, writeVars, linkVars, pollVars>>
    /\ UNCHANGED <<histVars, peerVars>>

\* bytes that came before a reset can be read or not
RecvData ==
    /\ pc = "recv" /\ sent > taken
    /\ taken + Received - consumed < MaxBuffer
    /\ taken' = taken + Received
    /\ UNCHANGED <<request, read_bytes_, streaming_callback_, consumed>>
    /\ UNCHANGED <<writeVars, linkVars, closeVars, pollVars, threadVars, histVars,
                   peerVars>>

RecvNothing ==
    /\ pc = "recv" /\ ~Broken /\ sent = taken /\ ~fin
    /\ pending_callbacks_' = pending_callbacks_ - 1
    /\ pc' = "parse"
    /\ UNCHANGED <<callbacks_, close_callback_, ctx, ev, readVars, writeVars>>
    /\ UNCHANGED <<linkVars, pollVars, histVars, peerVars>>

\* read_from_socket closes the stream, the bytes read so far are still parsed;
\* a broken connection looks ended once its error has been taken
RecvEOF ==
    /\ pc = "recv" /\ sent = taken /\ (fin \/ Broken)
    /\ CloseHolding(TRUE, callbacks_, pending_callbacks_ - 1, taken)
    /\ pc' = "parse"
    /\ UNCHANGED <<read_bytes_, streaming_callback_, taken, ctx, ev>>
    /\ UNCHANGED <<writeVars, linkVars, histVars, peerVars>>

\* mutant: the pretended callback is not taken back on an error
ReadFailsCounting(t) ==
    /\ taken' = t
    /\ CloseHolding(ctx # "handle", callbacks_, pending_callbacks_, t)
    /\ IF ctx = "handle" THEN HandlerReturns /\ UNCHANGED raised ELSE Throw
    /\ UNCHANGED <<read_bytes_, streaming_callback_, delivered>>
    /\ UNCHANGED <<writeVars, linkVars, peerVars>>

\* recv fails, or the buffer is full: read_to_buffer closes the stream and
\* throws; handle_read closes it again, which runs the close callback
ReadFails(t) ==
    /\ taken' = t
    /\ CloseHolding(ctx # "handle", callbacks_, pending_callbacks_ - 1, t)
    /\ IF ctx = "handle" THEN HandlerReturns /\ UNCHANGED raised ELSE Throw
    /\ UNCHANGED <<read_bytes_, streaming_callback_, delivered>>
    /\ UNCHANGED <<writeVars, linkVars, peerVars>>

RecvError == pc = "recv" /\ Broken /\ ReadFails(taken)

RecvTooMuch ==
    /\ pc = "recv" /\ sent > taken
    /\ taken + Received - consumed >= MaxBuffer
    /\ ReadFails(taken + Received)

ParseCompletes ==
    /\ pc = "parse"
    /\ CompleteRead
    /\ IF ctx = "handle" THEN pc' = "events" /\ UNCHANGED <<ctx, ev>> ELSE CallReturns
    /\ UNCHANGED <<writeVars, linkVars, pollVars, histVars, peerVars>>

ParseKeepsReading ==
    /\ pc = "parse"
    /\ KeepReading
    /\ IF ctx = "handle"
       THEN /\ MaybeRunCloseCallback(open, StreamQueue, StreamPending)
            /\ pc' = "events"
            /\ UNCHANGED <<ctx, ev, pollVars>>
       ELSE /\ MaybeAddErrorListener(StreamQueue, StreamPending)
            /\ CallReturns
    /\ UNCHANGED <<writeVars, linkVars, histVars, peerVars>>
-----------------------------------------------------------------------------
(* Writing: handle_write, called by write() and by handle_events.          *)

SendData ==
    /\ pc = "send" /\ Writing /\ open /\ ~reset /\ space > 0
    /\ LET n == Smaller(Unsent, space)
       IN  accepted' = accepted + n /\ space' = space - n
    /\ UNCHANGED <<write_callback_, written, sent, fin, reset, readVars, linkVars>>
    /\ UNCHANGED <<closeVars, pollVars, threadVars, histVars>>

SendBlocks ==
    /\ pc = "send" /\ Writing /\ open /\ ~reset /\ space = 0
    /\ pc' = "sent"
    /\ UNCHANGED <<ctx, ev, readVars, writeVars, linkVars, closeVars, pollVars>>
    /\ UNCHANGED <<histVars, peerVars>>

SendError ==
    /\ pc = "send" /\ Writing /\ open /\ reset
    /\ CloseNow(callbacks_, pending_callbacks_)
    /\ pc' = "sent"
    /\ UNCHANGED <<read_bytes_, streaming_callback_, taken, ctx, ev>>
    /\ UNCHANGED <<writeVars, linkVars, histVars, peerVars>>

\* socket_->send with socket_ == nullptr
SendCrash ==
    /\ pc = "send" /\ Writing /\ ~open
    /\ pc' = "crashed"
    /\ UNCHANGED <<ctx, ev, readVars, writeVars, linkVars, closeVars, pollVars>>
    /\ UNCHANGED <<histVars, peerVars>>

SendDone ==
    /\ pc = "send" /\ ~Writing
    /\ IF write_callback_
       THEN /\ callbacks_' = Append(callbacks_, Wrapped("write", 0))
            /\ pending_callbacks_' = pending_callbacks_ + 1
       ELSE UNCHANGED <<callbacks_, pending_callbacks_>>
    /\ write_callback_' = FALSE
    /\ pc' = "sent"
    /\ UNCHANGED <<close_callback_, ctx, ev, written, accepted, readVars, linkVars>>
    /\ UNCHANGED <<pollVars, histVars, peerVars>>

\* mutant: write() does not wait for the socket to become writable
WriteReturnsIdle ==
    /\ pc = "sent" /\ ctx # "handle"
    /\ MaybeAddErrorListener(callbacks_, pending_callbacks_)
    /\ CallReturns
    /\ UNCHANGED <<readVars, writeVars, linkVars, histVars, peerVars>>

\* the end of write()
WriteReturns ==
    /\ pc = "sent" /\ ctx # "handle"
    /\ IF Writing /\ open
       THEN AddIOState({WRITE}) /\ UNCHANGED closeVars
       ELSE MaybeAddErrorListener(callbacks_, pending_callbacks_)
    /\ CallReturns
    /\ UNCHANGED <<readVars, writeVars, linkVars, histVars, peerVars>>
-----------------------------------------------------------------------------
(* handle_events                                                           *)

HandleEvents ==
    /\ pc = "loop" /\ polled # {}
    /\ ev' = polled /\ polled' = {} /\ ctx' = "handle"
    /\ IF READ \in polled
       THEN pc' = "recv" /\ pending_callbacks_' = pending_callbacks_ + 1
       ELSE pc' = "events" /\ UNCHANGED pending_callbacks_
    /\ UNCHANGED <<open, state_, watched, edge, callbacks_, close_callback_, readVars>>
    /\ UNCHANGED <<writeVars, linkVars, histVars, peerVars>>

HandleWrite ==
    /\ pc = "events" /\ open /\ WRITE \in ev /\ ~connecting_
    /\ pc' = "send"
    /\ UNCHANGED <<ctx, ev, readVars, writeVars, linkVars, closeVars, pollVars>>
    /\ UNCHANGED <<histVars, peerVars>>

\* handle_connect
ConnectError ==
    /\ pc = "events" /\ open /\ WRITE \in ev /\ connecting_
    /\ Broken
    /\ CloseNow(callbacks_, pending_callbacks_)
    /\ pc' = "connected"
    /\ UNCHANGED <<read_bytes_, streaming_callback_, taken, ctx, ev>>
    /\ UNCHANGED <<writeVars, linkVars, histVars, peerVars>>

ConnectSucceeds ==
    /\ pc = "events" /\ open /\ WRITE \in ev /\ connecting_
    /\ ~Broken
    /\ pc' = "connected"
    /\ UNCHANGED <<ctx, ev, readVars, writeVars, linkVars, closeVars, pollVars>>
    /\ UNCHANGED <<histVars, peerVars>>

\* the rest of handle_connect, the same in both cases; handle_write follows
ConnectDone ==
    /\ pc = "connected"
    /\ IF connect_callback_
       THEN /\ callbacks_' = Append(callbacks_, Wrapped("connect", 0))
            /\ pending_callbacks_' = pending_callbacks_ + 1
       ELSE UNCHANGED <<callbacks_, pending_callbacks_>>
    /\ connect_callback_' = FALSE /\ connecting_' = FALSE
    /\ pc' = "send"
    /\ UNCHANGED <<close_callback_, link, ctx, ev, readVars, writeVars, pollVars>>
    /\ UNCHANGED <<histVars, peerVars>>

NothingToWrite ==
    /\ pc = "events" /\ open /\ WRITE \notin ev
    /\ pc' = "sent"
    /\ UNCHANGED <<ctx, ev, readVars, writeVars, linkVars, closeVars, pollVars>>
    /\ UNCHANGED <<histVars, peerVars>>

HandledClosed ==
    /\ pc \in {"events", "sent"} /\ ctx = "handle" /\ ~open
    /\ HandlerReturns
    /\ UNCHANGED <<readVars, writeVars, linkVars, closeVars, pollVars>>
    /\ UNCHANGED <<histVars, peerVars>>

\* callbacks that were queued run before the stream is closed
HandleError ==
    /\ pc = "sent" /\ ctx = "handle" /\ open /\ ERROR \in ev
    /\ callbacks_' = Append(callbacks_, CloseStream)
    /\ HandlerReturns
    /\ UNCHANGED <<pending_callbacks_, close_callback_, readVars>>
    /\ UNCHANGED <<writeVars, linkVars, pollVars, histVars, peerVars>>

\* mutant: the registration is left as it is
WantedAsBefore == state_

\* mutant: a stream that neither reads nor writes does not listen
WantedOnly == {ERROR} \cup (IF Reading THEN {READ} ELSE {})
                      \cup (IF Writing THEN {WRITE} ELSE {})

Wanted == LET bits == (IF Reading THEN {READ} ELSE {})
                      \cup (IF Writing THEN {WRITE} ELSE {})
          IN  {ERROR} \cup (IF bits = {} THEN {READ} ELSE bits)

UpdateState ==
    /\ pc = "sent" /\ ctx = "handle" /\ open /\ ERROR \notin ev
    /\ state_' = Wanted
    /\ IF Wanted = state_
       THEN UNCHANGED <<watched, edge>>
       ELSE /\ watched' = Wanted
            /\ edge' = (edge \/ Level \cap Wanted # {})
    /\ HandlerReturns
    /\ UNCHANGED <<open, polled, readVars, writeVars, linkVars, closeVars>>
    /\ UNCHANGED <<histVars, peerVars>>

\* update_handler fails: handle_events closes the stream and throws to the loop
UpdateStateThrows ==
    /\ pc = "sent" /\ ctx = "handle" /\ open /\ ERROR \notin ev
    /\ EpollMayFail /\ Wanted # state_
    /\ CloseNow(callbacks_, pending_callbacks_)
    /\ HandlerReturns
    /\ UNCHANGED <<read_bytes_, streaming_callback_, taken>>
    /\ UNCHANGED <<writeVars, linkVars, histVars, peerVars>>
-----------------------------------------------------------------------------
(* The loop.                                                               *)

Poll ==
    /\ pc = "loop" /\ polled = {} /\ edge
    /\ polled' = Level \cap watched
    /\ edge' = FALSE
    /\ UNCHANGED <<open, state_, watched, readVars, writeVars, linkVars, closeVars>>
    /\ UNCHANGED <<threadVars, histVars, peerVars>>

\* callback_wrapper, up to the call
RunCallback ==
    /\ pc = "loop" /\ callbacks_ # <<>> /\ Head(callbacks_) # CloseStream
    /\ callbacks_' = Tail(callbacks_)
    /\ pending_callbacks_' = pending_callbacks_ - 1
    /\ delivered' = IF Head(callbacks_).call \in {"read", "stream"}
                    THEN Head(callbacks_).upto ELSE delivered
    /\ pc' = "user"
    /\ UNCHANGED <<close_callback_, ctx, ev, raised, readVars, writeVars, linkVars>>
    /\ UNCHANGED <<pollVars, peerVars>>

\* mutant: nobody registers the stream after its last callback
CallbackReturnsSilently ==
    /\ pc = "user"
    /\ MaybeRunCloseCallback(open, callbacks_, pending_callbacks_)
    /\ pc' = "loop"
    /\ UNCHANGED <<ctx, ev, pollVars, readVars, writeVars, linkVars, histVars, peerVars>>

\* callback_wrapper, after the call
CallbackReturns ==
    /\ pc = "user"
    /\ MaybeAddErrorListener(callbacks_, pending_callbacks_)
    /\ pc' = "loop"
    /\ UNCHANGED <<ctx, ev, readVars, writeVars, linkVars, histVars, peerVars>>

CallbackThrows ==
    /\ pc = "user"
    /\ CloseNow(callbacks_, pending_callbacks_)
    /\ pc' = "loop"
    /\ UNCHANGED <<read_bytes_, streaming_callback_, taken, ctx, ev>>
    /\ UNCHANGED <<writeVars, linkVars, histVars, peerVars>>

RunCloseStream ==
    /\ pc = "loop" /\ callbacks_ # <<>> /\ Head(callbacks_) = CloseStream
    /\ CloseNow(Tail(callbacks_), pending_callbacks_)
    /\ UNCHANGED <<read_bytes_, streaming_callback_, taken>>
    /\ UNCHANGED <<writeVars, linkVars, threadVars, histVars, peerVars>>

Thread ==
    \/ InlineCompletes \/ InlineReads \/ InlineThrows
    \/ RecvData \/ RecvNothing \/ RecvEOF \/ RecvError \/ RecvTooMuch
    \/ ParseCompletes \/ ParseKeepsReading
    \/ SendData \/ SendBlocks \/ SendError \/ SendCrash \/ SendDone \/ WriteReturns
    \/ HandleEvents \/ HandleWrite \/ ConnectError \/ ConnectSucceeds \/ ConnectDone
    \/ NothingToWrite \/ HandledClosed \/ HandleError
    \/ UpdateState \/ UpdateStateThrows \/ Poll

Events == Poll \/ HandleEvents

RunQueue == RunCallback \/ CallbackReturns \/ RunCloseStream
-----------------------------------------------------------------------------
(* The peer and the kernel.                                                *)

Up == link = "up" /\ open /\ ~reset

\* the kernel puts the descriptor in the ready list for an event it waits for
Wake(bits) ==
    /\ edge' = (edge \/ watched \cap bits # {})
    /\ UNCHANGED <<open, state_, watched, polled, readVars, writeVars, closeVars>>
    /\ UNCHANGED <<threadVars, histVars>>

PeerSends ==
    /\ Up /\ ~fin /\ sent < Inbound
    /\ sent' = sent + 1
    /\ Wake({READ})
    /\ UNCHANGED <<fin, reset, space, linkVars>>

PeerCloses ==
    /\ Up /\ ~fin
    /\ fin' = TRUE
    /\ Wake({READ})
    /\ UNCHANGED <<sent, reset, space, linkVars>>

PeerResets ==
    /\ Failures /\ Up
    /\ reset' = TRUE
    /\ Wake({READ, WRITE, ERROR})
    /\ UNCHANGED <<sent, fin, space, linkVars>>

PeerReads ==
    /\ Up /\ space < SendBuffer
    /\ space' = SendBuffer
    /\ Wake(IF space = 0 THEN {WRITE} ELSE {})
    /\ UNCHANGED <<sent, fin, reset, linkVars>>

ConnectEnds(outcome) ==
    /\ link = "connecting" /\ open
    /\ link' = outcome
    /\ Wake({WRITE, ERROR})
    /\ UNCHANGED <<connect_callback_, connecting_, peerVars>>

Peer == \/ PeerSends \/ PeerCloses \/ PeerResets \/ PeerReads
        \/ ConnectEnds("up")
        \/ Failures /\ ConnectEnds("failed")

Next == User \/ Thread \/ RunQueue \/ CallbackThrows \/ Peer

Spec == Init /\ [][Next]_vars

\* the loop runs its callbacks and dispatches its events, user code returns,
\* and the peer reads what was sent to it
FairSpec == /\ Spec
            /\ WF_vars(Thread) /\ SF_vars(RunQueue) /\ SF_vars(Events)
            /\ WF_vars(PeerReads)
-----------------------------------------------------------------------------
(* Correctness.                                                            *)

Calls == {"read", "stream", "write", "connect", "close", "IOStream::close"}
Items == [call : Calls, upto : 0..Inbound]

\* Every variable has its type; in particular the buffers hold what was received
\* and not consumed, written and not accepted, and an event that waits is one
\* that the stream is registered for.
TypeOK ==
    /\ open \in BOOLEAN /\ edge \in BOOLEAN
    /\ state_ \subseteq {READ, WRITE, ERROR}
    /\ watched \subseteq state_ /\ polled \subseteq watched
    /\ request \in {"none", "bytes", "until", "regex", "close", "lost"}
    /\ read_bytes_ \in 0..Inbound
    /\ streaming_callback_ \in BOOLEAN /\ write_callback_ \in BOOLEAN
    /\ close_callback_ \in BOOLEAN /\ connect_callback_ \in BOOLEAN
    /\ connecting_ \in BOOLEAN
    /\ pending_callbacks_ \in Nat
    /\ callbacks_ \in Seq(Items)
    /\ consumed \in 0..taken /\ taken \in 0..sent /\ sent \in 0..Inbound
    /\ accepted \in 0..written /\ written \in 0..Outbound
    /\ space \in 0..SendBuffer
    /\ fin \in BOOLEAN /\ reset \in BOOLEAN /\ raised \in BOOLEAN
    /\ delivered \in 0..consumed
    /\ link \in {"new", "connecting", "up", "failed"}
    /\ pc \in {"loop", "user", "inline", "recv", "parse", "events", "connected",
              "send", "sent", "crashed"}
    /\ ctx \in {"loop", "user", "handle"} /\ ev \subseteq {READ, WRITE, ERROR}

\* pending_callbacks_ counts the wrapped callbacks in the loop's queue, and one
\* more while handle_read or try_inline_read pretends to have one; every path,
\* the throwing ones included, takes back what it added.  A count too high
\* loses the close callback, one too low runs it before data.
PendingAccounts ==
    pending_callbacks_ = Cardinality({i \in DOMAIN callbacks_ :
                                         callbacks_[i] # CloseStream})
                         + (IF pc = "recv" THEN 1 ELSE 0)

IsData(e) == e.call \in {"read", "stream"}

\* The callbacks hand the bytes to the user in the order in which they came,
\* none is lost between the buffer, the queue and the user: what the queue
\* holds begins where the last callback ended and ends where the buffer begins.
DataInOrder ==
    LET data    == {i \in DOMAIN callbacks_ : IsData(callbacks_[i])}
        upto(i) == callbacks_[i].upto
    IN  /\ \A i \in data : upto(i) \in delivered..consumed
        /\ \A i, j \in data : i < j => upto(i) <= upto(j)
        /\ \A i \in data : (\A j \in data : j <= i) => upto(i) = consumed
        /\ data = {} => delivered = consumed

\* The close callback is queued when no other callback of the stream waits:
\* data that was read before the end is delivered first
\* (maybe_run_close_callback, "if there are pending callbacks, don't run the
\* close callback until they're done").
CloseCallbackWaits ==
    [][close_callback_ /\ ~close_callback_' =>
          \A i \in DOMAIN callbacks_' : callbacks_'[i].call \in {"close", "IOStream::close"}]_vars

\* A close callback that is still set when the stream is closed has a callback to
\* wait for, at whose end it is queued: on every path that closes, a failed read or
\* registration and a full buffer included.  But for an Error that left a read
\* made outside of the stream's callbacks (raised).
CloseCallbackIsOwed ==
    pc = "loop" /\ ~open /\ close_callback_ => pending_callbacks_ > 0 \/ raised

\* An open stream that has been used and waits for no callback of its own is
\* registered with the loop; otherwise nobody would notice that the peer goes
\* away (add_io_state, "To detect closed connections").  Only a failed epoll_ctl
\* can have left it without; state_ then says that it was tried.
ListensWhenIdle ==
    pc = "loop" /\ open /\ watched = {} /\ pending_callbacks_ = 0
        => \/ ~Reading /\ taken = 0 /\ written = 0
           \/ EpollMayFail /\ state_ # {}

\* A stream that is closed is not registered and has no event waiting: its
\* descriptor's number may be another stream's by now.
ClosedIsUnregistered == ~open => state_ = {} /\ watched = {} /\ polled = {} /\ ~edge

\* A user who writes without end, each time from the callback of the last write:
\* the stream has a callback pending at all times and need not register.
WritesForEver ==
    []<><<\E n \in 0..Outbound, callback \in BOOLEAN : Write(n, callback)>>_vars

\* A user who goes on reading from a stream that is closed.
ReadsClosedForEver ==
    []<><<\E streaming \in BOOLEAN : ReadUntilCloseWhenClosed(streaming)>>_vars

\* The bytes a read waits for bring its callback, in whatever pieces and at
\* whatever moment they arrive (edge-triggered, an edge is not repeated),
\* unless the stream is closed or has output that the socket does not take.
\* Reads with a streaming callback and reads of 0 bytes are left out: they do
\* not end when they should (ReadBytesEnds).
BytesAreRead ==
    LET BytesAreThere == /\ request = "bytes" /\ ~streaming_callback_ /\ read_bytes_ > 0
                         /\ sent - consumed >= read_bytes_
    IN  WritesForEver \/ (BytesAreThere ~> (request # "bytes" \/ ~open \/ Writing))

\* What is written, before the connection is up or after, goes out when the
\* peer reads, unless the stream is closed.
WritesFinish == Writing /\ link = "up" ~> (~Writing \/ ~open)

\* When the peer closes, a registered stream is closed.
PeerCloseIsNoticed == fin /\ watched # {} ~> ~open

\* The close callback is scheduled once the stream is closed, by the user, the
\* peer, an error or a full buffer, unless the close was reported by an Error
\* from a read outside of the stream's callbacks, or the process
\* has ended (NoDeletedSocket).
CloseCallbackRuns ==
    \/ ReadsClosedForEver
    \/ ~open /\ close_callback_ ~> (~close_callback_ \/ raised \/ pc = "crashed")

\* A read that waits is registered for READ; or, when it began while output was
\* blocked, will be: the socket takes nothing yet, or the event that says it does
\* is on its way, and handle_events then registers the read.  But for a stream that
\* is about to be closed, or has a registration that epoll refused.
WaitingReadListens ==
    pc = "loop" /\ open /\ Reading /\ pending_callbacks_ = 0 /\ ~connecting_ /\ watched = state_
        => \/ READ \in state_
           \/ WRITE \in state_ /\ (space = 0 \/ edge \/ polled # {})
           \/ CloseStream \in {callbacks_[i] : i \in DOMAIN callbacks_}

\* iostream.h:52, "it is safe to call IOStream.write while the connection is
\* pending": the socket is not used after it was deleted.
NoDeletedSocket == pc # "crashed"

\* iostream.h:67, "Call callback when we read the given delimiter": looking for
\* a delimiter that has not come yet must end.
SearchEnds == ~(pc \in {"inline", "parse"} /\ Spins)

\* iostream.h:72, "Call callback when we read the given number of bytes", with a
\* streaming callback, too, where "the argument to the final callback will be
\* empty": a read that is still in progress lacks some of its bytes.
ReadBytesEnds == pc = "loop" /\ open /\ request = "bytes" => read_bytes_ > 0

\* iostream.h:151, "If the read can be completed without blocking, schedules
\* the read callback on the next IOLoop iteration; otherwise starts listening
\* for reads on the socket": at once, and not when the output is gone.
ReadListens ==
    pc = "loop" /\ open /\ Reading /\ pending_callbacks_ = 0 /\ ~connecting_
        => READ \in watched

=============================================================================

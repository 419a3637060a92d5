---------------------------- MODULE HTTPConnection ----------------------------
(***************************************************************************)
(* core/httpserver.cc: one HTTPConnection, from the handle_stream that     *)
(* makes it to the free that its close() queues, with the user's handler,  *)
(* the peer, and as much of its IOStream as it sees: one read at a time,   *)
(* output that is sent, blocked or lost, and callbacks that run in the     *)
(* order of the loop's queue (IOStream is the stream in detail).           *)
(*                                                                         *)
(* The peer's bytes come in parts, the head of a request and its body.     *)
(* Of a request the fields are kept on which the connection decides.       *)
(***************************************************************************)
EXTENDS Naturals, Sequences

CONSTANTS Requests,     \* the requests a peer may send
          MaxRequests,  \* bound: requests on the connection
          MaxPending,   \* bound: callbacks waiting when the user writes
          StreamFaults  \* the stream may fail

Kinds == [line       : {"ok", "malformed"},    \* three words, HTTP/ in front
          http11     : BOOLEAN,                \* HTTP/1.1 to the letter
          method     : {"GET", "POST"},        \* as well as HEAD; PATCH and PUT
          connection : {"none", "close", "keep-alive"},
          length     : {"none", "zero", "fits", "long"},
          expect     : BOOLEAN,                \* Expect: 100-continue
          boundless  : BOOLEAN]                \* a multipart form, boundary empty

ASSUME HTTPAssumption ==
    /\ Requests \subseteq Kinds
    /\ MaxRequests \in Nat /\ MaxPending \in Nat \ {0} /\ StreamFaults \in BOOLEAN

VARIABLES no_keep_alive_, request_, request_finished_,
          write_callback_,  \* the user's, whether it is set
          open,             \* stream_->closed() is false
          reading,          \* what the stream reads: its read_callback_
          unsent,           \* whose output write_buffer_ holds, 0: nobody's
          streamCallback,   \* the stream's write_callback_ is set
          inbox,            \* parts that no read has taken yet
          due,              \* the request whose body the peer still sends
          sentRequests, fin,
          callbacks_,       \* the loop's queue
          pc, ctx,          \* where the thread is; where a read returns to
          held,             \* the user has the request and has not finished it
          served,           \* history: number of the last request handed over
          deleted

streamVars == <<open, reading, unsent, streamCallback, inbox>>
peerVars   == <<due, sentRequests, fin>>
connVars   == <<no_keep_alive_, request_, request_finished_, write_callback_,
                streamVars, peerVars, callbacks_, pc, ctx, held, served, deleted>>

Null == [n |-> 0]
Numbered(r, k) ==
    [n |-> k, line |-> r.line, http11 |-> r.http11, method |-> r.method,
     connection |-> r.connection, length |-> r.length, expect |-> r.expect,
     boundless |-> r.boundless]
Part(part, request) == [part |-> part, request |-> request]
Call(name)          == [call |-> name, data |-> Part("none", Null)]
Given(name, part)   == [call |-> name, data |-> part]

ConnInit ==
    /\ no_keep_alive_ \in BOOLEAN
    /\ request_ = Null /\ request_finished_ = FALSE /\ write_callback_ = FALSE
    /\ open = TRUE /\ reading = "none" /\ unsent = 0 /\ streamCallback = FALSE
    /\ inbox = <<>> /\ due = Null /\ sentRequests = 0 /\ fin = FALSE
    /\ callbacks_ = <<>> /\ pc = "new" /\ ctx = "loop"
    /\ held = FALSE /\ served = 0 /\ deleted = FALSE

\* HTTPServer::handle_stream and the constructor, up to its read_until
HandleStream ==
    /\ pc = "new"
    /\ pc' = "readhead"
    /\ UNCHANGED <<no_keep_alive_, request_, request_finished_, write_callback_,
                   streamVars, peerVars, callbacks_, ctx, held, served, deleted>>
-----------------------------------------------------------------------------
(* The stream.                                                             *)

\* the first part that ends the read: a body has the announced length, a head
\* ends with the delimiter; a length of 0 is waited for for ever
Ends(kind) ==
    IF kind = "body"
    THEN {i \in DOMAIN inbox : i = 1 /\ request_.length # "zero"}
    ELSE {i \in DOMAIN inbox : inbox[i].part = "head"}

Completes(kind, callback) ==
    /\ Ends(kind) # {}
    /\ LET i == CHOOSE k \in Ends(kind) : \A j \in Ends(kind) : k <= j
       IN  /\ callbacks_' = Append(callbacks_, Given(callback, inbox[1]))
           /\ inbox' = SubSeq(inbox, i + 1, Len(inbox))
    /\ reading' = "none"

CallbackOf(kind) == IF kind = "body" THEN "on_request_body" ELSE "on_headers"

\* read_until and read_bytes: the thread is in try_inline_read
Starting == CASE pc = "readhead" -> "headers"
              [] pc = "readbody" -> "body"
              [] OTHER           -> "none"
Returns  == pc' = ctx /\ ctx' = "loop"

\* the end of the stream can be read with the data
ReadCompletes ==
    /\ Starting # "none"
    /\ Completes(Starting, CallbackOf(Starting))
    /\ open' \in {open, open /\ ~fin}
    /\ Returns
    /\ UNCHANGED <<no_keep_alive_, request_, request_finished_, write_callback_,
                   unsent, streamCallback, peerVars, held, served, deleted>>

ReadWaits ==
    /\ Starting # "none" /\ Ends(Starting) = {} /\ open
    /\ reading' = Starting
    /\ open' = ~fin
    /\ Returns
    /\ UNCHANGED <<no_keep_alive_, request_, request_finished_, write_callback_,
                   unsent, streamCallback, inbox, peerVars, callbacks_, held,
                   served, deleted>>

\* the stream is closed, or recv fails: the Error leaves the handler, whose
\* wrapper closes the stream; the connection stays as it is
ReadThrows ==
    /\ Starting # "none"
    /\ \/ ~open /\ Ends(Starting) = {} /\ UNCHANGED inbox
       \/ open /\ StreamFaults /\ inbox' = <<>>
    /\ open' = FALSE
    /\ reading' = Starting
    /\ pc' = "loop" /\ ctx' = "loop"
    /\ UNCHANGED <<no_keep_alive_, request_, request_finished_, write_callback_,
                   unsent, streamCallback, peerVars, callbacks_, held, served, deleted>>

\* events of the socket, and those callbacks of the stream that end in it
StreamReads ==
    /\ pc = "loop" /\ open /\ reading # "none"
    /\ Completes(reading, CallbackOf(reading))
    /\ open' \in {TRUE, ~fin}
    /\ UNCHANGED <<no_keep_alive_, request_, request_finished_, write_callback_,
                   unsent, streamCallback, peerVars, pc, ctx, held, served, deleted>>

StreamEnds ==
    /\ pc = "loop" /\ open /\ fin
    /\ reading = "none" \/ Ends(reading) = {}
    /\ open' = FALSE
    /\ UNCHANGED <<no_keep_alive_, request_, request_finished_, write_callback_,
                   reading, unsent, streamCallback, inbox, peerVars, callbacks_, pc,
                   ctx, held, served, deleted>>

StreamDrains ==
    /\ pc = "loop" /\ open /\ unsent # 0
    /\ unsent' = 0
    /\ callbacks_' = IF streamCallback THEN Append(callbacks_, Call("on_write_complete"))
                     ELSE callbacks_
    /\ streamCallback' = FALSE
    /\ UNCHANGED <<no_keep_alive_, request_, request_finished_, write_callback_,
                   open, reading, inbox, peerVars, pc, ctx, held, served, deleted>>

\* an error event queues IOStream::close behind the callbacks that wait
StreamErrs ==
    /\ StreamFaults /\ pc = "loop" /\ open /\ Len(callbacks_) < MaxPending
    /\ callbacks_' = Append(callbacks_, Call("IOStream::close"))
    /\ UNCHANGED <<no_keep_alive_, request_, request_finished_, write_callback_,
                   streamVars, peerVars, pc, ctx, held, served, deleted>>

RunStreamClose ==
    /\ pc = "loop" /\ callbacks_ # <<>> /\ Head(callbacks_).call = "IOStream::close"
    /\ open' = FALSE
    /\ callbacks_' = Tail(callbacks_)
    /\ UNCHANGED <<no_keep_alive_, request_, request_finished_, write_callback_,
                   reading, unsent, streamCallback, inbox, peerVars, pc, ctx, held,
                   served, deleted>>

\* mutant: the callback of a write that is complete is kept
StreamWriteKeeps(n, callback) ==
    \/ /\ unsent' = 0 /\ streamCallback' = callback
       /\ callbacks_' = IF callback THEN Append(callbacks_, Call("on_write_complete"))
                        ELSE callbacks_
       /\ UNCHANGED open
    \/ unsent' = n /\ streamCallback' = callback /\ UNCHANGED <<open, callbacks_>>

\* stream_->write: all of it is sent, or some is left, or send fails, which
\* closes the stream and leaves the output where it is
StreamWrite(n, callback) ==
    \/ /\ unsent' = 0 /\ streamCallback' = FALSE
       /\ callbacks_' = IF callback THEN Append(callbacks_, Call("on_write_complete"))
                        ELSE callbacks_
       /\ UNCHANGED open
    \/ /\ unsent' = n /\ streamCallback' = callback
       /\ UNCHANGED callbacks_
       /\ \/ UNCHANGED open
          \/ StreamFaults /\ open' = FALSE
-----------------------------------------------------------------------------
(* The connection.  rest is the queue as the caller has left it.           *)

\* mutant: the connection and its stream are deleted at once
ConnCloseDeletes(rest) ==
    /\ open' = FALSE
    /\ callbacks_' = rest
    /\ deleted' = TRUE

\* close(); header_callback_ is not used after it
ConnClose(rest) ==
    /\ open' = FALSE
    /\ callbacks_' = Append(rest, Call("free"))
    /\ UNCHANGED deleted

\* Which connections end with the request.
Disconnects(r) ==
    \/ no_keep_alive_
    \/ IF r.http11 THEN r.connection = "close"
       ELSE IF r.length # "none" \/ r.method = "GET" THEN r.connection # "keep-alive"
       ELSE TRUE

\* finish_request(); a connection that is kept reads the next head
FinishRequest(back, rest) ==
    /\ request_' = Null /\ request_finished_' = FALSE
    /\ IF Disconnects(request_)
       THEN ConnClose(rest) /\ pc' = back /\ UNCHANGED ctx
       ELSE /\ pc' = "readhead" /\ ctx' = back
            /\ callbacks_' = rest /\ UNCHANGED <<open, deleted>>

HandOver ==
    /\ held' = TRUE /\ served' = served + 1
    /\ pc' = "user"

Running(name) == pc = "loop" /\ callbacks_ # <<>> /\ Head(callbacks_).call = name

\* the request line has no three words, or no version; what a read of the next
\* head returns when it starts with the rest of a body is of this kind
OnHeadersMalformed ==
    /\ Running("on_headers")
    /\ LET data == Head(callbacks_).data
       IN  data.part = "body" \/ data.request.line = "malformed"
    /\ ConnClose(Tail(callbacks_))
    /\ UNCHANGED <<no_keep_alive_, request_, request_finished_, write_callback_,
                   reading, unsent, streamCallback, inbox, peerVars, pc, ctx, held, served>>

\* stream_->socket_->family_ when the end of the stream came with the head
OnHeadersCrash ==
    /\ Running("on_headers") /\ ~open
    /\ Head(callbacks_).data.part = "head"
    /\ Head(callbacks_).data.request.line = "ok"
    /\ pc' = "crashed"
    /\ UNCHANGED <<no_keep_alive_, request_, request_finished_, write_callback_,
                   streamVars, peerVars, callbacks_, ctx, held, served, deleted>>

\* mutant: a body is read only for the methods that use it
HasBodyByMethod(r) == r.length # "none" /\ r.method = "POST"

HasBody(r) == r.length # "none"

OnHeaders ==
    /\ Running("on_headers") /\ open
    /\ Head(callbacks_).data.part = "head"
    /\ LET r == Head(callbacks_).data.request
       IN  /\ r.line = "ok"
           /\ request_' = r
           /\ \/ /\ ~HasBody(r)
                 /\ HandOver
                 /\ callbacks_' = Tail(callbacks_)
                 /\ UNCHANGED <<open, ctx, deleted>>
              \/ /\ HasBody(r) /\ r.length = "long"
                 /\ ConnClose(Tail(callbacks_))
                 /\ UNCHANGED <<pc, ctx, held, served>>
              \/ /\ HasBody(r) /\ r.length # "long"
                 /\ pc' = IF r.expect THEN "continue" ELSE "readbody"
                 /\ ctx' = "loop"
                 /\ callbacks_' = Tail(callbacks_)
                 /\ UNCHANGED <<open, held, served, deleted>>
    /\ UNCHANGED <<no_keep_alive_, request_finished_, write_callback_, reading,
                   unsent, streamCallback, inbox, peerVars>>

\* the 100 (Continue) that on_headers writes before read_bytes, without callback
Continue ==
    /\ pc = "continue"
    /\ StreamWrite(request_.n, FALSE)
    /\ pc' = "readbody"
    /\ UNCHANGED <<no_keep_alive_, request_, request_finished_, write_callback_,
                   reading, inbox, peerVars, ctx, held, served, deleted>>

\* on_request_body looks for a form in the body
FormThrows == request_.method = "POST" /\ request_.boundless

\* boundary[0] of an empty boundary throws what no handler in the loop catches
OnRequestBodyCrash ==
    /\ Running("on_request_body") /\ FormThrows
    /\ pc' = "crashed"
    /\ UNCHANGED <<no_keep_alive_, request_, request_finished_, write_callback_,
                   streamVars, peerVars, callbacks_, ctx, held, served, deleted>>

OnRequestBody ==
    /\ Running("on_request_body") /\ ~FormThrows
    /\ HandOver
    /\ callbacks_' = Tail(callbacks_)
    /\ UNCHANGED <<no_keep_alive_, request_, request_finished_, write_callback_,
                   streamVars, peerVars, ctx, deleted>>

\* mutant: a finished request is not looked at
AfterWriteIgnores(rest) ==
    /\ callbacks_' = rest /\ pc' = "loop"
    /\ UNCHANGED <<request_, request_finished_, open, ctx, deleted>>

\* mutant: output that another callback has written meanwhile is not looked at
AfterWriteAtOnce(rest) ==
    IF request_finished_ THEN FinishRequest("loop", rest)
    ELSE callbacks_' = rest /\ pc' = "loop"
         /\ UNCHANGED <<request_, request_finished_, open, ctx, deleted>>

\* on_write_complete, after the user's callback
AfterWrite(rest) ==
    IF request_finished_ /\ unsent = 0 THEN FinishRequest("loop", rest)
    ELSE callbacks_' = rest /\ pc' = "loop"
         /\ UNCHANGED <<request_, request_finished_, open, ctx, deleted>>

\* on_write_complete; the user's callback of an earlier write may be replaced
OnWriteComplete ==
    /\ Running("on_write_complete")
    /\ IF write_callback_
       THEN /\ write_callback_' = FALSE
            /\ pc' = "written"
            /\ callbacks_' = Tail(callbacks_)
            /\ UNCHANGED <<request_, request_finished_, open, ctx, deleted>>
       ELSE AfterWrite(Tail(callbacks_)) /\ UNCHANGED write_callback_
    /\ UNCHANGED <<no_keep_alive_, reading, unsent, streamCallback, inbox, peerVars,
                   held, served>>

\* free(): the connection deletes its stream
RunFree ==
    /\ Running("free")
    /\ deleted' = TRUE
    /\ callbacks_' = Tail(callbacks_)
    /\ UNCHANGED <<no_keep_alive_, request_, request_finished_, write_callback_,
                   streamVars, peerVars, pc, ctx, held, served>>
-----------------------------------------------------------------------------
(* The user: in the request callback, in a write callback, or elsewhere in *)
(* the loop.  A user leaves a request alone that it has finished.          *)

UserCode == held /\ pc \in {"user", "written", "loop"}

\* write() on a stream that is closed does nothing
Write(callback) ==
    /\ UserCode /\ open /\ Len(callbacks_) < MaxPending
    /\ write_callback_' = callback
    /\ StreamWrite(request_.n, TRUE)
    /\ UNCHANGED <<no_keep_alive_, request_, request_finished_, reading, inbox,
                   peerVars, pc, ctx, held, served, deleted>>

Finish ==
    /\ UserCode
    /\ held' = FALSE
    /\ IF unsent = 0 THEN FinishRequest(pc, callbacks_)
       ELSE /\ request_finished_' = TRUE
            /\ UNCHANGED <<request_, open, callbacks_, pc, ctx, deleted>>
    /\ UNCHANGED <<no_keep_alive_, write_callback_, reading, unsent, streamCallback,
                   inbox, peerVars, served>>

UserReturns ==
    /\ \/ /\ pc = "user" /\ pc' = "loop"
          /\ UNCHANGED <<request_, request_finished_, open, callbacks_, ctx, deleted>>
       \/ pc = "written" /\ AfterWrite(callbacks_)
    /\ UNCHANGED <<no_keep_alive_, write_callback_, reading, unsent, streamCallback,
                   inbox, peerVars, held, served>>
-----------------------------------------------------------------------------
(* The peer, which need not wait for an answer before the next request.    *)

PeerSendsHead(r) ==
    /\ pc # "new" /\ open /\ ~fin /\ due = Null /\ sentRequests < MaxRequests
    /\ LET request == Numbered(r, sentRequests + 1)
       IN  /\ inbox' = Append(inbox, Part("head", request))
           /\ due' = IF r.length = "fits" THEN request ELSE Null
    /\ sentRequests' = sentRequests + 1
    /\ UNCHANGED <<no_keep_alive_, request_, request_finished_, write_callback_, open,
                   reading, unsent, streamCallback, fin, callbacks_, pc, ctx, held,
                   served, deleted>>

PeerSendsBody ==
    /\ open /\ ~fin /\ due # Null
    /\ inbox' = Append(inbox, Part("body", due))
    /\ due' = Null
    /\ UNCHANGED <<no_keep_alive_, request_, request_finished_, write_callback_, open,
                   reading, unsent, streamCallback, sentRequests, fin, callbacks_, pc,
                   ctx, held, served, deleted>>

PeerCloses ==
    /\ pc # "new" /\ open /\ ~fin
    /\ fin' = TRUE
    /\ UNCHANGED <<no_keep_alive_, request_, request_finished_, write_callback_,
                   streamVars, due, sentRequests, callbacks_, pc, ctx, held, served,
                   deleted>>

Peer == (\E r \in Requests : PeerSendsHead(r)) \/ PeerSendsBody \/ PeerCloses

Thread == \/ HandleStream \/ ReadCompletes \/ ReadWaits \/ ReadThrows
          \/ OnHeadersMalformed \/ OnHeadersCrash \/ OnHeaders \/ Continue
          \/ OnRequestBody \/ OnRequestBodyCrash \/ OnWriteComplete \/ RunFree
          \/ RunStreamClose \/ UserReturns

User == (\E callback \in BOOLEAN : Write(callback)) \/ Finish

ConnNext == Thread \/ User \/ Peer \/ StreamReads \/ StreamEnds \/ StreamDrains
                   \/ StreamErrs

\* the loop runs its callbacks, a callback returns, and the peer reads what is
\* sent to it
ConnFairness == WF_connVars(Thread) /\ WF_connVars(StreamDrains)

ConnSpec == ConnInit /\ [][ConnNext]_connVars /\ ConnFairness
-----------------------------------------------------------------------------
(* Correctness.                                                            *)

Names == {"on_headers", "on_request_body", "on_write_complete", "free",
          "IOStream::close"}

\* Every variable has its type, and the stream's write callback waits only for
\* output that is there: one that outlived it would be run for another request.
ConnTypeOK ==
    /\ no_keep_alive_ \in BOOLEAN /\ request_finished_ \in BOOLEAN
    /\ write_callback_ \in BOOLEAN /\ open \in BOOLEAN /\ fin \in BOOLEAN
    /\ held \in BOOLEAN /\ deleted \in BOOLEAN /\ streamCallback \in BOOLEAN
    /\ request_.n \in 0..sentRequests /\ due.n \in 0..sentRequests
    /\ sentRequests \in 0..MaxRequests /\ served \in 0..sentRequests
    /\ unsent \in 0..sentRequests
    /\ reading \in {"none", "headers", "body"}
    /\ \A i \in DOMAIN callbacks_ : callbacks_[i].call \in Names
    /\ pc \in {"new", "loop", "user", "written", "readhead", "readbody", "continue",
              "crashed"}
    /\ ctx \in {"loop", "user", "written"}
    /\ streamCallback => unsent # 0

\* When free() deletes the connection and its stream, no callback of either is
\* left in the loop's queue: close() queues free() instead of deleting at once
\* because completed writes and error events may have left some.
FreedLast == deleted => callbacks_ = <<>>

\* The connection's reads keep in step with the peer's requests: none is started
\* while another waits and would lose its callback (the ASSERT there only logs),
\* a head is read where one begins, not in the body of the request before, and
\* the request that the user holds is the one that the connection is at.
ReadsInStep ==
    /\ Starting # "none" => reading = "none"
    /\ \A i \in DOMAIN callbacks_ :
          callbacks_[i].call = "on_headers" => callbacks_[i].data.part = "head"
    /\ held => request_.n = served /\ ~request_finished_

\* The user gets the peer's requests one after the other, none skipped and
\* none twice, though the peer pipelines them and bodies lie between the heads;
\* and when it gets one, all that was answered to earlier ones is sent.
AnswersInOrder ==
    [][served' # served =>
          /\ request_'.n = served + 1
          /\ unsent' \in {0, request_'.n}]_connVars

Queued(name) == \E i \in DOMAIN callbacks_ : callbacks_[i].call = name

\* The request is over: the next head is read or the connection freed; or the
\* stream broke before, after which nothing ends it.
Ended == \/ deleted
         \/ open /\ ~request_finished_
         \/ ~open /\ ~Queued("free")

\* A request that the user finished while its output was waiting ends when the
\* peer has read the output: on_write_complete, which may run before that for an
\* earlier write and with other output waiting, is run again and ends it.
FinishEnds ==
    request_finished_ /\ (streamCallback \/ Queued("on_write_complete")) ~> Ended

\* The comment in on_write_complete: "If there is still data in the IOStream, a
\* future on_write_complete will be responsible for calling finish_request", of
\* any finish().  The 100 (Continue) is data without an on_write_complete.
FutureWriteCompletes == request_finished_ ~> Ended
=============================================================================

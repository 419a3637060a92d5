---------------------------- MODULE MCHTTPServer ----------------------------
(***************************************************************************)
(* An instance of TCPServer and HTTPConnection for TLC: the server accepts *)
(* and then one of its connections is served, which shares nothing with    *)
(* the server or with the other connections but the thread.                *)
(***************************************************************************)
EXTENDS TCPServer, HTTPConnection

\* a request without body whose other fields are those given
Get(http11, connection) ==
    [line |-> "ok", http11 |-> http11, method |-> "GET", connection |-> connection,
     length |-> "none", expect |-> FALSE, boundless |-> FALSE]
Post(length, expect) ==
    [line |-> "ok", http11 |-> TRUE, method |-> "POST", connection |-> "none",
     length |-> length, expect |-> expect, boundless |-> FALSE]

\* every branch of on_headers and on_request_body and of the keep-alive decision
SomeRequests ==
    {Get(TRUE, "none"), Get(TRUE, "close"), Get(FALSE, "keep-alive"),
     [Get(TRUE, "none") EXCEPT !.length = "fits"],
     [Get(TRUE, "none") EXCEPT !.line = "malformed"],
     [Post("none", FALSE) EXCEPT !.http11 = FALSE],
     Post("zero", FALSE), Post("fits", TRUE), Post("long", FALSE),
     [Post("fits", FALSE) EXCEPT !.boundless = TRUE]}

\* one state in which the server has accepted a client, for all such states
FirstClient == CHOOSE c \in Clients : TRUE
AnySocket == [fd |-> CHOOSE fd \in Descriptors : TRUE, n |-> 1]
Served ==
    /\ accepted = <<FirstClient>> /\ listening = {AnySocket} /\ handler = listening
    /\ accepting = NoSocket /\ edge = {} /\ faulty = {} /\ ~started_

Init == ServerInit /\ ConnInit
Next == \/ ServerNext /\ pc = "new" /\ UNCHANGED connVars
        \/ Served /\ ConnNext /\ UNCHANGED serverVars
Spec == Init /\ [][Next]_<<serverVars, connVars>> /\ ConnFairness
=============================================================================

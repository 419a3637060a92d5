------------------------------- MODULE TCPServer -------------------------------
(***************************************************************************)
(* core/tcpserver.cc: the listening sockets of a server, their entries in  *)
(* the edge-triggered epoll of the loop, and the accept loop.  A listening *)
(* socket is the pair of its descriptor and its number; the kernel gives a *)
(* descriptor out again once it is closed.                                 *)
(***************************************************************************)
EXTENDS Naturals, Sequences, Functions

CONSTANTS Descriptors,   \* descriptors of listening sockets
          Clients,       \* peers that connect, once each
          MaxSockets,    \* bound: listening sockets made in all
          AcceptFaults,  \* accept may fail (ECONNABORTED, EMFILE ...)
          RegisterFaults \* epoll_ctl may refuse a socket (ENOSPC, ENOMEM)

ASSUME ServerAssumption ==
    /\ MaxSockets \in Nat /\ AcceptFaults \in BOOLEAN /\ RegisterFaults \in BOOLEAN
    /\ {"none", "nullptr"} \cap Descriptors = {}

VARIABLES sockets_,          \* the map from descriptors; Deleted is nullptr
          pending_sockets_, started_,
          made,              \* sockets made so far
          listening,         \* kernel: sockets that listen
          handler,           \* the sockets that the loop's epoll watches
          backlog,           \* kernel: who waits on a descriptor
          edge,              \* kernel: descriptors in epoll's ready list
          accepting,         \* the socket whose accept_handler runs
          outcome,           \* "running", or how the program ended
          accepted,          \* history: clients given to handle_stream
          faulty             \* history: descriptors where accept has failed

serverVars == <<sockets_, pending_sockets_, started_, made, listening, handler,
                backlog, edge, accepting, outcome, accepted, faulty>>

NoSocket == [fd |-> "none", n |-> 0]
Deleted  == [fd |-> "nullptr", n |-> 0]

FdsOf(list) == {s.fd : s \in Range(list)}

ServerInit ==
    /\ sockets_ = <<>> /\ pending_sockets_ = <<>> /\ started_ = FALSE
    /\ made = 0 /\ listening = {} /\ handler = {}
    /\ backlog = [fd \in Descriptors |-> <<>>] /\ edge = {}
    /\ accepting = NoSocket /\ outcome = "running" /\ accepted = <<>> /\ faulty = {}

\* the server's code runs on the loop's thread
Idle == outcome = "running" /\ accepting = NoSocket
-----------------------------------------------------------------------------
\* bind_sockets, with an address that resolves to one socket (the list it makes
\* is added or kept as a whole); the lowest free descriptor is an arbitrary one
BindSocket(fd) ==
    /\ made < MaxSockets
    /\ \A s \in listening : s.fd # fd
    /\ made' = made + 1
    /\ listening' = listening \cup {[fd |-> fd, n |-> made + 1]}
    /\ faulty' = faulty \ {fd}

\* map::insert leaves an entry that is there; the sockets of a list are all open, so
\* that their descriptors differ
Inserted(entries, list) ==
    [fd \in DOMAIN entries \cup FdsOf(list) |->
        IF fd \in DOMAIN entries THEN entries[fd] ELSE CHOOSE s \in Range(list) : s.fd = fd]

\* Sockets come into epoll; one that has a backlog already is ready at once.
Registers(list) ==
    /\ handler' = handler \cup Range(list)
    /\ edge' = edge \cup {fd \in FdsOf(list) : backlog[fd] # <<>>}

\* add_sockets: each is entered and registered
AddSockets(list) ==
    /\ sockets_' = Inserted(sockets_, list)
    /\ Registers(list)

\* add_handler throws for one of them, which is entered all the same; it and the
\* rest of the list go on listening, and no event tells of their clients
AddSocketsFails(list) ==
    /\ RegisterFaults
    /\ \E i \in DOMAIN list :
          /\ sockets_' = Inserted(sockets_, SubSeq(list, 1, i))
          /\ Registers(SubSeq(list, 1, i - 1))

Listen(fd) ==
    /\ Idle
    /\ BindSocket(fd)
    /\ LET s == [fd |-> fd, n |-> made + 1]
       IN  AddSockets(<<s>>) \/ AddSocketsFails(<<s>>)
    /\ UNCHANGED <<pending_sockets_, started_, backlog, accepting, outcome, accepted>>

Bind(fd) ==
    /\ Idle
    /\ BindSocket(fd)
    /\ LET s == [fd |-> fd, n |-> made + 1]
       IN  IF started_
           THEN /\ AddSockets(<<s>>) \/ AddSocketsFails(<<s>>)
                /\ UNCHANGED pending_sockets_
           ELSE /\ pending_sockets_' = Append(pending_sockets_, s)
                /\ UNCHANGED <<sockets_, handler, edge>>
    /\ UNCHANGED <<started_, backlog, accepting, outcome, accepted>>

\* add_sockets deletes the list that it is given, here a local variable: the
\* allocator aborts or lets it pass
Start ==
    /\ Idle /\ ~started_
    /\ started_' = TRUE
    /\ pending_sockets_' = <<>>
    /\ \/ AddSockets(pending_sockets_) /\ outcome' \in {"running", "bad delete"}
       \/ AddSocketsFails(pending_sockets_) /\ UNCHANGED outcome
    /\ UNCHANGED <<made, listening, backlog, accepting, accepted, faulty>>

\* Entries stay in the map as nullptr, on which a second stop() calls close();
\* a socket whose descriptor had one was never entered.
Stop ==
    /\ Idle /\ DOMAIN sockets_ # {}
    /\ LET live == {fd \in DOMAIN sockets_ : sockets_[fd] # Deleted}
       IN  IF live = DOMAIN sockets_
           THEN /\ handler' = {s \in handler : s.fd \notin live}
                /\ listening' = {s \in listening : s.fd \notin live}
                /\ edge' = edge \ live
                /\ backlog' = [fd \in Descriptors |->
                                  IF fd \in live THEN <<>> ELSE backlog[fd]]
                /\ sockets_' = [fd \in live |-> Deleted]
                /\ UNCHANGED outcome
           ELSE /\ outcome' = "null socket"
                /\ UNCHANGED <<handler, listening, edge, backlog, sockets_>>
    /\ UNCHANGED <<pending_sockets_, started_, made, accepting, accepted, faulty>>
-----------------------------------------------------------------------------
\* the loop calls the handler; poll has taken the descriptor from the ready list
AcceptHandler ==
    /\ Idle
    /\ \E s \in handler :
          /\ s.fd \in edge
          /\ accepting' = s
          /\ edge' = edge \ {s.fd}
    /\ UNCHANGED <<sockets_, pending_sockets_, started_, made, listening, handler,
                   backlog, outcome, accepted, faulty>>

\* mutant: one connection is accepted for each event
AcceptOne ==
    /\ accepting # NoSocket /\ backlog[accepting.fd] # <<>>
    /\ accepted' = Append(accepted, Head(backlog[accepting.fd]))
    /\ backlog' = [backlog EXCEPT ![accepting.fd] = Tail(@)]
    /\ accepting' = NoSocket
    /\ UNCHANGED <<sockets_, pending_sockets_, started_, made, listening, handler,
                   edge, outcome, faulty>>

\* accept() and handle_connection, which keeps the Errors of handle_stream
Accept ==
    /\ accepting # NoSocket /\ backlog[accepting.fd] # <<>>
    /\ accepted' = Append(accepted, Head(backlog[accepting.fd]))
    /\ backlog' = [backlog EXCEPT ![accepting.fd] = Tail(@)]
    /\ UNCHANGED <<sockets_, pending_sockets_, started_, made, listening, handler,
                   edge, accepting, outcome, faulty>>

AcceptWouldBlock ==
    /\ accepting # NoSocket /\ backlog[accepting.fd] = <<>>
    /\ faulty' = faulty \ {accepting.fd}
    /\ accepting' = NoSocket
    /\ UNCHANGED <<sockets_, pending_sockets_, started_, made, listening, handler,
                   backlog, edge, outcome, accepted>>

\* another error leaves the handler, and who waits behind it without an event
AcceptFails ==
    /\ AcceptFaults /\ accepting # NoSocket
    /\ faulty' = faulty \cup {accepting.fd}
    /\ accepting' = NoSocket
    /\ UNCHANGED <<sockets_, pending_sockets_, started_, made, listening, handler,
                   backlog, edge, outcome, accepted>>

\* external: a peer connects to a socket that listens, with a handler or without
ClientConnects(c) ==
    /\ outcome = "running" /\ c \notin Range(accepted)
    /\ \A fd \in Descriptors : c \notin Range(backlog[fd])
    /\ \E s \in listening :
          /\ backlog' = [backlog EXCEPT ![s.fd] = Append(@, c)]
          /\ edge' = IF s \in handler THEN edge \cup {s.fd} ELSE edge
    /\ UNCHANGED <<sockets_, pending_sockets_, started_, made, listening, handler,
                   accepting, outcome, accepted, faulty>>

ServerNext ==
    \/ \E fd \in Descriptors : Listen(fd) \/ Bind(fd)
    \/ Start \/ Stop \/ AcceptHandler \/ Accept \/ AcceptWouldBlock \/ AcceptFails
    \/ \E c \in Clients : ClientConnects(c)

ServerSpec == ServerInit /\ [][ServerNext]_serverVars
-----------------------------------------------------------------------------
(* Correctness.                                                            *)

\* Under edge-triggered events a connection that waits on a registered socket is
\* announced by an event that waits, too, or the accept loop of the socket is
\* still running: otherwise it would wait for the next client.  Not where accept
\* has failed.
BacklogIsSignalled ==
    \A s \in handler :
       backlog[s.fd] # <<>> => s.fd \in edge \cup {accepting.fd} \cup faulty
=============================================================================

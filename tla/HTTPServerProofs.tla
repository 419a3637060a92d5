--------------------------- MODULE HTTPServerProofs ---------------------------
(***************************************************************************)
(* Proofs about HTTPServer: about TCPServer, for every set of descriptors  *)
(* and of clients and every number of listening sockets, and about         *)
(* HTTPConnection, for every set of requests, any number of them on the    *)
(* connection, and a stream that may fail or not.                          *)
(***************************************************************************)
EXTENDS TCPServer, HTTPConnection, SequenceTheorems, TLAPS

(* TCPServer: what the sockets are, and the invariant.                     *)

Sockets == [fd : Descriptors, n : Nat]

ServerTypeOK ==
    /\ DOMAIN sockets_ \subseteq Descriptors
    /\ pending_sockets_ \in Seq(Sockets)
    /\ started_ \in BOOLEAN
    /\ made \in Nat
    /\ listening \subseteq Sockets
    /\ handler \subseteq Sockets
    /\ backlog \in [Descriptors -> Seq(Clients)]
    /\ edge \subseteq Descriptors
    /\ accepting \in Sockets \cup {NoSocket}
    /\ faulty \subseteq Descriptors

\* A descriptor is that of one open socket.
OneListener == \A s, t \in listening : s.fd = t.fd => s = t

\* What epoll watches is open, and so is what bind() keeps for start().
HandlersListen == handler \subseteq listening

PendingListen == Range(pending_sockets_) \subseteq listening

\* The entries that stop() has not deleted are those of open sockets, and of none that
\* waits for start(): stop() closes none of these.
EntriesListen ==
    \A fd \in DOMAIN sockets_ :
       sockets_[fd] # Deleted => /\ sockets_[fd] \in listening /\ sockets_[fd].fd = fd
                                 /\ sockets_[fd] \notin Range(pending_sockets_)

ServerInv ==
    /\ ServerTypeOK
    /\ OneListener /\ HandlersListen /\ PendingListen /\ EntriesListen
    /\ BacklogIsSignalled
-----------------------------------------------------------------------------
(* The operators of the module.                                            *)

\* What a list of sockets holds, and what it holds once another is added.
LEMMA RangeOfList ==
    ASSUME NEW list \in Seq(Sockets), NEW s \in Sockets
    PROVE  /\ Range(list) \subseteq Sockets /\ FdsOf(list) \subseteq Descriptors
           /\ Range(Append(list, s)) = Range(list) \cup {s}
           /\ <<s>> \in Seq(Sockets) /\ Range(<<s>>) = {s} /\ FdsOf(<<s>>) = {s.fd}
<1>1. Range(list) \subseteq Sockets
  BY ElementOfSeq DEF Range
<1>2. FdsOf(list) \subseteq Descriptors
  BY <1>1 DEF FdsOf, Sockets
<1>3. Range(Append(list, s)) = Range(list) \cup {s}
  BY AppendProperties, LenProperties DEF Range
<1>4. <<s>> \in Seq(Sockets) /\ Range(<<s>>) = {s}
  BY DEF Range
<1>5. QED
  BY <1>1, <1>2, <1>3, <1>4 DEF FdsOf

\* An insertion keeps the entries that are there ...
LEMMA InsertedKeeps ==
    ASSUME NEW entries, NEW list
    PROVE  /\ DOMAIN Inserted(entries, list) = DOMAIN entries \cup FdsOf(list)
           /\ \A fd \in DOMAIN entries : Inserted(entries, list)[fd] = entries[fd]
  BY DEF Inserted

\* ... and makes one of a socket of the list otherwise.
LEMMA InsertedAdds ==
    ASSUME NEW entries, NEW list, NEW fd \in FdsOf(list), fd \notin DOMAIN entries
    PROVE  Inserted(entries, list)[fd] \in Range(list) /\ Inserted(entries, list)[fd].fd = fd
<1>1. \E s \in Range(list) : s.fd = fd
  BY DEF FdsOf
<1>2. Inserted(entries, list)[fd] = CHOOSE s \in Range(list) : s.fd = fd
  BY DEF Inserted
<1>3. QED
  BY <1>1, <1>2
\* What add_sockets does with a list, whether add_handler throws for one of it or not:
\* some of the list is entered and some of it registered.
LEMMA ListAdded ==
    ASSUME NEW list \in Seq(Sockets), AddSockets(list) \/ AddSocketsFails(list)
    PROVE  \E entered, registered \in Seq(Sockets) :
              /\ Range(entered) \subseteq Range(list) /\ Range(registered) \subseteq Range(list)
              /\ sockets_' = Inserted(sockets_, entered) /\ Registers(registered)
<1>1. CASE AddSockets(list)
  BY <1>1 DEF AddSockets
<1>2. CASE AddSocketsFails(list)
  <2>1. PICK i \in DOMAIN list : /\ sockets_' = Inserted(sockets_, SubSeq(list, 1, i))
                                 /\ Registers(SubSeq(list, 1, i - 1))
    BY <1>2 DEF AddSocketsFails
  <2>2. ASSUME NEW k \in {i - 1, i}
        PROVE  SubSeq(list, 1, k) \in Seq(Sockets) /\ Range(SubSeq(list, 1, k)) \subseteq Range(list)
    <3>1. k \in Int /\ k <= Len(list) /\ DOMAIN list = 1..Len(list)
      BY LenProperties
    <3>2. /\ SubSeq(list, 1, k) \in Seq(Sockets)
          /\ Len(SubSeq(list, 1, k)) = IF 1 <= k THEN k - 1 + 1 ELSE 0
          /\ \A j \in 1..k : SubSeq(list, 1, k)[j] = list[1 + j - 1]
      BY <3>1, SubSeqProperties
    <3>3. DOMAIN SubSeq(list, 1, k) = 1..Len(SubSeq(list, 1, k))
      BY <3>2, LenProperties
    <3>4. ASSUME NEW j \in DOMAIN SubSeq(list, 1, k) PROVE SubSeq(list, 1, k)[j] \in Range(list)
      BY <3>1, <3>2, <3>3 DEF Range
    <3>5. QED
      BY <3>2, <3>4 DEF Range
  <2>3. QED
    BY <2>1, <2>2
<1>3. QED
  BY <1>1, <1>2

\* The sockets of a list that add_sockets is given are entered as themselves, or not.
LEMMA ListEntered ==
    ASSUME NEW list \in Seq(Sockets), AddSockets(list) \/ AddSocketsFails(list)
    PROVE  /\ handler' \subseteq handler \cup Range(list)
           /\ \A fd \in DOMAIN sockets_' :
                 \/ fd \in DOMAIN sockets_ /\ sockets_'[fd] = sockets_[fd]
                 \/ sockets_'[fd] \in Range(list) /\ sockets_'[fd].fd = fd
<1>1. PICK entered, registered \in Seq(Sockets) :
         /\ Range(entered) \subseteq Range(list) /\ Range(registered) \subseteq Range(list)
         /\ sockets_' = Inserted(sockets_, entered) /\ Registers(registered)
  BY ListAdded
<1>2. DOMAIN sockets_' = DOMAIN sockets_ \cup FdsOf(entered)
  BY <1>1, InsertedKeeps
<1>3. ASSUME NEW fd \in DOMAIN sockets_ PROVE sockets_'[fd] = sockets_[fd]
  BY <1>1, InsertedKeeps
<1>4. ASSUME NEW fd \in FdsOf(entered), fd \notin DOMAIN sockets_
      PROVE  sockets_'[fd] \in Range(list) /\ sockets_'[fd].fd = fd
  BY <1>1, <1>4, InsertedAdds
<1>5. QED
  BY <1>1, <1>2, <1>3, <1>4 DEF Registers
-----------------------------------------------------------------------------
\* Every operation keeps the types.
LEMMA ServerTyping == ServerTypeOK /\ [ServerNext]_serverVars => ServerTypeOK'
<1> SUFFICES ASSUME ServerTypeOK, [ServerNext]_serverVars PROVE ServerTypeOK'
  OBVIOUS
<1>1. CASE UNCHANGED serverVars
  BY <1>1 DEF serverVars, ServerTypeOK
<1>2. ASSUME NEW list \in Seq(Sockets), AddSockets(list) \/ AddSocketsFails(list)
      PROVE  DOMAIN sockets_' \subseteq Descriptors /\ handler' \subseteq Sockets /\ edge' \subseteq Descriptors
  <2>1. PICK entered, registered \in Seq(Sockets) :
           sockets_' = Inserted(sockets_, entered) /\ Registers(registered)
    BY <1>2, ListAdded
  <2>2. Range(registered) \subseteq Sockets
    BY ElementOfSeq DEF Range
  <2>3. Range(entered) \subseteq Sockets
    BY ElementOfSeq DEF Range
  <2>4. FdsOf(entered) \subseteq Descriptors /\ FdsOf(registered) \subseteq Descriptors
    BY <2>2, <2>3 DEF FdsOf, Sockets
  <2>5. QED
    BY <2>1, <2>2, <2>4, InsertedKeeps DEF Registers, ServerTypeOK
<1>3. ASSUME NEW fd \in Descriptors, Listen(fd) PROVE ServerTypeOK'
  <2>1. [fd |-> fd, n |-> made + 1] \in Sockets /\ <<[fd |-> fd, n |-> made + 1]>> \in Seq(Sockets)
    BY DEF Sockets, ServerTypeOK
  <2>2. DOMAIN sockets_' \subseteq Descriptors /\ handler' \subseteq Sockets /\ edge' \subseteq Descriptors
    BY <1>2, <1>3, <2>1 DEF Listen
  <2>3. QED
    BY <1>3, <2>1, <2>2 DEF Listen, BindSocket, ServerTypeOK
<1>4. ASSUME NEW fd \in Descriptors, Bind(fd) PROVE ServerTypeOK'
  <2>1. [fd |-> fd, n |-> made + 1] \in Sockets /\ <<[fd |-> fd, n |-> made + 1]>> \in Seq(Sockets)
    BY DEF Sockets, ServerTypeOK
  <2>2. DOMAIN sockets_' \subseteq Descriptors /\ handler' \subseteq Sockets /\ edge' \subseteq Descriptors
    BY <1>2, <1>4, <2>1 DEF Bind, ServerTypeOK
  <2>3. pending_sockets_' \in Seq(Sockets)
    <3>1. pending_sockets_ \in Seq(Sockets)
      BY DEF ServerTypeOK
    <3>2. Append(pending_sockets_, [fd |-> fd, n |-> made + 1]) \in Seq(Sockets)
      BY <2>1, <3>1, AppendProperties
    <3>3. QED
      BY <1>4, <3>1, <3>2 DEF Bind
  <2>4. QED
    BY <1>4, <2>1, <2>2, <2>3 DEF Bind, BindSocket, ServerTypeOK
<1>5. CASE Start
  <2>1. DOMAIN sockets_' \subseteq Descriptors /\ handler' \subseteq Sockets /\ edge' \subseteq Descriptors
    BY <1>2, <1>5 DEF Start, ServerTypeOK
  <2>2. pending_sockets_' \in Seq(Sockets)
    BY <1>5, EmptySeq DEF Start
  <2>3. QED
    BY <1>5, <2>1, <2>2 DEF Start, ServerTypeOK
<1>6. CASE Stop
  <2>1. backlog' \in [Descriptors -> Seq(Clients)]
    <3>1. \/ UNCHANGED backlog
          \/ \E live \in SUBSET DOMAIN sockets_ :
                backlog' = [fd \in Descriptors |-> IF fd \in live THEN <<>> ELSE backlog[fd]]
      BY <1>6 DEF Stop
    <3>2. \A fd \in Descriptors : backlog[fd] \in Seq(Clients) /\ <<>> \in Seq(Clients)
      BY EmptySeq DEF ServerTypeOK
    <3>3. QED
      BY <3>1, <3>2 DEF ServerTypeOK
  <2>2. DOMAIN sockets_' \subseteq Descriptors
    BY <1>6 DEF Stop, ServerTypeOK
  <2>3. handler' \subseteq Sockets /\ listening' \subseteq Sockets /\ edge' \subseteq Descriptors
    BY <1>6 DEF Stop, ServerTypeOK
  <2>4. QED
    BY <1>6, <2>1, <2>2, <2>3 DEF Stop, ServerTypeOK
<1>7. CASE AcceptHandler
  BY <1>7 DEF AcceptHandler, ServerTypeOK
<1>8. CASE Accept
  <2>1. accepting.fd \in Descriptors
    BY <1>8 DEF Accept, ServerTypeOK, Sockets
  <2>2. Tail(backlog[accepting.fd]) \in Seq(Clients)
    BY <1>8, <2>1, HeadTailProperties DEF Accept, ServerTypeOK
  <2>3. QED
    BY <1>8, <2>2 DEF Accept, ServerTypeOK
<1>9. CASE AcceptWouldBlock
  BY <1>9 DEF AcceptWouldBlock, ServerTypeOK
<1>10. CASE AcceptFails
  BY <1>10 DEF AcceptFails, ServerTypeOK, Sockets
<1>11. ASSUME NEW c \in Clients, ClientConnects(c) PROVE ServerTypeOK'
  <2>1. PICK s \in listening : backlog' = [backlog EXCEPT ![s.fd] = Append(@, c)]
                               /\ edge' = IF s \in handler THEN edge \cup {s.fd} ELSE edge
    BY <1>11 DEF ClientConnects
  <2>2. s.fd \in Descriptors
    BY DEF ServerTypeOK, Sockets
  <2>3. Append(backlog[s.fd], c) \in Seq(Clients)
    BY <2>2, AppendProperties DEF ServerTypeOK
  <2>4. QED
    BY <1>11, <2>1, <2>2, <2>3 DEF ClientConnects, ServerTypeOK
<1>12. QED
  BY <1>1, <1>3, <1>4, <1>5, <1>6, <1>7, <1>8, <1>9, <1>10, <1>11 DEF ServerNext

\* Binding keeps one socket to a descriptor, and the new socket is a new one.
LEMMA BindKeeps ==
    ASSUME ServerInv, NEW fd \in Descriptors, BindSocket(fd)
    PROVE  LET s == [fd |-> fd, n |-> made + 1]
           IN  /\ s \in Sockets /\ listening' = listening \cup {s}
               /\ \A t \in listening : t.fd # fd
               /\ s \notin listening /\ OneListener'
  BY DEF ServerInv, ServerTypeOK, Sockets, OneListener, BindSocket

\* Which sockets there are, which of them are watched and which are entered: the
\* invariant's clauses beside the types and the signals.
LEMMA SocketsKeep ==
    ServerInv /\ [ServerNext]_serverVars
       => OneListener' /\ HandlersListen' /\ PendingListen' /\ EntriesListen'
<1> SUFFICES ASSUME ServerInv, [ServerNext]_serverVars
             PROVE  OneListener' /\ HandlersListen' /\ PendingListen' /\ EntriesListen'
  OBVIOUS
<1>1. ServerTypeOK /\ OneListener /\ HandlersListen /\ PendingListen /\ EntriesListen
  BY DEF ServerInv
<1>2. CASE UNCHANGED <<sockets_, pending_sockets_, listening, handler>>
  BY <1>1, <1>2 DEF OneListener, HandlersListen, PendingListen, EntriesListen
<1>3. ASSUME NEW s \in Sockets, s \notin listening, listening' = listening \cup {s}, OneListener',
             UNCHANGED pending_sockets_, AddSockets(<<s>>) \/ AddSocketsFails(<<s>>)
      PROVE  OneListener' /\ HandlersListen' /\ PendingListen' /\ EntriesListen'
  <2>1. <<s>> \in Seq(Sockets) /\ Range(<<s>>) = {s}
    BY DEF Range
  <2>2. /\ handler' \subseteq handler \cup {s}
        /\ \A fd \in DOMAIN sockets_' : \/ fd \in DOMAIN sockets_ /\ sockets_'[fd] = sockets_[fd]
                                        \/ sockets_'[fd] = s /\ sockets_'[fd].fd = fd
    BY <1>3, <2>1, ListEntered
  <2>3. s \notin Range(pending_sockets_)
    BY <1>1, <1>3 DEF PendingListen
  <2>4. EntriesListen'
    BY <1>1, <1>3, <2>2, <2>3 DEF EntriesListen
  <2>5. QED
    BY <1>1, <1>3, <2>2, <2>4 DEF HandlersListen, PendingListen
<1>4. ASSUME NEW fd \in Descriptors, Listen(fd)
      PROVE  OneListener' /\ HandlersListen' /\ PendingListen' /\ EntriesListen'
  <2> DEFINE s == [fd |-> fd, n |-> made + 1]
  <2>1. /\ s \in Sockets /\ s \notin listening /\ listening' = listening \cup {s}
        /\ OneListener'
    BY <1>4, BindKeeps DEF Listen
  <2>2. UNCHANGED pending_sockets_ /\ (AddSockets(<<s>>) \/ AddSocketsFails(<<s>>))
    BY <1>4 DEF Listen
  <2> HIDE DEF s
  <2>3. QED
    BY <1>3, <2>1, <2>2
<1>5. ASSUME NEW fd \in Descriptors, Bind(fd)
      PROVE  OneListener' /\ HandlersListen' /\ PendingListen' /\ EntriesListen'
  <2> DEFINE s == [fd |-> fd, n |-> made + 1]
  <2>1. /\ s \in Sockets /\ s \notin listening /\ listening' = listening \cup {s}
        /\ OneListener'
    BY <1>5, BindKeeps DEF Bind
  <2>2. CASE started_
    <3>1. UNCHANGED pending_sockets_ /\ (AddSockets(<<s>>) \/ AddSocketsFails(<<s>>))
      BY <1>5, <2>2 DEF Bind
    <3> HIDE DEF s
    <3>2. QED
      BY <1>3, <2>1, <3>1
  <2>3. CASE ~started_
    <3>1. /\ pending_sockets_' = Append(pending_sockets_, s)
          /\ UNCHANGED <<sockets_, handler>>
      BY <1>5, <2>3 DEF Bind
    <3>2. Range(pending_sockets_') = Range(pending_sockets_) \cup {s}
      BY <1>1, <2>1, <3>1, RangeOfList DEF ServerTypeOK
    <3> HIDE DEF s
    <3>3. QED
      BY <1>1, <2>1, <3>1, <3>2 DEF HandlersListen, PendingListen, EntriesListen
  <2>4. QED
    BY <2>2, <2>3
<1>6. CASE Start
  <2>1. /\ pending_sockets_ \in Seq(Sockets) /\ listening' = listening
        /\ AddSockets(pending_sockets_) \/ AddSocketsFails(pending_sockets_)
    BY <1>1, <1>6 DEF Start, ServerTypeOK
  <2>2. /\ handler' \subseteq handler \cup Range(pending_sockets_)
        /\ \A fd \in DOMAIN sockets_' :
              \/ fd \in DOMAIN sockets_ /\ sockets_'[fd] = sockets_[fd]
              \/ sockets_'[fd] \in Range(pending_sockets_) /\ sockets_'[fd].fd = fd
    BY <2>1, ListEntered
  <2>3. Range(pending_sockets_') = {}
    <3>1. Range(<<>>) = {}
      BY DEF Range
    <3>2. QED
      BY <1>6, <3>1 DEF Start
  <2>4. EntriesListen'
    BY <1>1, <2>1, <2>2, <2>3 DEF EntriesListen, PendingListen
  <2>5. QED
    BY <1>1, <2>1, <2>2, <2>3, <2>4 DEF OneListener, HandlersListen, PendingListen
<1>7. CASE Stop
  <2> DEFINE live == {fd \in DOMAIN sockets_ : sockets_[fd] # Deleted}
  <2>1. CASE live = DOMAIN sockets_
    <3>1. /\ handler' = {s \in handler : s.fd \notin live}
          /\ listening' = {s \in listening : s.fd \notin live}
          /\ sockets_' = [fd \in live |-> Deleted]
          /\ pending_sockets_' = pending_sockets_
      BY <1>7, <2>1 DEF Stop
    <3>2. ASSUME NEW s \in Range(pending_sockets_) PROVE s \in listening /\ s.fd \notin live
      <4>1. s \in listening
        BY <1>1, <3>2 DEF PendingListen
      <4>2. ASSUME s.fd \in live PROVE FALSE
        <5>1. /\ sockets_[s.fd] \in listening /\ sockets_[s.fd].fd = s.fd
              /\ sockets_[s.fd] \notin Range(pending_sockets_)
          BY <1>1, <4>2 DEF EntriesListen
        <5>2. sockets_[s.fd] = s
          BY <1>1, <4>1, <5>1 DEF OneListener
        <5>3. QED
          BY <3>2, <5>1, <5>2
      <4>3. QED
        BY <4>1, <4>2
    <3> HIDE DEF live
    <3>3. OneListener' /\ HandlersListen' /\ PendingListen'
      BY <1>1, <3>1, <3>2 DEF OneListener, HandlersListen, PendingListen
    <3>4. QED
      BY <3>1, <3>3 DEF EntriesListen
  <2>2. CASE live # DOMAIN sockets_
    <3>1. UNCHANGED <<sockets_, pending_sockets_, listening, handler>>
      BY <1>7, <2>2 DEF Stop
    <3>2. QED
      BY <1>2, <3>1
  <2>3. QED
    BY <2>1, <2>2
<1>8. QED
  BY <1>2, <1>4, <1>5, <1>6, <1>7
     DEF ServerNext, serverVars, AcceptHandler, Accept, AcceptWouldBlock, AcceptFails, ClientConnects

\* A step leaves who waits on a registered socket announced, or its accept loop
\* running.
LEMMA SignalsKeep == ServerInv /\ [ServerNext]_serverVars => BacklogIsSignalled'
<1> SUFFICES ASSUME ServerInv, [ServerNext]_serverVars,
                    NEW h \in handler', backlog'[h.fd] # <<>>
             PROVE  h.fd \in edge' \cup {accepting'.fd} \cup faulty'
  BY DEF BacklogIsSignalled
<1> DEFINE Signalled == h.fd \in edge' \cup {accepting'.fd} \cup faulty'
<1>1. ServerTypeOK /\ OneListener /\ HandlersListen
  BY DEF ServerInv
<1>2. \A s \in handler : /\ s \in listening /\ s.fd \in Descriptors
                         /\ backlog[s.fd] # <<>> => s.fd \in edge \cup {accepting.fd} \cup faulty
  BY <1>1 DEF ServerInv, ServerTypeOK, HandlersListen, Sockets, BacklogIsSignalled
<1>3. accepting = NoSocket => accepting.fd \notin Descriptors
  BY ServerAssumption DEF ServerAssumption, NoSocket
<1>4. ASSUME NEW list \in Seq(Sockets), AddSockets(list) \/ AddSocketsFails(list),
             UNCHANGED backlog
      PROVE  edge \subseteq edge' /\ (h \in handler \/ Signalled)
  <2>1. PICK registered \in Seq(Sockets) :
           Range(registered) \subseteq Range(list) /\ Registers(registered)
    BY <1>4, ListAdded
  <2>2. QED
    BY <1>4, <2>1 DEF Registers, FdsOf
<1>5. CASE UNCHANGED serverVars
  BY <1>2, <1>5 DEF serverVars
<1>6. ASSUME NEW fd \in Descriptors, Listen(fd) PROVE Signalled
  <2> DEFINE s == [fd |-> fd, n |-> made + 1]
  <2>1. <<s>> \in Seq(Sockets)
    BY <1>1 DEF Sockets, ServerTypeOK
  <2>2. /\ AddSockets(<<s>>) \/ AddSocketsFails(<<s>>)
        /\ backlog' = backlog /\ accepting' = accepting /\ faulty' = faulty \ {fd}
    BY <1>6 DEF Listen, BindSocket
  <2> HIDE DEF s
  <2>3. edge \subseteq edge' /\ (h \in handler \/ Signalled)
    BY <1>4, <2>1, <2>2
  <2>4. CASE h \in handler
    <3>1. h.fd # fd
      BY <1>2, <1>6, <2>4 DEF Listen, BindSocket
    <3>2. QED
      BY <1>2, <2>2, <2>3, <2>4, <3>1
  <2>5. QED
    BY <2>3, <2>4
<1>7. ASSUME NEW fd \in Descriptors, Bind(fd) PROVE Signalled
  <2> DEFINE s == [fd |-> fd, n |-> made + 1]
  <2>1. <<s>> \in Seq(Sockets)
    BY <1>1 DEF Sockets, ServerTypeOK
  <2>2. backlog' = backlog /\ accepting' = accepting /\ faulty' = faulty \ {fd}
    BY <1>7 DEF Bind, BindSocket
  <2>3. AddSockets(<<s>>) \/ AddSocketsFails(<<s>>) \/ UNCHANGED <<handler, edge>>
    BY <1>7 DEF Bind
  <2> HIDE DEF s
  <2>4. edge \subseteq edge' /\ (h \in handler \/ Signalled)
    BY <1>4, <2>1, <2>2, <2>3
  <2>5. CASE h \in handler
    <3>1. h.fd # fd
      BY <1>2, <1>7, <2>5 DEF Bind, BindSocket
    <3>2. QED
      BY <1>2, <2>2, <2>4, <2>5, <3>1
  <2>6. QED
    BY <2>4, <2>5
<1>8. CASE Start
  <2>1. /\ AddSockets(pending_sockets_) \/ AddSocketsFails(pending_sockets_)
        /\ pending_sockets_ \in Seq(Sockets) /\ UNCHANGED <<backlog, accepting, faulty>>
    BY <1>1, <1>8 DEF Start, ServerTypeOK
  <2>2. edge \subseteq edge' /\ (h \in handler \/ Signalled)
    BY <1>4, <2>1
  <2>3. QED
    BY <1>2, <2>1, <2>2
<1>9. CASE Stop
  <2> DEFINE live == {fd \in DOMAIN sockets_ : sockets_[fd] # Deleted}
  <2>1. CASE live = DOMAIN sockets_
    <3>1. /\ handler' = {s \in handler : s.fd \notin live} /\ edge' = edge \ live
          /\ backlog' = [fd \in Descriptors |-> IF fd \in live THEN <<>> ELSE backlog[fd]]
          /\ accepting' = accepting /\ faulty' = faulty
      BY <1>9, <2>1 DEF Stop
    <3> HIDE DEF live
    <3>2. QED
      BY <1>2, <3>1
  <2>2. CASE live # DOMAIN sockets_
    BY <1>2, <1>9, <2>2 DEF Stop
  <2>3. QED
    BY <2>1, <2>2
<1>10. CASE AcceptHandler
  <2>1. accepting = NoSocket /\ UNCHANGED <<handler, backlog, faulty>>
    BY <1>10 DEF AcceptHandler, Idle
  <2>2. PICK s \in handler : accepting' = s /\ edge' = edge \ {s.fd}
    BY <1>10 DEF AcceptHandler
  <2>3. QED
    BY <1>2, <1>3, <2>1, <2>2
<1>11. CASE Accept
  <2>1. h \in handler /\ UNCHANGED <<edge, accepting, faulty>>
    BY <1>11 DEF Accept
  <2>2. h.fd # accepting.fd => backlog'[h.fd] = backlog[h.fd]
    BY <1>1, <1>2, <1>11, <2>1 DEF Accept, ServerTypeOK
  <2>3. QED
    BY <1>2, <2>1, <2>2
<1>12. CASE AcceptWouldBlock
  BY <1>2, <1>12 DEF AcceptWouldBlock
<1>13. CASE AcceptFails
  BY <1>2, <1>13 DEF AcceptFails
<1>14. ASSUME NEW c \in Clients, ClientConnects(c) PROVE Signalled
  <2>1. PICK s \in listening : /\ backlog' = [backlog EXCEPT ![s.fd] = Append(@, c)]
                               /\ edge' = IF s \in handler THEN edge \cup {s.fd} ELSE edge
    BY <1>14 DEF ClientConnects
  <2>2. h \in handler /\ UNCHANGED <<accepting, faulty>>
    BY <1>14 DEF ClientConnects
  <2>3. CASE h.fd = s.fd
    BY <1>1, <1>2, <2>1, <2>2, <2>3 DEF OneListener
  <2>4. CASE h.fd # s.fd
    <3>1. backlog'[h.fd] = backlog[h.fd]
      BY <1>1, <1>2, <2>1, <2>2, <2>4 DEF ServerTypeOK
    <3>2. QED
      BY <1>2, <2>1, <2>2, <3>1
  <2>5. QED
    BY <2>3, <2>4
<1>15. QED
  BY <1>5, <1>6, <1>7, <1>8, <1>9, <1>10, <1>11, <1>12, <1>13, <1>14 DEF ServerNext
-----------------------------------------------------------------------------
\* The server's sockets and registrations keep in step, and the edge-triggered accept
\* loop misses nobody.
THEOREM ServerInvariant == ServerSpec => []ServerInv
<1>1. ServerInit => ServerInv
  <2> SUFFICES ASSUME ServerInit PROVE ServerInv
    OBVIOUS
  <2>1. ServerTypeOK
    <3>1. <<>> \in Seq(Sockets) /\ <<>> \in Seq(Clients) /\ DOMAIN <<>> = {}
      BY EmptySeq
    <3>2. QED
      BY <3>1 DEF ServerInit, ServerTypeOK
  <2>2. Range(pending_sockets_) = {}
    BY DEF ServerInit, Range
  <2>3. QED
    BY <2>1, <2>2 DEF ServerInit, ServerInv, OneListener, HandlersListen, PendingListen,
       EntriesListen, BacklogIsSignalled
<1>2. ServerInv /\ [ServerNext]_serverVars => ServerInv'
  BY ServerTyping, SocketsKeep, SignalsKeep DEF ServerInv
<1>3. QED
  BY <1>1, <1>2, PTL DEF ServerSpec

\* A client that waits on a registered socket is announced by an event that waits, or
\* the socket's accept loop runs, or accept has failed there.
THEOREM BacklogIsSignalledHolds == ServerSpec => []BacklogIsSignalled
<1>1. ServerInv => BacklogIsSignalled
  BY DEF ServerInv
<1>2. QED
  BY <1>1, ServerInvariant, PTL
-----------------------------------------------------------------------------
(* HTTPConnection.                                                         *)

(* What the queue and the inbox hold.                                      *)

\* the requests the peer has sent, numbered
SentRequests ==
    [n : 1..sentRequests, line : {"ok", "malformed"}, http11 : BOOLEAN,
     method : {"GET", "POST"}, connection : {"none", "close", "keep-alive"},
     length : {"none", "zero", "fits", "long"}, expect : BOOLEAN, boundless : BOOLEAN]

SentParts == [part : {"head", "body"}, request : SentRequests]
Callbacks == [call : Names, data : SentParts \cup {Part("none", Null)}]

NamesIn(q)   == {q[i].call : i \in DOMAIN q}
HeadsRead(q) == {q[i].data : i \in {j \in DOMAIN q : q[j].call = "on_headers"}}

ReadCallbacks == {"on_headers", "on_request_body"}
OneRead(q) == \A i, j \in DOMAIN q :
                 q[i].call \in ReadCallbacks /\ q[j].call \in ReadCallbacks => i = j
FreeAtEnd(q) == \A i \in DOMAIN q : q[i].call = "free" => i = Len(q)

QueueTypeOK ==
    /\ callbacks_ \in Seq(Callbacks)
    /\ inbox \in Seq(SentParts)
    /\ request_ \in SentRequests \cup {Null} /\ due \in SentRequests \cup {Null}
-----------------------------------------------------------------------------
(* The invariant.                                                          *)

\* close() has run
Closed == "free" \in NamesIn(callbacks_) \/ deleted

\* The connection is between two requests, or at the body of one.
AtHead == request_ = Null /\ ~held /\ ~request_finished_ /\ ~Closed
AtBody == /\ request_ # Null /\ ~held /\ ~request_finished_ /\ ~Closed
          /\ request_.n = served + 1 /\ request_.length \in {"fits", "zero"}

\* What each activity says of the place the connection is at: reads are for what
\* comes next there, the user holds the request that it was handed last, and a
\* closed connection has closed its stream.
Phases ==
    /\ pc \in {"new", "readhead"} \/ reading = "headers" \/ "on_headers" \in NamesIn(callbacks_) => AtHead
    /\ pc \in {"continue", "readbody"} \/ reading = "body" \/ "on_request_body" \in NamesIn(callbacks_) => AtBody
    /\ held \/ request_finished_ =>
          request_ # Null /\ request_.n = served /\ ~Closed /\ ~(held /\ request_finished_)
    /\ Closed => ~open

\* The thread is about to read, the stream reads, or the callback of a read waits:
\* never two of the three, and never two callbacks.
OneReader ==
    /\ pc \in {"new", "readhead", "readbody", "continue"} =>
          reading = "none" /\ NamesIn(callbacks_) \cap ReadCallbacks = {}
    /\ reading # "none" => NamesIn(callbacks_) \cap ReadCallbacks = {}
    /\ OneRead(callbacks_)

\* Nothing is behind free() in the queue, and nothing is left after it.
FreeIsLast == FreeAtEnd(callbacks_) /\ (deleted => callbacks_ = <<>>)

\* The output that waits is of the request that the connection is at.
OutputIsCurrent == ~Closed => unsent \in {0, request_.n}

\* The part that the peer sends after p, and what it then still has to send.
Follows(p, q) == IF p.part = "head" /\ p.request.length = "fits"
                 THEN q = Part("body", p.request)
                 ELSE q.part = "head" /\ q.request.n = p.request.n + 1
DueAfter(p) == IF p.part = "head" /\ p.request.length = "fits" THEN p.request ELSE Null

\* The parts of box follow p and each other; the last of them, p if there is none.
InOrder(p, box) ==
    /\ box # <<>> => Follows(p, box[1])
    /\ \A i \in DOMAIN box : i + 1 \in DOMAIN box => Follows(box[i], box[i + 1])
LastPart(p, box) == IF box = <<>> THEN p ELSE box[Len(box)]

\* The inbox goes on where p, the last part taken, ends; and the peer goes on where
\* the inbox ends, as long as the stream is open.
GoesOn(p, box, on, sent, owed) ==
    /\ InOrder(p, box)
    /\ on => sent = LastPart(p, box).request.n /\ owed = DueAfter(LastPart(p, box))
Chain(p) == GoesOn(p, inbox, open, sentRequests, due)

\* the last part taken, unless a head waits in the queue
TakenPart ==
    IF AtBody THEN IF "on_request_body" \in NamesIn(callbacks_) THEN Part("body", request_) ELSE Part("head", request_)
    ELSE Part("body", [n |-> served])

PartsInOrder ==
    ~Closed =>
       /\ "on_headers" \notin NamesIn(callbacks_) => Chain(TakenPart)
       /\ \A d \in HeadsRead(callbacks_) :
             d.part = "head" /\ d.request.n = served + 1 /\ Chain(d)

Place == Phases /\ OneReader /\ FreeIsLast /\ OutputIsCurrent

ConnInv == ConnTypeOK /\ QueueTypeOK /\ Place /\ PartsInOrder
-----------------------------------------------------------------------------
(* The queue: what a callback behind it or taken off it changes.           *)

\* A callback is added.
LEMMA QueueAppend ==
    ASSUME NEW q \in Seq(Callbacks), NEW c \in Callbacks
    PROVE  /\ Append(q, c) \in Seq(Callbacks) /\ Append(q, c) # <<>>
           /\ NamesIn(Append(q, c)) = NamesIn(q) \cup {c.call}
           /\ HeadsRead(Append(q, c)) =
                 HeadsRead(q) \cup (IF c.call = "on_headers" THEN {c.data} ELSE {})
           /\ OneRead(q) /\ (c.call \in ReadCallbacks => NamesIn(q) \cap ReadCallbacks = {})
                 => OneRead(Append(q, c))
           /\ "free" \notin NamesIn(q) => FreeAtEnd(Append(q, c))
<1> DEFINE r == Append(q, c)
<1>1. /\ r \in Seq(Callbacks) /\ r # <<>> /\ Len(r) = Len(q) + 1 /\ Len(q) \in Nat
      /\ DOMAIN q = 1..Len(q) /\ DOMAIN r = 1..Len(q) + 1
      /\ r[Len(q) + 1] = c /\ \A i \in 1..Len(q) : r[i] = q[i]
  BY AppendProperties, LenProperties
<1> HIDE DEF r
<1>2. NamesIn(r) = NamesIn(q) \cup {c.call}
  BY <1>1 DEF NamesIn
<1>3. HeadsRead(r) = HeadsRead(q) \cup (IF c.call = "on_headers" THEN {c.data} ELSE {})
  BY <1>1 DEF HeadsRead
<1>4. OneRead(q) /\ (c.call \in ReadCallbacks => NamesIn(q) \cap ReadCallbacks = {}) => OneRead(r)
  BY <1>1 DEF OneRead, NamesIn
<1>5. "free" \notin NamesIn(q) => FreeAtEnd(r)
  BY <1>1 DEF FreeAtEnd, NamesIn
<1>6. QED
  BY <1>1, <1>2, <1>3, <1>4, <1>5 DEF r

\* The first callback is taken.
LEMMA QueueTail ==
    ASSUME NEW q \in Seq(Callbacks), q # <<>>
    PROVE  /\ Head(q) \in Callbacks /\ Tail(q) \in Seq(Callbacks)
           /\ NamesIn(q) = {Head(q).call} \cup NamesIn(Tail(q))
           /\ HeadsRead(q) = HeadsRead(Tail(q))
                 \cup (IF Head(q).call = "on_headers" THEN {Head(q).data} ELSE {})
           /\ OneRead(q) => /\ OneRead(Tail(q))
                            /\ Head(q).call \in ReadCallbacks
                                  => NamesIn(Tail(q)) \cap ReadCallbacks = {}
           /\ FreeAtEnd(q) => /\ FreeAtEnd(Tail(q))
                              /\ Head(q).call = "free" => Tail(q) = <<>>
<1> DEFINE r == Tail(q)
<1>1. /\ r \in Seq(Callbacks) /\ Len(r) = Len(q) - 1 /\ Len(q) \in Nat \ {0}
      /\ DOMAIN q = 1..Len(q) /\ DOMAIN r = 1..Len(q) - 1
      /\ Head(q) = q[1] /\ Head(q) \in Callbacks /\ \A i \in 1..Len(q) - 1 : r[i] = q[i + 1]
  BY HeadTailProperties, LenProperties, EmptySeq
<1> HIDE DEF r
<1>2. \A i \in DOMAIN q : i = 1 \/ (i - 1 \in DOMAIN r /\ q[i] = r[i - 1])
  BY <1>1
<1>3. NamesIn(q) = {Head(q).call} \cup NamesIn(r)
  <2>1. NamesIn(q) \subseteq {Head(q).call} \cup NamesIn(r)
    BY <1>1, <1>2 DEF NamesIn
  <2>2. Head(q).call \in NamesIn(q)
    BY <1>1 DEF NamesIn
  <2>3. ASSUME NEW i \in DOMAIN r PROVE r[i].call \in NamesIn(q)
    <3>1. i + 1 \in DOMAIN q /\ q[i + 1] = r[i]
      BY <1>1
    <3>2. QED
      BY <3>1 DEF NamesIn
  <2>4. NamesIn(r) \subseteq NamesIn(q)
    BY <2>3 DEF NamesIn
  <2>5. QED
    BY <2>1, <2>2, <2>4
<1>4. HeadsRead(q) = HeadsRead(r) \cup (IF Head(q).call = "on_headers" THEN {Head(q).data} ELSE {})
  <2>1. HeadsRead(q) \subseteq HeadsRead(r) \cup (IF Head(q).call = "on_headers" THEN {Head(q).data} ELSE {})
    BY <1>1, <1>2 DEF HeadsRead
  <2>2. Head(q).call = "on_headers" => Head(q).data \in HeadsRead(q)
    BY <1>1 DEF HeadsRead
  <2>3. ASSUME NEW i \in DOMAIN r, r[i].call = "on_headers" PROVE r[i].data \in HeadsRead(q)
    <3>1. i + 1 \in DOMAIN q /\ q[i + 1] = r[i]
      BY <1>1
    <3>2. QED
      BY <2>3, <3>1 DEF HeadsRead
  <2>4. HeadsRead(r) \subseteq HeadsRead(q)
    BY <2>3 DEF HeadsRead
  <2>5. QED
    BY <2>1, <2>2, <2>4
<1>5. ASSUME OneRead(q)
      PROVE  OneRead(r) /\ (Head(q).call \in ReadCallbacks => NamesIn(r) \cap ReadCallbacks = {})
  <2>1. OneRead(r)
    BY <1>1, <1>5, SMTT(30) DEF OneRead
  <2>2. ASSUME Head(q).call \in ReadCallbacks, NEW i \in DOMAIN r, r[i].call \in ReadCallbacks
        PROVE  FALSE
    <3>1. i + 1 \in DOMAIN q /\ 1 \in DOMAIN q /\ q[i + 1] = r[i] /\ i + 1 # 1
      BY <1>1
    <3>2. QED
      BY <1>1, <1>5, <2>2, <3>1 DEF OneRead
  <2>3. QED
    BY <2>1, <2>2 DEF NamesIn
<1>6. ASSUME FreeAtEnd(q)
      PROVE  FreeAtEnd(r) /\ (Head(q).call = "free" => r = <<>>)
  <2>1. FreeAtEnd(r)
    BY <1>1, <1>6 DEF FreeAtEnd
  <2>2. ASSUME Head(q).call = "free" PROVE r = <<>>
    <3>1. 1 = Len(q)
      BY <1>1, <1>6, <2>2 DEF FreeAtEnd
    <3>2. QED
      BY <1>1, <3>1, EmptySeq
  <2>3. QED
    BY <2>1, <2>2
<1>7. QED
  BY <1>1, <1>3, <1>4, <1>5, <1>6 DEF r

\* A head waits when on_headers does; nothing does in an empty queue.
LEMMA QueueNames ==
    /\ \A q : "on_headers" \in NamesIn(q) <=> HeadsRead(q) # {}
    /\ NamesIn(<<>>) = {} /\ HeadsRead(<<>>) = {} /\ OneRead(<<>>) /\ FreeAtEnd(<<>>)
  BY DEF NamesIn, HeadsRead, OneRead, FreeAtEnd
-----------------------------------------------------------------------------
(* The inbox.                                                              *)

\* A read takes the first part.
LEMMA TakeFirst ==
    ASSUME NEW S, NEW box \in Seq(S), box # <<>>, NEW p, InOrder(p, box)
    PROVE  InOrder(box[1], Tail(box)) /\ LastPart(box[1], Tail(box)) = LastPart(p, box)
<1> DEFINE r == Tail(box)
<1>1. /\ Len(r) = Len(box) - 1 /\ Len(box) \in Nat \ {0} /\ DOMAIN box = 1..Len(box)
      /\ DOMAIN r = 1..Len(box) - 1 /\ \A i \in 1..Len(box) - 1 : r[i] = box[i + 1]
      /\ r \in Seq(S) /\ (r = <<>> => Len(r) = 0)
  BY HeadTailProperties, LenProperties, EmptySeq
<1> HIDE DEF r
<1>0. r # <<>> => Len(r) # 0
  BY <1>1, EmptySeq
<1>2. ASSUME r # <<>> PROVE Follows(box[1], r[1])
  <2>1. 1 \in DOMAIN box /\ 1 + 1 \in DOMAIN box /\ 1 \in 1..Len(box) - 1
    BY <1>0, <1>1, <1>2
  <2>2. Follows(box[1], box[1 + 1])
    BY <2>1 DEF InOrder
  <2>3. QED
    BY <1>1, <2>1, <2>2
<1>3. ASSUME NEW i \in DOMAIN r, i + 1 \in DOMAIN r PROVE Follows(r[i], r[i + 1])
  <2>1. i + 1 \in DOMAIN box /\ i + 1 + 1 \in DOMAIN box
    BY <1>1, <1>3
  <2>2. Follows(box[i + 1], box[i + 1 + 1])
    BY <2>1 DEF InOrder
  <2>3. QED
    BY <1>1, <1>3, <2>2
<1>4. LastPart(box[1], r) = LastPart(p, box)
  BY <1>0, <1>1 DEF LastPart
<1>5. QED
  BY <1>2, <1>3, <1>4 DEF InOrder, r

\* The peer's next part is added.
LEMMA AddPart ==
    ASSUME NEW S, NEW box \in Seq(S), NEW q \in S, NEW p, InOrder(p, box),
           Follows(LastPart(p, box), q)
    PROVE  InOrder(p, Append(box, q)) /\ LastPart(p, Append(box, q)) = q
<1> DEFINE r == Append(box, q)
<1>1. /\ Len(r) = Len(box) + 1 /\ Len(box) \in Nat /\ DOMAIN box = 1..Len(box) /\ r # <<>>
      /\ DOMAIN r = 1..Len(box) + 1 /\ r[Len(box) + 1] = q /\ \A i \in 1..Len(box) : r[i] = box[i]
      /\ box = <<>> <=> Len(box) = 0
  BY AppendProperties, LenProperties, EmptySeq
<1> HIDE DEF r
<1>2. Follows(p, r[1])
  BY <1>1 DEF InOrder, LastPart
<1>3. ASSUME NEW i \in DOMAIN r, i + 1 \in DOMAIN r PROVE Follows(r[i], r[i + 1])
  <2>1. CASE i + 1 = Len(r)
    <3>1. r[i] = LastPart(p, box) /\ r[i + 1] = q
      BY <1>1, <1>3, <2>1 DEF LastPart
    <3>2. QED
      BY <3>1
  <2>2. CASE i + 1 # Len(r)
    <3>1. i \in DOMAIN box /\ i + 1 \in DOMAIN box
      BY <1>1, <1>3, <2>2
    <3>2. QED
      BY <1>1, <3>1 DEF InOrder
  <2>3. QED
    BY <2>1, <2>2
<1>4. LastPart(p, r) = q
  BY <1>1 DEF LastPart
<1>5. QED
  BY <1>2, <1>3, <1>4 DEF InOrder, r

\* A read takes no more than one part, the one that it is for: a head begins where
\* the parts taken before end, and a body is that of the request.
LEMMA ReadTakesFirst ==
    ASSUME ConnInv, NEW kind \in {"headers", "body"}, Starting = kind \/ reading = kind,
           Completes(kind, CallbackOf(kind))
    PROVE  /\ inbox # <<>> /\ inbox[1] \in SentParts /\ inbox' = Tail(inbox) /\ reading' = "none"
           /\ callbacks_' = Append(callbacks_, Given(CallbackOf(kind), inbox[1]))
           /\ NamesIn(callbacks_) \cap ReadCallbacks = {} /\ Chain(TakenPart)
           /\ kind = "headers" => AtHead /\ inbox[1].part = "head" /\ inbox[1].request.n = served + 1
           /\ kind = "body" => AtBody /\ request_.length = "fits" /\ inbox[1] = Part("body", request_)
<1>1. ConnTypeOK /\ QueueTypeOK /\ Phases /\ OneReader /\ PartsInOrder
  BY DEF ConnInv, Place
<1>2. /\ Ends(kind) # {} /\ Ends(kind) \subseteq DOMAIN inbox
      /\ callbacks_' = Append(callbacks_, Given(CallbackOf(kind), inbox[1])) /\ reading' = "none"
  BY DEF Completes, Ends
<1>3. /\ inbox # <<>> /\ inbox \in Seq(SentParts) /\ DOMAIN inbox = 1..Len(inbox)
      /\ Len(inbox) \in Nat \ {0} /\ inbox[1] \in SentParts
  BY <1>1, <1>2, LenProperties, EmptySeq DEF QueueTypeOK
<1>4. NamesIn(callbacks_) \cap ReadCallbacks = {}
  BY <1>1 DEF OneReader, Starting
<1>5. "on_headers" \notin NamesIn(callbacks_) /\ "on_request_body" \notin NamesIn(callbacks_)
  BY <1>4, QueueNames DEF ReadCallbacks
<1>6. (kind = "headers" => AtHead) /\ (kind = "body" => AtBody) /\ ~Closed
  BY <1>1 DEF Phases, Starting, AtHead, AtBody
<1>7. Chain(TakenPart) /\ Follows(TakenPart, inbox[1])
  BY <1>1, <1>3, <1>5, <1>6 DEF PartsInOrder, Chain, GoesOn, InOrder
<1>8. kind = "headers" => inbox[1].part = "head" /\ inbox[1].request.n = served + 1
  <2>1. SUFFICES ASSUME kind = "headers" PROVE inbox[1].part = "head" /\ inbox[1].request.n = served + 1
    OBVIOUS
  <2>2. TakenPart = Part("body", [n |-> served])
    BY <1>6, <2>1 DEF TakenPart, AtHead, AtBody
  <2>3. QED
    BY <1>7, <2>2 DEF Follows, Part
<1>9. kind = "body" => request_.length = "fits" /\ inbox[1] = Part("body", request_)
  <2>1. SUFFICES ASSUME kind = "body" PROVE request_.length = "fits" /\ inbox[1] = Part("body", request_)
    OBVIOUS
  <2>2. TakenPart = Part("head", request_)
    BY <1>5, <1>6, <2>1 DEF TakenPart
  <2>3. request_.length = "fits"
    BY <1>2, <1>6, <2>1 DEF Ends, AtBody
  <2>4. QED
    BY <1>7, <2>2, <2>3 DEF Follows, Part
<1>10. 1 \in Ends(kind)
  BY <1>3, <1>8, <1>9 DEF Ends
<1>11. inbox' = Tail(inbox)
  <2>1. (CHOOSE k \in Ends(kind) : \A j \in Ends(kind) : k <= j) = 1
    BY <1>2, <1>3, <1>10
  <2>2. inbox' = SubSeq(inbox, 1 + 1, Len(inbox))
    BY <2>1 DEF Completes
  <2>3. QED
    BY <1>3, <2>2, TailIsSubSeq
<1>12. QED
  BY <1>2, <1>3, <1>4, <1>6, <1>7, <1>8, <1>9, <1>11
-----------------------------------------------------------------------------
(* Types.                                                                  *)

\* The callbacks that the operations queue.
LEMMA CallbackTypes ==
    /\ \A name \in Names : Call(name) \in Callbacks /\ Call(name).call = name
    /\ \A name \in Names, p \in SentParts :
          Given(name, p) \in Callbacks /\ Given(name, p).call = name /\ Given(name, p).data = p
  BY DEF Call, Given, Callbacks, Part, Null

\* The queue, the inbox and the requests keep their types.
LEMMA QueueTyping == ConnInv /\ [ConnNext]_connVars => QueueTypeOK'
<1> SUFFICES ASSUME ConnInv, [ConnNext]_connVars PROVE QueueTypeOK'
  OBVIOUS
<1>1. ConnTypeOK /\ QueueTypeOK
  BY DEF ConnInv
<1>2. /\ callbacks_ \in Seq(Callbacks) /\ inbox \in Seq(SentParts)
      /\ request_ \in SentRequests \cup {Null} /\ due \in SentRequests \cup {Null}
  BY <1>1 DEF QueueTypeOK
<1>3. ASSUME callbacks_' \in Seq(Callbacks), inbox' \in Seq(SentParts), sentRequests' = sentRequests,
             request_' \in SentRequests \cup {Null}, due' \in SentRequests \cup {Null}
      PROVE  QueueTypeOK'
  <2>1. Callbacks' = Callbacks /\ SentParts' = SentParts /\ SentRequests' = SentRequests
    BY <1>3 DEF Callbacks, SentParts, SentRequests
  <2>2. QED
    BY <1>3, <2>1 DEF QueueTypeOK
<1>4. \A name \in Names : Append(callbacks_, Call(name)) \in Seq(Callbacks)
  BY <1>2, CallbackTypes, QueueAppend
<1>5. callbacks_ # <<>> =>
        /\ Head(callbacks_) \in Callbacks /\ Tail(callbacks_) \in Seq(Callbacks)
        /\ \A name \in Names : Append(Tail(callbacks_), Call(name)) \in Seq(Callbacks)
  BY <1>2, CallbackTypes, QueueAppend, QueueTail
<1>6. ASSUME NEW back, NEW rest \in Seq(Callbacks), FinishRequest(back, rest)
      PROVE  callbacks_' \in Seq(Callbacks) /\ request_' = Null
  BY <1>6, CallbackTypes, QueueAppend DEF FinishRequest, ConnClose, Names
<1>7. ASSUME NEW n, NEW callback \in BOOLEAN, StreamWrite(n, callback)
      PROVE  callbacks_' \in Seq(Callbacks)
  BY <1>2, <1>4, <1>7 DEF StreamWrite, Names
<1>8. ASSUME NEW rest \in Seq(Callbacks), AfterWrite(rest)
      PROVE  callbacks_' \in Seq(Callbacks) /\ request_' \in {request_, Null}
  BY <1>6, <1>8 DEF AfterWrite
<1>9. ASSUME NEW kind \in {"headers", "body"}, Starting = kind \/ reading = kind,
             Completes(kind, CallbackOf(kind))
      PROVE  callbacks_' \in Seq(Callbacks) /\ inbox' \in Seq(SentParts)
  <2>1. /\ inbox # <<>> /\ inbox[1] \in SentParts /\ inbox' = Tail(inbox)
        /\ callbacks_' = Append(callbacks_, Given(CallbackOf(kind), inbox[1]))
    BY <1>9, ReadTakesFirst
  <2>2. Given(CallbackOf(kind), inbox[1]) \in Callbacks
    BY <2>1, CallbackTypes DEF CallbackOf, Names
  <2>3. QED
    BY <1>2, <2>1, <2>2, QueueAppend, HeadTailProperties
<1>10. Starting # "none" => Starting \in {"headers", "body"}
  BY DEF Starting
<1>11. CASE UNCHANGED <<callbacks_, inbox, request_, due, sentRequests>>
  BY <1>2, <1>3, <1>11
<1>12. CASE ReadCompletes
  BY <1>2, <1>3, <1>9, <1>10, <1>12 DEF ReadCompletes, peerVars
<1>13. CASE ReadThrows
  BY <1>2, <1>3, <1>13, EmptySeq DEF ReadThrows, peerVars
<1>14. CASE StreamReads
  <2>1. reading \in {"headers", "body"}
    BY <1>1, <1>14 DEF StreamReads, ConnTypeOK
  <2>2. QED
    BY <1>2, <1>3, <1>9, <1>14, <2>1 DEF StreamReads, peerVars
<1>15. CASE StreamDrains
  BY <1>2, <1>3, <1>4, <1>15 DEF StreamDrains, peerVars, Names
<1>16. CASE StreamErrs
  BY <1>2, <1>3, <1>4, <1>16 DEF StreamErrs, streamVars, peerVars, Names
<1>17. CASE RunStreamClose
  BY <1>2, <1>3, <1>5, <1>17 DEF RunStreamClose, peerVars
<1>18. CASE OnHeadersMalformed
  BY <1>2, <1>3, <1>5, <1>18 DEF OnHeadersMalformed, Running, ConnClose, peerVars, Names
<1>19. CASE OnHeaders
  <2>1. callbacks_ # <<>> /\ Head(callbacks_).data.part = "head"
    BY <1>19 DEF OnHeaders, Running
  <2>2. Head(callbacks_).data.request \in SentRequests
    BY <1>5, <2>1 DEF Callbacks, SentParts, Part
  <2>3. callbacks_' \in Seq(Callbacks)
    BY <1>5, <1>19, <2>1 DEF OnHeaders, ConnClose, Names
  <2>4. QED
    BY <1>2, <1>3, <1>19, <2>2, <2>3 DEF OnHeaders, peerVars
<1>20. CASE Continue
  BY <1>2, <1>3, <1>7, <1>20 DEF Continue, peerVars
<1>21. CASE OnRequestBody
  BY <1>2, <1>3, <1>5, <1>21 DEF OnRequestBody, Running, streamVars, peerVars
<1>22. CASE OnWriteComplete
  <2>1. Tail(callbacks_) \in Seq(Callbacks)
    BY <1>5, <1>22 DEF OnWriteComplete, Running
  <2>2. callbacks_' \in Seq(Callbacks) /\ request_' \in {request_, Null}
    BY <1>8, <1>22, <2>1 DEF OnWriteComplete
  <2>3. QED
    BY <1>2, <1>3, <1>22, <2>2 DEF OnWriteComplete, peerVars
<1>23. CASE RunFree
  BY <1>2, <1>3, <1>5, <1>23 DEF RunFree, Running, streamVars, peerVars
<1>24. ASSUME NEW callback \in BOOLEAN, Write(callback) PROVE QueueTypeOK'
  BY <1>2, <1>3, <1>7, <1>24 DEF Write, peerVars
<1>25. CASE Finish
  <2>1. callbacks_' \in Seq(Callbacks) /\ request_' \in {request_, Null}
    BY <1>2, <1>6, <1>25 DEF Finish
  <2>2. QED
    BY <1>2, <1>3, <1>25, <2>1 DEF Finish, peerVars
<1>26. CASE UserReturns
  <2>1. callbacks_' \in Seq(Callbacks) /\ request_' \in {request_, Null}
    BY <1>2, <1>8, <1>26 DEF UserReturns
  <2>2. QED
    BY <1>2, <1>3, <1>26, <2>1 DEF UserReturns, peerVars
<1>27. ASSUME NEW r \in Requests, PeerSendsHead(r) PROVE QueueTypeOK'
  <2> DEFINE q == Numbered(r, sentRequests + 1)
  <2>1. sentRequests' = sentRequests + 1 /\ sentRequests \in Nat /\ r \in Kinds
    BY <1>1, <1>27, HTTPAssumption DEF PeerSendsHead, ConnTypeOK, HTTPAssumption
  <2>2. SentRequests \subseteq SentRequests' /\ q \in SentRequests'
    BY <2>1 DEF SentRequests, Numbered, Kinds
  <2>3. SentParts \subseteq SentParts' /\ Part("head", q) \in SentParts'
    BY <2>2 DEF SentParts, Part
  <2>4. Callbacks \subseteq Callbacks'
    BY <2>3 DEF Callbacks
  <2>5. callbacks_' \in Seq(Callbacks') /\ inbox \in Seq(SentParts')
    BY <1>2, <1>27, <2>3, <2>4, SeqMonotonic DEF PeerSendsHead
  <2>6. inbox' = Append(inbox, Part("head", q)) /\ due' \in {q, Null} /\ request_' = request_
    BY <1>27 DEF PeerSendsHead
  <2>7. inbox' \in Seq(SentParts')
    BY <2>3, <2>5, <2>6, AppendProperties
  <2> HIDE DEF q
  <2>8. QED
    BY <1>2, <2>2, <2>5, <2>6, <2>7 DEF QueueTypeOK
<1>28. CASE PeerSendsBody
  <2>1. Part("body", due) \in SentParts
    BY <1>2, <1>28 DEF PeerSendsBody, SentParts, Part
  <2>2. QED
    BY <1>2, <1>3, <1>28, <2>1, AppendProperties DEF PeerSendsBody
<1>29. QED
  BY <1>11, <1>12, <1>13, <1>14, <1>15, <1>16, <1>17, <1>18, <1>19, <1>20, <1>21, <1>22, <1>23,
     <1>24, <1>25, <1>26, <1>27, <1>28
     DEF ConnNext, Thread, User, Peer, connVars, streamVars, peerVars, HandleStream, ReadWaits,
         StreamEnds, OnHeadersCrash, OnRequestBodyCrash, PeerCloses

\* The head that on_headers runs with is that of the request after the last one
\* handed over.
LEMMA HeadIsNext ==
    ASSUME ConnInv, Running("on_headers")
    PROVE  /\ AtHead /\ Tail(callbacks_) \in Seq(Callbacks)
           /\ NamesIn(Tail(callbacks_)) \cap ReadCallbacks = {}
           /\ LET d == Head(callbacks_).data
              IN  /\ d.part = "head" /\ d \in SentParts /\ d.request.n = served + 1 /\ Chain(d)
                  /\ HeadsRead(callbacks_) = HeadsRead(Tail(callbacks_)) \cup {d}
<1>1. callbacks_ # <<>> /\ callbacks_ \in Seq(Callbacks) /\ Head(callbacks_).call = "on_headers"
  BY DEF ConnInv, QueueTypeOK, Running
<1>2. /\ Head(callbacks_) \in Callbacks /\ Tail(callbacks_) \in Seq(Callbacks)
      /\ "on_headers" \in NamesIn(callbacks_)
      /\ HeadsRead(callbacks_) = HeadsRead(Tail(callbacks_)) \cup {Head(callbacks_).data}
  BY <1>1, QueueTail
<1>3. AtHead
  BY <1>2, QueueNames DEF ConnInv, Place, Phases
<1>4. NamesIn(Tail(callbacks_)) \cap ReadCallbacks = {}
  BY <1>1, QueueTail DEF ConnInv, Place, OneReader, ReadCallbacks
<1>5. /\ Head(callbacks_).data.part = "head" /\ Head(callbacks_).data.request.n = served + 1
      /\ Chain(Head(callbacks_).data)
  BY <1>2, <1>3 DEF ConnInv, PartsInOrder, AtHead
<1>6. Head(callbacks_).data \in SentParts
  BY <1>2, <1>5 DEF Callbacks, Part
<1>7. QED
  BY <1>2, <1>3, <1>4, <1>5, <1>6

\* The body that on_request_body runs with is that of the request.
LEMMA BodyIsNext ==
    ASSUME ConnInv, Running("on_request_body")
    PROVE  /\ AtBody /\ "on_request_body" \in NamesIn(callbacks_) /\ Tail(callbacks_) \in Seq(Callbacks)
           /\ NamesIn(Tail(callbacks_)) \cap ReadCallbacks = {} /\ "on_headers" \notin NamesIn(callbacks_)
<1>1. /\ callbacks_ # <<>> /\ callbacks_ \in Seq(Callbacks)
      /\ Head(callbacks_).call = "on_request_body" /\ OneRead(callbacks_)
  BY DEF ConnInv, Place, QueueTypeOK, Running, OneReader
<1>2. Tail(callbacks_) \in Seq(Callbacks) /\ "on_request_body" \in NamesIn(callbacks_)
  BY <1>1, QueueTail
<1>3. AtBody /\ ~AtHead /\ "on_request_body" \in NamesIn(callbacks_)
  BY <1>2, QueueNames DEF ConnInv, Place, Phases, AtBody, AtHead
<1>4. "on_headers" \notin NamesIn(callbacks_)
  BY <1>3 DEF ConnInv, Place, Phases
<1>5. NamesIn(Tail(callbacks_)) \cap ReadCallbacks = {}
  BY <1>1, QueueTail DEF ReadCallbacks
<1>6. QED
  BY <1>2, <1>3, <1>4, <1>5

\* The variables keep their types, and the stream's write callback its output.
LEMMA ConnTyping == ConnInv /\ [ConnNext]_connVars => ConnTypeOK'
<1> SUFFICES ASSUME ConnInv, [ConnNext]_connVars PROVE ConnTypeOK'
  OBVIOUS
<1>1. ConnTypeOK /\ QueueTypeOK /\ QueueTypeOK'
  BY QueueTyping DEF ConnInv
<1> DEFINE Rest ==
      /\ no_keep_alive_' \in BOOLEAN /\ request_finished_' \in BOOLEAN
      /\ write_callback_' \in BOOLEAN /\ open' \in BOOLEAN /\ fin' \in BOOLEAN
      /\ held' \in BOOLEAN /\ deleted' \in BOOLEAN /\ streamCallback' \in BOOLEAN
      /\ sentRequests' \in 0..MaxRequests /\ served' \in 0..sentRequests'
      /\ unsent' \in 0..sentRequests'
      /\ reading' \in {"none", "headers", "body"}
      /\ pc' \in {"new", "loop", "user", "written", "readhead", "readbody", "continue",
                  "crashed"}
      /\ ctx' \in {"loop", "user", "written"}
      /\ streamCallback' => unsent' # 0
<1>2. ASSUME Rest PROVE ConnTypeOK'
  <2>1. sentRequests' \in Nat /\ request_'.n \in 0..sentRequests' /\ due'.n \in 0..sentRequests'
    BY <1>1, <1>2, HTTPAssumption DEF HTTPAssumption, QueueTypeOK, SentRequests, Null
  <2>2. \A i \in DOMAIN callbacks_' : callbacks_'[i].call \in Names
    <3>1. callbacks_' \in Seq(Callbacks')
      BY <1>1 DEF QueueTypeOK
    <3>2. \A i \in DOMAIN callbacks_' : callbacks_'[i] \in Callbacks'
      BY <3>1, LenProperties, ElementOfSeq
    <3>3. QED
      BY <3>2 DEF Callbacks
  <2>3. QED
    BY <1>2, <2>1, <2>2 DEF ConnTypeOK
<1>0. sentRequests \in Nat /\ 0 \in 0..sentRequests /\ open \in BOOLEAN
  BY <1>1, HTTPAssumption DEF HTTPAssumption, ConnTypeOK
<1>3. request_ # Null => request_ \in SentRequests /\ request_.n \in 1..sentRequests
  BY <1>1 DEF QueueTypeOK, SentRequests
<1>30. ASSUME NEW callback \in BOOLEAN, request_ # Null, StreamWrite(request_.n, callback)
      PROVE  /\ unsent' \in 0..sentRequests /\ open' \in BOOLEAN
             /\ streamCallback' \in {FALSE, callback} /\ (streamCallback' => unsent' # 0)
  <2>1. request_.n \in 0..sentRequests /\ request_.n # 0
    BY <1>0, <1>3, <1>30
  <2>2. unsent' \in {0, request_.n} /\ open' \in {open, FALSE}
    BY <1>30 DEF StreamWrite
  <2>3. streamCallback' = FALSE \/ (streamCallback' = callback /\ unsent' = request_.n)
    BY <1>30 DEF StreamWrite
  <2>4. QED
    BY <1>0, <2>1, <2>2, <2>3
<1>4. ASSUME NEW back, NEW rest, FinishRequest(back, rest), back \in {"loop", "user", "written"}
      PROVE  /\ request_finished_' \in BOOLEAN /\ open' \in BOOLEAN /\ deleted' \in BOOLEAN
             /\ pc' \in {"readhead", back} /\ ctx' \in {"loop", "user", "written"}
  BY <1>1, <1>4 DEF FinishRequest, ConnClose, ConnTypeOK
<1>5. ASSUME NEW rest, AfterWrite(rest)
      PROVE  /\ request_finished_' \in BOOLEAN /\ open' \in BOOLEAN /\ deleted' \in BOOLEAN
             /\ pc' \in {"readhead", "loop"} /\ ctx' \in {"loop", "user", "written"}
  BY <1>1, <1>4, <1>5 DEF AfterWrite, ConnTypeOK
<1>6. CASE HandleStream
  BY <1>1, <1>2, <1>6 DEF HandleStream, ConnTypeOK, streamVars, peerVars
<1>7. CASE ReadCompletes
  <2>1. reading' = "none" /\ open' \in {open, open /\ ~fin} /\ pc' = ctx /\ ctx' = "loop"
    BY <1>7 DEF ReadCompletes, Completes, Returns
  <2>2. /\ UNCHANGED <<no_keep_alive_, request_, request_finished_, write_callback_, unsent>>
        /\ UNCHANGED <<streamCallback, due, sentRequests, fin, held, served, deleted>>
    BY <1>7 DEF ReadCompletes, peerVars
  <2>3. QED
    BY <1>1, <1>2, <2>1, <2>2 DEF ConnTypeOK
<1>8. CASE ReadWaits
  BY <1>1, <1>2, <1>8 DEF ReadWaits, Starting, Returns, ConnTypeOK, peerVars
<1>9. CASE ReadThrows
  BY <1>1, <1>2, <1>9 DEF ReadThrows, Starting, ConnTypeOK, peerVars
<1>10. CASE StreamReads
  BY <1>1, <1>2, <1>10 DEF StreamReads, Completes, ConnTypeOK, peerVars
<1>11. CASE StreamEnds
  BY <1>1, <1>2, <1>11 DEF StreamEnds, ConnTypeOK, peerVars
<1>12. CASE StreamDrains
  <2>1. unsent' = 0 /\ streamCallback' = FALSE
    BY <1>12 DEF StreamDrains
  <2>2. QED
    BY <1>0, <1>1, <1>2, <1>12, <2>1 DEF StreamDrains, ConnTypeOK, peerVars
<1>13. CASE StreamErrs
  BY <1>1, <1>2, <1>13 DEF StreamErrs, ConnTypeOK, streamVars, peerVars
<1>14. CASE RunStreamClose
  <2>1. /\ open' = FALSE
        /\ UNCHANGED <<no_keep_alive_, request_, request_finished_, write_callback_, unsent, pc, ctx>>
        /\ UNCHANGED <<reading, streamCallback, due, sentRequests, fin, held, served, deleted>>
    BY <1>14 DEF RunStreamClose, peerVars
  <2>2. open' \in BOOLEAN
    BY <2>1
  <2>3. Rest
    BY <1>1, <2>1, <2>2 DEF ConnTypeOK
  <2>4. QED
    BY <1>2, <2>3
<1>15. CASE OnHeadersMalformed
  <2>1. open' = FALSE /\ deleted' = deleted
    BY <1>15 DEF OnHeadersMalformed, ConnClose
  <2>2. UNCHANGED <<no_keep_alive_, request_finished_, write_callback_, reading, unsent,
                    streamCallback, peerVars, pc, ctx, held, served>>
    BY <1>15 DEF OnHeadersMalformed
  <2>3. open' \in BOOLEAN /\ deleted' \in BOOLEAN
    BY <1>1, <2>1 DEF ConnTypeOK
  <2>4. QED
    BY <1>1, <1>2, <2>2, <2>3 DEF ConnTypeOK, peerVars
<1>16. CASE OnHeadersCrash \/ OnRequestBodyCrash
  BY <1>1, <1>2, <1>16 DEF OnHeadersCrash, OnRequestBodyCrash, ConnTypeOK, streamVars, peerVars
<1>17. CASE OnHeaders
  <2>1. served + 1 \in 0..sentRequests
    <3>1. Head(callbacks_).data \in SentParts /\ Head(callbacks_).data.request.n = served + 1
      BY <1>17, HeadIsNext DEF OnHeaders
    <3>2. QED
      BY <3>1, <1>1, HTTPAssumption DEF SentParts, SentRequests, HTTPAssumption, ConnTypeOK
  <2>2. /\ held' \in BOOLEAN /\ open' \in BOOLEAN /\ deleted' \in BOOLEAN
        /\ served' \in {served, served + 1} /\ ctx' \in {"loop", ctx}
        /\ pc' \in {"user", pc, "continue", "readbody"}
    BY <1>1, <1>17 DEF OnHeaders, HandOver, ConnClose, ConnTypeOK
  <2>3. QED
    BY <1>1, <1>2, <1>17, <2>1, <2>2 DEF OnHeaders, ConnTypeOK, peerVars
<1>18. CASE Continue
  <2>1. request_ # Null
    BY <1>18 DEF Continue, ConnInv, Place, Phases, AtBody
  <2>2. unsent' \in 0..sentRequests /\ streamCallback' = FALSE /\ open' \in BOOLEAN
    BY <1>18, <1>30, <2>1 DEF Continue
  <2>3. QED
    BY <1>1, <1>2, <1>18, <2>2 DEF Continue, ConnTypeOK, peerVars
<1>19. CASE OnRequestBody
  <2>1. served + 1 \in 0..sentRequests
    BY <1>1, <1>3, <1>19, BodyIsNext, HTTPAssumption DEF OnRequestBody, AtBody, ConnTypeOK, HTTPAssumption
  <2>2. QED
    BY <1>1, <1>2, <1>19, <2>1 DEF OnRequestBody, HandOver, ConnTypeOK, streamVars, peerVars
<1>20. CASE OnWriteComplete
  <2>1. /\ request_finished_' \in BOOLEAN /\ open' \in BOOLEAN /\ deleted' \in BOOLEAN
        /\ write_callback_' \in BOOLEAN
        /\ pc' \in {"readhead", "loop", "written"} /\ ctx' \in {"loop", "user", "written"}
    BY <1>1, <1>5, <1>20 DEF OnWriteComplete, ConnTypeOK
  <2>2. /\ UNCHANGED <<no_keep_alive_, reading, unsent, streamCallback, due, sentRequests, fin>>
        /\ UNCHANGED <<held, served>>
    BY <1>20 DEF OnWriteComplete, peerVars
  <2>3. QED
    BY <1>1, <1>2, <2>1, <2>2 DEF ConnTypeOK
<1>21. CASE RunFree
  BY <1>1, <1>2, <1>21 DEF RunFree, ConnTypeOK, streamVars, peerVars
<1>22. ASSUME NEW callback \in BOOLEAN, Write(callback) PROVE ConnTypeOK'
  <2>1. request_ # Null
    BY <1>22 DEF Write, UserCode, ConnInv, Place, Phases
  <2>2. unsent' \in 0..sentRequests /\ streamCallback' \in BOOLEAN /\ (streamCallback' => unsent' # 0)
        /\ open' \in BOOLEAN
    BY <1>22, <1>30, <2>1 DEF Write
  <2>3. QED
    BY <1>1, <1>2, <1>22, <2>2 DEF Write, ConnTypeOK, peerVars
<1>23. CASE Finish
  <2>1. pc \in {"loop", "user", "written"}
    BY <1>23 DEF Finish, UserCode
  <2>2. QED
    BY <1>1, <1>2, <1>4, <1>23, <2>1 DEF Finish, ConnTypeOK, peerVars
<1>24. CASE UserReturns
  BY <1>1, <1>2, <1>5, <1>24 DEF UserReturns, ConnTypeOK, peerVars
<1>25. ASSUME NEW r \in Requests, PeerSendsHead(r) PROVE ConnTypeOK'
  BY <1>1, <1>2, <1>25, HTTPAssumption DEF PeerSendsHead, ConnTypeOK, HTTPAssumption
<1>26. CASE PeerSendsBody
  BY <1>1, <1>2, <1>26 DEF PeerSendsBody, ConnTypeOK
<1>27. CASE PeerCloses
  BY <1>1, <1>2, <1>27 DEF PeerCloses, ConnTypeOK, streamVars
<1>28. CASE UNCHANGED connVars
  BY <1>1, <1>2, <1>28 DEF connVars, ConnTypeOK, streamVars, peerVars
<1>29. QED
  BY <1>6, <1>7, <1>8, <1>9, <1>10, <1>11, <1>12, <1>13, <1>14, <1>15, <1>16, <1>17, <1>18, <1>19,
     <1>20, <1>21, <1>22, <1>23, <1>24, <1>25, <1>26, <1>27, <1>28
     DEF ConnNext, Thread, User, Peer
-----------------------------------------------------------------------------
(* The place the connection is at.                                         *)

\* A callback other than a read's is added to the queue while the stream is open.
LEMMA OtherQueued ==
    ASSUME ConnInv, NEW name \in Names \ ReadCallbacks, ~Closed
    PROVE  LET q == Append(callbacks_, Call(name))
           IN  /\ NamesIn(q) = NamesIn(callbacks_) \cup {name} /\ OneRead(q) /\ FreeAtEnd(q)
               /\ HeadsRead(q) = HeadsRead(callbacks_)
<1>1. callbacks_ \in Seq(Callbacks) /\ OneRead(callbacks_) /\ "free" \notin NamesIn(callbacks_)
  BY DEF ConnInv, Place, QueueTypeOK, OneReader, Closed
<1>2. Call(name) \in Callbacks /\ Call(name).call = name
  BY CallbackTypes
<1>3. QED
  BY <1>1, <1>2, QueueAppend DEF ReadCallbacks

\* The first callback is run.
LEMMA FirstTaken ==
    ASSUME ConnInv, callbacks_ # <<>>
    PROVE  LET q == Tail(callbacks_)
           IN  /\ q \in Seq(Callbacks) /\ OneRead(q) /\ FreeAtEnd(q) /\ ~deleted
               /\ NamesIn(callbacks_) = NamesIn(q) \cup {Head(callbacks_).call}
               /\ Head(callbacks_).call = "free" => q = <<>>
               /\ Head(callbacks_).call # "on_headers" => HeadsRead(q) = HeadsRead(callbacks_)
<1>1. /\ callbacks_ \in Seq(Callbacks) /\ OneRead(callbacks_) /\ FreeAtEnd(callbacks_)
      /\ deleted \in BOOLEAN /\ (deleted => callbacks_ = <<>>)
  BY DEF ConnInv, Place, QueueTypeOK, OneReader, FreeIsLast, ConnTypeOK
<1>2. QED
  BY <1>1, QueueTail

\* While the user has a request or its output waits, nothing is read.
LEMMA AtRequest ==
    ASSUME ConnInv, held \/ request_finished_
    PROVE  /\ request_ # Null /\ request_.n = served /\ ~Closed /\ ~AtHead /\ ~AtBody
           /\ reading = "none" /\ NamesIn(callbacks_) \cap ReadCallbacks = {}
           /\ pc \notin {"new", "readhead", "continue", "readbody"}
           /\ ~(held /\ request_finished_)
<1>1. /\ request_ # Null /\ request_.n = served /\ ~Closed /\ ~AtHead /\ ~AtBody
      /\ ~(held /\ request_finished_)
  BY DEF ConnInv, Place, Phases, AtHead, AtBody
<1>2. /\ pc \notin {"new", "readhead", "continue", "readbody"}
      /\ reading = "none" /\ NamesIn(callbacks_) \cap ReadCallbacks = {}
  BY <1>1 DEF ConnInv, Place, Phases, ConnTypeOK, ReadCallbacks
<1>3. QED
  BY <1>1, <1>2

\* A step that leaves the queue, the request and what is read alone.
LEMMA PlaceStays ==
    ASSUME ConnInv, UNCHANGED <<request_, request_finished_, held, served, deleted, callbacks_>>,
           open' \in {open, FALSE}, unsent' \in {0, unsent, request_.n}, reading' = reading,
           \/ pc' = pc
           \/ pc' \in {"loop", "user", "written", "crashed"}
           \/ pc \in {"new", "readhead"} /\ pc' \in {"new", "readhead"}
           \/ pc \in {"continue", "readbody"} /\ pc' \in {"continue", "readbody"}
    PROVE  Place'
<1>1. (AtHead' <=> AtHead) /\ (AtBody' <=> AtBody) /\ (Closed' <=> Closed)
  BY DEF AtHead, AtBody, Closed
<1>2. Phases'
  <2>0. Phases
    BY DEF ConnInv, Place
  <2>1. /\ pc' \in {"new", "readhead"} => pc \in {"new", "readhead"}
        /\ pc' \in {"continue", "readbody"} => pc \in {"continue", "readbody"}
    OBVIOUS
  <2>2. Closed => ~open'
    BY <2>0 DEF Phases
  <2>3. QED
    BY <1>1, <2>0, <2>1, <2>2 DEF Phases
<1>3. OneReader'
  BY DEF ConnInv, Place, OneReader
<1>4. FreeIsLast' /\ OutputIsCurrent'
  BY <1>1 DEF ConnInv, Place, FreeIsLast, OutputIsCurrent
<1>5. QED
  BY <1>2, <1>3, <1>4 DEF Place

\* The queue changes, and no callback of a read is added: those that are left are
\* the same.
LEMMA QueueChanges ==
    ASSUME ConnInv, UNCHANGED <<request_, request_finished_, held, served, deleted, reading, pc>>,
           open' \in {open, FALSE}, unsent' \in {0, unsent, request_.n},
           OneRead(callbacks_'), FreeAtEnd(callbacks_'), deleted => callbacks_' = <<>>,
           NamesIn(callbacks_') \cap ReadCallbacks \subseteq NamesIn(callbacks_),
           "free" \in NamesIn(callbacks_') <=> "free" \in NamesIn(callbacks_)
    PROVE  Place'
<1>1. (AtHead' <=> AtHead) /\ (AtBody' <=> AtBody) /\ (Closed' <=> Closed)
  BY DEF AtHead, AtBody, Closed
<1>2. Phases'
  <2>0. Phases
    BY DEF ConnInv, Place
  <2>1. /\ "on_headers" \in NamesIn(callbacks_') => "on_headers" \in NamesIn(callbacks_)
        /\ "on_request_body" \in NamesIn(callbacks_') => "on_request_body" \in NamesIn(callbacks_)
    BY DEF ReadCallbacks
  <2>2. Closed => ~open'
    BY <2>0 DEF Phases
  <2>3. QED
    BY <1>1, <2>0, <2>1, <2>2 DEF Phases
<1>3. OneReader'
  BY DEF ConnInv, Place, OneReader
<1>4. FreeIsLast' /\ OutputIsCurrent'
  BY <1>1 DEF ConnInv, Place, FreeIsLast, OutputIsCurrent
<1>5. QED
  BY <1>2, <1>3, <1>4 DEF Place

\* A read ends: its callback waits instead.
LEMMA PlaceAfterRead ==
    ASSUME ConnInv, NEW kind \in {"headers", "body"}, Starting = kind \/ reading = kind,
           Completes(kind, CallbackOf(kind)), open' \in BOOLEAN,
           pc' \in {"loop", "user", "written"},
           UNCHANGED <<request_, request_finished_, held, served, deleted, unsent>>
    PROVE  Place'
<1>1. /\ inbox[1] \in SentParts /\ reading' = "none"
      /\ callbacks_' = Append(callbacks_, Given(CallbackOf(kind), inbox[1]))
      /\ NamesIn(callbacks_) \cap ReadCallbacks = {}
      /\ (kind = "headers" => AtHead) /\ (kind = "body" => AtBody)
  BY ReadTakesFirst
<1>2. callbacks_ \in Seq(Callbacks) /\ OneRead(callbacks_) /\ ~Closed
  BY <1>1 DEF ConnInv, Place, QueueTypeOK, OneReader, AtHead, AtBody
<1>3. /\ Given(CallbackOf(kind), inbox[1]) \in Callbacks
      /\ Given(CallbackOf(kind), inbox[1]).call = CallbackOf(kind)
  BY <1>1, CallbackTypes DEF CallbackOf, Names
<1>4. /\ NamesIn(callbacks_') = NamesIn(callbacks_) \cup {CallbackOf(kind)}
      /\ OneRead(callbacks_') /\ FreeAtEnd(callbacks_')
  BY <1>1, <1>2, <1>3, QueueAppend DEF Closed
<1>5. (AtHead' <=> AtHead) /\ (AtBody' <=> AtBody) /\ ~Closed'
  BY <1>2, <1>4 DEF AtHead, AtBody, Closed, CallbackOf
<1>6. Phases'
  <2>1. /\ "on_headers" \in NamesIn(callbacks_') => kind = "headers"
        /\ "on_request_body" \in NamesIn(callbacks_') => kind = "body"
    BY <1>1, <1>4 DEF CallbackOf, ReadCallbacks
  <2>2. ~held /\ ~request_finished_
    BY <1>1 DEF AtHead, AtBody
  <2>3. QED
    BY <1>1, <1>5, <2>1, <2>2 DEF Phases
<1>7. OneReader'
  BY <1>1, <1>4 DEF OneReader
<1>8. FreeIsLast' /\ OutputIsCurrent'
  BY <1>2, <1>4, <1>5 DEF ConnInv, Place, FreeIsLast, OutputIsCurrent, Closed
<1>9. QED
  BY <1>6, <1>7, <1>8 DEF Place

\* A request is finished: the connection is at the next head, or closed.
LEMMA PlaceAfterFinish ==
    ASSUME ConnInv, NEW back \in {"loop", "user", "written"}, NEW rest \in Seq(Callbacks),
           held \/ request_finished_, NamesIn(rest) \subseteq NamesIn(callbacks_),
           OneRead(rest), FreeAtEnd(rest), unsent = 0,
           FinishRequest(back, rest),
           held' = FALSE, UNCHANGED <<reading, unsent, served>>
    PROVE  Place'
<1>1. /\ ~Closed /\ reading = "none" /\ NamesIn(callbacks_) \cap ReadCallbacks = {}
      /\ "free" \notin NamesIn(rest) /\ NamesIn(rest) \cap ReadCallbacks = {} /\ ~deleted
  BY AtRequest DEF Closed
<1>2. request_' = Null /\ ~request_finished_' /\ deleted' = deleted
  BY DEF FinishRequest, ConnClose
<1>3. CASE callbacks_' = rest /\ open' = open /\ pc' = "readhead"
  <2>1. AtHead' /\ ~Closed'
    BY <1>1, <1>2, <1>3 DEF AtHead, Closed
  <2>2. Phases'
    BY <1>1, <1>2, <1>3, <2>1 DEF Phases, ReadCallbacks
  <2>3. OneReader' /\ FreeIsLast' /\ OutputIsCurrent'
    BY <1>1, <1>2, <1>3 DEF OneReader, FreeIsLast, OutputIsCurrent
  <2>4. QED
    BY <2>2, <2>3 DEF Place
<1>4. CASE callbacks_' = Append(rest, Call("free")) /\ open' = FALSE /\ pc' = back
  <2>1. Call("free") \in Callbacks /\ Call("free").call = "free"
    BY CallbackTypes DEF Names
  <2>2. /\ NamesIn(callbacks_') = NamesIn(rest) \cup {"free"}
        /\ OneRead(callbacks_') /\ FreeAtEnd(callbacks_')
    BY <1>1, <1>4, <2>1, QueueAppend DEF ReadCallbacks
  <2>3. Closed' /\ NamesIn(callbacks_') \cap ReadCallbacks = {}
    BY <1>1, <2>2 DEF Closed, ReadCallbacks
  <2>4. Phases'
    BY <1>1, <1>2, <1>4, <2>3 DEF Phases, ReadCallbacks
  <2>5. OneReader' /\ FreeIsLast' /\ OutputIsCurrent'
    BY <1>1, <1>2, <1>4, <2>2, <2>3 DEF OneReader, FreeIsLast, OutputIsCurrent
  <2>6. QED
    BY <2>4, <2>5 DEF Place
<1>5. QED
  BY <1>3, <1>4 DEF FinishRequest, ConnClose

\* The user gets the request.
LEMMA PlaceHandedOver ==
    ASSUME ConnInv, AtHead \/ AtBody, HandOver, callbacks_ # <<>>,
           Head(callbacks_).call \in ReadCallbacks, callbacks_' = Tail(callbacks_),
           request_' # Null, request_'.n = served + 1,
           unsent \in {0, request_'.n}, UNCHANGED <<open, unsent, reading, request_finished_, deleted>>
    PROVE  Place'
<1>1. /\ OneRead(callbacks_') /\ FreeAtEnd(callbacks_') /\ ~deleted
      /\ NamesIn(callbacks_) = NamesIn(callbacks_') \cup {Head(callbacks_).call}
  BY FirstTaken
<1>2. NamesIn(callbacks_') \cap ReadCallbacks = {} /\ reading = "none"
  <2>1. callbacks_ \in Seq(Callbacks) /\ OneRead(callbacks_) /\ OneReader
    BY DEF ConnInv, Place, QueueTypeOK, OneReader
  <2>2. NamesIn(callbacks_') \cap ReadCallbacks = {}
    BY <2>1, QueueTail
  <2>3. QED
    BY <1>1, <2>1, <2>2 DEF OneReader
<1>3. ~Closed' /\ ~request_finished_
  BY <1>1 DEF AtHead, AtBody, Closed
<1>4. Phases'
  BY <1>2, <1>3 DEF Phases, HandOver, ReadCallbacks
<1>5. OneReader' /\ FreeIsLast' /\ OutputIsCurrent'
  BY <1>1, <1>2 DEF OneReader, FreeIsLast, OutputIsCurrent, HandOver
<1>6. QED
  BY <1>4, <1>5 DEF Place

\* Every step leaves the connection at a place.
LEMMA PlaceKeeps == ConnInv /\ [ConnNext]_connVars => Place'
<1> SUFFICES ASSUME ConnInv, [ConnNext]_connVars PROVE Place'
  OBVIOUS
<1>1. ConnTypeOK /\ QueueTypeOK /\ Phases /\ OneReader /\ OutputIsCurrent
  BY DEF ConnInv, Place
<1>2. /\ ctx \in {"loop", "user", "written"} /\ open \in BOOLEAN /\ fin \in BOOLEAN
      /\ served \in Nat /\ callbacks_ \in Seq(Callbacks) /\ OneRead(callbacks_)
  BY <1>1, HTTPAssumption DEF ConnTypeOK, QueueTypeOK, OneReader, HTTPAssumption
<1>3. Starting # "none" => /\ Starting \in {"headers", "body"} /\ reading = "none"
                           /\ NamesIn(callbacks_) \cap ReadCallbacks = {}
                           /\ (Starting = "headers" => AtHead) /\ (Starting = "body" => AtBody)
  BY <1>1 DEF Starting, OneReader, Phases
<1>4. ASSUME AfterWrite(IF pc = "loop" THEN Tail(callbacks_) ELSE callbacks_),
             pc = "written" \/ (pc = "loop" /\ Running("on_write_complete")),
             UNCHANGED <<reading, unsent, held, served>>
      PROVE  Place'
  <2> DEFINE rest == IF pc = "loop" THEN Tail(callbacks_) ELSE callbacks_
  <2>1. /\ rest \in Seq(Callbacks) /\ OneRead(rest)
        /\ NamesIn(rest) \subseteq NamesIn(callbacks_) /\ FreeAtEnd(rest)
        /\ (deleted => rest = <<>>)
        /\ ("free" \in NamesIn(rest) <=> "free" \in NamesIn(callbacks_))
    BY <1>2, <1>4, FirstTaken DEF Running, ConnInv, Place, FreeIsLast
  <2> HIDE DEF rest
  <2>2. AfterWrite(rest)
    BY <1>4 DEF rest
  <2>3. CASE request_finished_ /\ unsent = 0
    <3>1. FinishRequest("loop", rest)
      BY <2>2, <2>3 DEF AfterWrite
    <3>2. ~held
      BY <2>3, AtRequest
    <3>3. held' = FALSE
      BY <1>1, <1>4, <3>2 DEF ConnTypeOK
    <3>4. QED
      BY <1>4, <2>1, <2>3, <3>1, <3>3, PlaceAfterFinish
  <2>4. CASE ~(request_finished_ /\ unsent = 0)
    <3>1. callbacks_' = rest /\ pc' = "loop" /\ UNCHANGED <<request_, request_finished_, open, deleted>>
      BY <2>2, <2>4 DEF AfterWrite
    <3>2. CASE pc = "loop"
      BY <1>4, <2>1, <3>1, <3>2, QueueChanges
    <3>3. CASE pc = "written"
      <4>1. callbacks_' = callbacks_
        BY <3>1, <3>3 DEF rest
      <4>2. QED
        BY <1>4, <3>1, <4>1, PlaceStays
    <3>4. QED
      BY <1>4, <3>2, <3>3
  <2>5. QED
    BY <2>3, <2>4
<1>5. ASSUME NEW n, NEW callback, StreamWrite(n, callback), request_ # Null, n = request_.n,
             pc' = pc \/ (pc = "continue" /\ pc' = "readbody" /\ ~callback), ~Closed,
             UNCHANGED <<request_, request_finished_, held, served, deleted, reading>>
      PROVE  Place'
  <2>1. unsent' \in {0, request_.n} /\ open' \in {open, FALSE}
    BY <1>5 DEF StreamWrite
  <2>2. callbacks_' = callbacks_ \/ (callback /\ callbacks_' = Append(callbacks_, Call("on_write_complete")))
    BY <1>5 DEF StreamWrite
  <2>3. CASE callbacks_' = callbacks_
    BY <1>5, <2>1, <2>3, PlaceStays
  <2>4. CASE callback /\ callbacks_' = Append(callbacks_, Call("on_write_complete"))
    <3>1. "on_write_complete" \in Names \ ReadCallbacks /\ ~deleted
      BY <1>5 DEF Names, ReadCallbacks, Closed
    <3>2. /\ NamesIn(callbacks_') = NamesIn(callbacks_) \cup {"on_write_complete"}
          /\ OneRead(callbacks_') /\ FreeAtEnd(callbacks_')
      BY <1>5, <2>4, <3>1, OtherQueued
    <3>3. NamesIn(callbacks_') \cap ReadCallbacks \subseteq NamesIn(callbacks_)
      BY <3>1, <3>2
    <3>4. QED
      BY <1>5, <2>1, <2>4, <3>1, <3>2, <3>3, QueueChanges
  <2>5. QED
    BY <2>2, <2>3, <2>4
<1>6. CASE HandleStream
  BY <1>6, PlaceStays DEF HandleStream, streamVars
<1>7. CASE ReadCompletes
  BY <1>2, <1>3, <1>7, PlaceAfterRead DEF ReadCompletes, Returns
<1>8. CASE ReadWaits \/ ReadThrows
  <2>1. /\ Starting # "none" /\ reading' = Starting /\ open' \in BOOLEAN
        /\ pc' \in {"loop", "user", "written"}
        /\ UNCHANGED <<request_, request_finished_, held, served, deleted, callbacks_, unsent>>
    BY <1>2, <1>8 DEF ReadWaits, ReadThrows, Returns
  <2>2. (AtHead' <=> AtHead) /\ (AtBody' <=> AtBody) /\ (Closed' <=> Closed) /\ ~Closed
    BY <1>3, <2>1 DEF AtHead, AtBody, Closed
  <2>3. ~held /\ ~request_finished_
    BY <1>3, <2>1 DEF AtHead, AtBody
  <2>4. Phases'
    BY <1>3, <2>1, <2>2, <2>3 DEF Phases, ReadCallbacks
  <2>5. OneReader'
    BY <1>2, <1>3, <2>1 DEF OneReader
  <2>6. FreeIsLast' /\ OutputIsCurrent'
    BY <2>1, <2>2 DEF ConnInv, Place, FreeIsLast, OutputIsCurrent
  <2>7. QED
    BY <2>4, <2>5, <2>6 DEF Place
<1>9. CASE StreamReads
  <2>1. reading \in {"headers", "body"}
    BY <1>1, <1>9 DEF StreamReads, ConnTypeOK
  <2>2. QED
    BY <1>2, <1>9, <2>1, PlaceAfterRead DEF StreamReads
<1>10. CASE StreamEnds
  BY <1>10, PlaceStays DEF StreamEnds
<1>11. CASE StreamDrains \/ StreamErrs
  <2>1. ~Closed /\ UNCHANGED <<request_, request_finished_, held, served, deleted, reading, pc, open>>
    BY <1>1, <1>11 DEF StreamDrains, StreamErrs, Phases, streamVars
  <2>2. PICK name \in {"on_write_complete", "IOStream::close"} :
           callbacks_' = callbacks_ \/ callbacks_' = Append(callbacks_, Call(name))
    BY <1>11 DEF StreamDrains, StreamErrs
  <2>3. unsent' \in {0, unsent}
    BY <1>11 DEF StreamDrains, StreamErrs, streamVars
  <2>4. CASE callbacks_' = callbacks_
    BY <2>1, <2>3, <2>4, PlaceStays
  <2>5. CASE callbacks_' = Append(callbacks_, Call(name))
    <3>1. name \in Names \ ReadCallbacks /\ name # "free" /\ ~deleted
      BY <2>1 DEF Names, ReadCallbacks, Closed
    <3>2. /\ NamesIn(callbacks_') = NamesIn(callbacks_) \cup {name}
          /\ OneRead(callbacks_') /\ FreeAtEnd(callbacks_')
      BY <2>1, <2>5, <3>1, OtherQueued
    <3>3. NamesIn(callbacks_') \cap ReadCallbacks \subseteq NamesIn(callbacks_)
      BY <3>1, <3>2
    <3>4. QED
      BY <2>1, <2>3, <3>1, <3>2, <3>3, QueueChanges
  <2>6. QED
    BY <2>2, <2>4, <2>5
<1>12. CASE RunStreamClose
  <2>1. /\ callbacks_ # <<>> /\ Head(callbacks_).call = "IOStream::close"
        /\ callbacks_' = Tail(callbacks_) /\ open' = FALSE
        /\ UNCHANGED <<request_, request_finished_, held, served, deleted, reading, pc, unsent>>
    BY <1>12 DEF RunStreamClose
  <2>2. /\ NamesIn(callbacks_) = NamesIn(callbacks_') \cup {"IOStream::close"}
        /\ OneRead(callbacks_') /\ FreeAtEnd(callbacks_') /\ ~deleted
    BY <2>1, FirstTaken
  <2>3. QED
    BY <2>1, <2>2, QueueChanges
<1>13. CASE OnHeadersMalformed
  <2>1. Running("on_headers")
    BY <1>13 DEF OnHeadersMalformed
  <2>2. /\ AtHead /\ Tail(callbacks_) \in Seq(Callbacks)
        /\ NamesIn(Tail(callbacks_)) \cap ReadCallbacks = {} /\ "on_headers" \in NamesIn(callbacks_)
        /\ OneRead(Tail(callbacks_)) /\ NamesIn(Tail(callbacks_)) \subseteq NamesIn(callbacks_)
    BY <2>1, HeadIsNext, FirstTaken DEF Running
  <2>3. /\ callbacks_' = Append(Tail(callbacks_), Call("free")) /\ open' = FALSE
        /\ UNCHANGED <<request_, request_finished_, held, served, deleted, reading, pc, unsent>>
    BY <1>13 DEF OnHeadersMalformed, ConnClose, streamVars
  <2>4. /\ NamesIn(callbacks_') = NamesIn(Tail(callbacks_)) \cup {"free"}
        /\ OneRead(callbacks_') /\ FreeAtEnd(callbacks_')
    <3>1. Call("free") \in Callbacks /\ Call("free").call = "free" /\ "free" \notin ReadCallbacks
      BY CallbackTypes DEF Names, ReadCallbacks
    <3>2. "free" \notin NamesIn(Tail(callbacks_))
      BY <2>2 DEF AtHead, Closed
    <3>3. QED
      BY <2>2, <2>3, <3>1, <3>2, QueueAppend
  <2>5. /\ Closed' /\ NamesIn(callbacks_') \cap ReadCallbacks = {} /\ ~deleted
        /\ reading = "none" /\ pc \notin {"new", "readhead", "continue", "readbody"}
    BY <1>1, <2>2, <2>4 DEF Closed, ReadCallbacks, AtHead, OneReader
  <2>6. Phases'
    BY <2>2, <2>3, <2>5 DEF Phases, ReadCallbacks, AtHead
  <2>7. OneReader' /\ FreeIsLast' /\ OutputIsCurrent'
    BY <2>3, <2>4, <2>5 DEF OneReader, FreeIsLast, OutputIsCurrent
  <2>8. QED
    BY <2>6, <2>7 DEF Place
<1>14. CASE OnHeadersCrash \/ OnRequestBodyCrash
  BY <1>14, PlaceStays DEF OnHeadersCrash, OnRequestBodyCrash, streamVars
<1>15. CASE OnHeaders
  <2> DEFINE r == Head(callbacks_).data.request
  <2>1. Running("on_headers") /\ pc = "loop" /\ callbacks_ # <<>> /\ Head(callbacks_).call = "on_headers"
    BY <1>15 DEF OnHeaders, Running
  <2>2. /\ AtHead /\ Tail(callbacks_) \in Seq(Callbacks) /\ r \in SentRequests /\ r.n = served + 1
        /\ NamesIn(Tail(callbacks_)) \cap ReadCallbacks = {}
    BY <2>1, HeadIsNext DEF SentParts
  <2>3. /\ OneRead(Tail(callbacks_)) /\ FreeAtEnd(Tail(callbacks_)) /\ ~deleted
        /\ NamesIn(Tail(callbacks_)) \subseteq NamesIn(callbacks_) /\ "on_headers" \in NamesIn(callbacks_)
        /\ "free" \notin NamesIn(Tail(callbacks_))
    BY <2>1, <2>2, FirstTaken DEF AtHead, Closed
  <2>4. request_' = r /\ UNCHANGED <<request_finished_, reading, unsent>>
    BY <1>15 DEF OnHeaders
  <2>5. unsent = 0 /\ reading = "none" /\ r.n # 0 /\ r # Null
    BY <1>1, <1>2, <2>2, <2>3 DEF AtHead, OutputIsCurrent, OneReader, Null, ReadCallbacks
  <2> HIDE DEF r
  <2>6. CASE HandOver /\ callbacks_' = Tail(callbacks_) /\ UNCHANGED <<open, deleted>>
    BY <2>1, <2>2, <2>4, <2>5, <2>6, PlaceHandedOver DEF ReadCallbacks
  <2>7. CASE ConnClose(Tail(callbacks_)) /\ UNCHANGED <<pc, held, served>>
    <3>1. Call("free") \in Callbacks /\ Call("free").call = "free" /\ "free" \notin ReadCallbacks
      BY CallbackTypes DEF Names, ReadCallbacks
    <3>2. /\ NamesIn(callbacks_') = NamesIn(Tail(callbacks_)) \cup {"free"}
          /\ OneRead(callbacks_') /\ FreeAtEnd(callbacks_')
      BY <2>2, <2>3, <2>7, <3>1, QueueAppend DEF ConnClose
    <3>3. Closed' /\ NamesIn(callbacks_') \cap ReadCallbacks = {} /\ open' = FALSE /\ deleted' = deleted
      BY <2>2, <2>7, <3>1, <3>2 DEF Closed, ConnClose
    <3>4. Phases'
      BY <2>1, <2>2, <2>4, <2>5, <2>7, <3>3 DEF Phases, ReadCallbacks, AtHead
    <3>5. OneReader' /\ FreeIsLast' /\ OutputIsCurrent'
      BY <2>1, <2>3, <2>4, <2>5, <2>7, <3>2, <3>3 DEF OneReader, FreeIsLast, OutputIsCurrent
    <3>6. QED
      BY <3>4, <3>5 DEF Place
  <2>8. CASE /\ HasBody(r) /\ r.length # "long"
             /\ pc' \in {"continue", "readbody"}
             /\ callbacks_' = Tail(callbacks_)
             /\ UNCHANGED <<open, held, served, deleted>>
    <3>1. r.length \in {"fits", "zero"}
      BY <2>2, <2>8 DEF HasBody, SentRequests
    <3>2. AtBody' /\ ~Closed'
      BY <2>2, <2>3, <2>4, <2>5, <2>8, <3>1 DEF AtBody, AtHead, Closed
    <3>3. Phases'
      BY <2>2, <2>4, <2>5, <2>8, <3>2 DEF Phases, ReadCallbacks, AtHead
    <3>4. OneReader' /\ FreeIsLast' /\ OutputIsCurrent'
      BY <2>2, <2>3, <2>4, <2>5, <2>8 DEF OneReader, FreeIsLast, OutputIsCurrent
    <3>5. QED
      BY <3>3, <3>4 DEF Place
  <2>9. QED
    BY <1>15, <2>6, <2>7, <2>8 DEF OnHeaders, r
<1>16. CASE Continue
  <2>1. AtBody /\ request_ # Null /\ ~Closed
    BY <1>1, <1>16 DEF Continue, Phases, AtBody
  <2>2. QED
    BY <1>5, <1>16, <2>1 DEF Continue
<1>17. CASE OnRequestBody
  <2>1. Running("on_request_body")
    BY <1>17 DEF OnRequestBody
  <2>2. /\ AtBody /\ callbacks_ # <<>> /\ Head(callbacks_).call \in ReadCallbacks
        /\ request_ # Null /\ request_.n = served + 1 /\ unsent \in {0, request_.n}
    BY <1>1, <2>1, BodyIsNext DEF Running, ReadCallbacks, AtBody, OutputIsCurrent
  <2>3. HandOver /\ callbacks_' = Tail(callbacks_)
        /\ UNCHANGED <<open, unsent, reading, request_, request_finished_, deleted>>
    BY <1>17 DEF OnRequestBody, streamVars
  <2>4. QED
    BY <2>2, <2>3, PlaceHandedOver
<1>18. CASE OnWriteComplete
  <2>1. Running("on_write_complete") /\ pc = "loop" /\ UNCHANGED <<reading, unsent, held, served>>
    BY <1>18 DEF OnWriteComplete, Running
  <2>2. CASE /\ pc' = "written" /\ callbacks_' = Tail(callbacks_)
             /\ UNCHANGED <<request_, request_finished_, open, deleted>>
    <3>1. /\ OneRead(callbacks_') /\ FreeAtEnd(callbacks_') /\ ~deleted
          /\ NamesIn(callbacks_) = NamesIn(callbacks_') \cup {"on_write_complete"}
      BY <2>1, <2>2, FirstTaken DEF Running
    <3>2. (AtHead' <=> AtHead) /\ (AtBody' <=> AtBody) /\ (Closed' <=> Closed)
      BY <2>1, <2>2, <3>1 DEF AtHead, AtBody, Closed
    <3>3. Phases'
      BY <1>1, <2>1, <2>2, <3>1, <3>2 DEF Phases
    <3>4. OneReader' /\ FreeIsLast' /\ OutputIsCurrent'
      BY <1>1, <2>1, <2>2, <3>1, <3>2 DEF OneReader, FreeIsLast, OutputIsCurrent
    <3>5. QED
      BY <3>3, <3>4 DEF Place
  <2>3. CASE AfterWrite(Tail(callbacks_))
    BY <1>4, <2>1, <2>3
  <2>4. QED
    BY <1>18, <2>2, <2>3 DEF OnWriteComplete
<1>19. CASE RunFree
  <2>1. /\ Running("free") /\ deleted' = TRUE /\ callbacks_' = Tail(callbacks_)
        /\ UNCHANGED <<request_, request_finished_, held, served, open, reading, pc, unsent>>
    BY <1>19 DEF RunFree, streamVars
  <2>2. callbacks_' = <<>> /\ "free" \in NamesIn(callbacks_)
    BY <2>1, FirstTaken DEF Running
  <2>3. Closed /\ Closed' /\ NamesIn(callbacks_') = {} /\ OneRead(callbacks_') /\ FreeAtEnd(callbacks_')
    BY <2>1, <2>2, QueueNames DEF Closed
  <2>4. Phases'
    BY <1>1, <2>1, <2>3 DEF Phases, AtHead, AtBody
  <2>5. OneReader' /\ FreeIsLast' /\ OutputIsCurrent'
    BY <1>1, <2>1, <2>2, <2>3 DEF OneReader, FreeIsLast, OutputIsCurrent
  <2>6. QED
    BY <2>4, <2>5 DEF Place
<1>20. ASSUME NEW callback \in BOOLEAN, Write(callback) PROVE Place'
  <2>1. StreamWrite(request_.n, TRUE) /\ held
        /\ UNCHANGED <<request_, request_finished_, held, served, deleted, reading, pc>>
    BY <1>20 DEF Write, UserCode
  <2>2. request_ # Null /\ ~Closed
    BY <2>1, AtRequest
  <2>3. QED
    BY <1>5, <2>1, <2>2
<1>21. CASE Finish
  <2>1. /\ held /\ held' = FALSE /\ pc \in {"user", "written", "loop"}
        /\ UNCHANGED <<reading, unsent, served>>
    BY <1>21 DEF Finish, UserCode
  <2>2. CASE unsent = 0
    <3>1. FinishRequest(pc, callbacks_) /\ FreeAtEnd(callbacks_)
      BY <1>21, <2>2 DEF Finish, ConnInv, Place, FreeIsLast
    <3>2. QED
      BY <1>2, <2>1, <2>2, <3>1, PlaceAfterFinish
  <2>3. CASE unsent # 0
    <3>1. request_finished_' = TRUE /\ UNCHANGED <<request_, open, callbacks_, pc, deleted>>
      BY <1>21, <2>3 DEF Finish
    <3>2. /\ request_ # Null /\ request_.n = served /\ ~Closed /\ reading = "none"
          /\ NamesIn(callbacks_) \cap ReadCallbacks = {}
      BY <2>1, AtRequest
    <3>3. (Closed' <=> Closed) /\ FreeIsLast /\ OutputIsCurrent
      BY <3>1 DEF Closed, ConnInv, Place
    <3>4. Phases'
      BY <1>1, <2>1, <3>1, <3>2, <3>3 DEF Phases, ReadCallbacks
    <3>5. OneReader' /\ FreeIsLast' /\ OutputIsCurrent'
      BY <1>2, <2>1, <3>1, <3>2, <3>3 DEF OneReader, FreeIsLast, OutputIsCurrent
    <3>6. QED
      BY <3>4, <3>5 DEF Place
  <2>4. QED
    BY <2>2, <2>3
<1>22. CASE UserReturns
  <2>1. CASE pc = "user" /\ pc' = "loop"
             /\ UNCHANGED <<request_, request_finished_, open, callbacks_, ctx, deleted>>
    BY <1>22, <2>1, PlaceStays DEF UserReturns
  <2>2. CASE pc = "written" /\ AfterWrite(callbacks_)
    BY <1>4, <1>22, <2>2 DEF UserReturns
  <2>3. QED
    BY <1>22, <2>1, <2>2 DEF UserReturns
<1>23. CASE Peer \/ UNCHANGED connVars
  BY <1>23, PlaceStays DEF Peer, PeerSendsHead, PeerSendsBody, PeerCloses, connVars, streamVars
<1>24. QED
  BY <1>6, <1>7, <1>8, <1>9, <1>10, <1>11, <1>12, <1>13, <1>14, <1>15, <1>16, <1>17, <1>18, <1>19,
     <1>20, <1>21, <1>22, <1>23 DEF ConnNext, Thread, User
-----------------------------------------------------------------------------
(* The peer's parts.                                                       *)

\* Two parts after which no body is due, of requests with the same number.
LEMMA SameEnd ==
    ASSUME NEW p, NEW q, p.request.n = q.request.n,
           ~(p.part = "head" /\ p.request.length = "fits"), q.part = "body",
           NEW box, NEW on, NEW sent, NEW owed, GoesOn(p, box, on, sent, owed)
    PROVE  GoesOn(q, box, on, sent, owed)
<1>1. DueAfter(p) = DueAfter(q) /\ \A x : Follows(p, x) <=> Follows(q, x)
  BY DEF DueAfter, Follows
<1>2. InOrder(q, box)
  BY <1>1 DEF GoesOn, InOrder
<1>3. /\ LastPart(q, box).request.n = LastPart(p, box).request.n
      /\ DueAfter(LastPart(q, box)) = DueAfter(LastPart(p, box))
  BY <1>1 DEF LastPart
<1>4. QED
  BY <1>2, <1>3 DEF GoesOn

\* The peer sends the next part.
LEMMA PeerGoesOn ==
    ASSUME ConnInv, NEW p, p.part = "head" => p.request # Null, Chain(p), open,
           (\E r \in Requests : PeerSendsHead(r)) \/ PeerSendsBody
    PROVE  GoesOn(p, inbox', open', sentRequests', due')
<1> DEFINE l == LastPart(p, inbox)
<1>1. /\ inbox \in Seq(SentParts) /\ InOrder(p, inbox) /\ sentRequests = l.request.n
      /\ due = DueAfter(l) /\ due \in SentRequests \cup {Null}
  BY DEF ConnInv, QueueTypeOK, Chain, GoesOn
<1>2. l.part = "head" => l.request # Null
  <2>1. CASE inbox = <<>>
    BY <2>1 DEF LastPart
  <2>2. CASE inbox # <<>>
    <3>1. l \in SentParts
      BY <1>1, <2>2, LenProperties, EmptySeq, ElementOfSeq DEF LastPart
    <3>2. l.request.n \in 1..sentRequests
      BY <3>1 DEF SentParts, SentRequests
    <3>3. QED
      BY <3>2 DEF Null
  <2>3. QED
    BY <2>1, <2>2
<1> HIDE DEF l
<1>3. ASSUME NEW q, inbox' = Append(inbox, q), Follows(l, q), q \in SentParts',
             sentRequests' = q.request.n, due' = DueAfter(q), SentParts \subseteq SentParts'
      PROVE  GoesOn(p, inbox', open', sentRequests', due')
  <2>1. inbox \in Seq(SentParts')
    BY <1>1, <1>3, SeqMonotonic
  <2>2. InOrder(p, Append(inbox, q)) /\ LastPart(p, Append(inbox, q)) = q
    BY <1>1, <1>3, <2>1, AddPart DEF l
  <2>3. QED
    BY <1>3, <2>2 DEF GoesOn
<1>4. ASSUME NEW r \in Requests, PeerSendsHead(r)
      PROVE  GoesOn(p, inbox', open', sentRequests', due')
  <2> DEFINE m == Numbered(r, sentRequests + 1)
             q == Part("head", m)
  <2>1. sentRequests \in Nat /\ r \in Kinds /\ sentRequests' = sentRequests + 1
    BY <1>4, HTTPAssumption DEF ConnInv, ConnTypeOK, PeerSendsHead, HTTPAssumption
  <2>2. SentRequests \subseteq SentRequests' /\ m \in SentRequests'
    BY <2>1 DEF SentRequests, Numbered, Kinds
  <2>3. SentParts \subseteq SentParts' /\ q \in SentParts'
    BY <2>2 DEF SentParts, Part
  <2>4. m.n = sentRequests + 1 /\ m.length = r.length /\ q.part = "head" /\ q.request = m
    BY DEF Numbered, Part
  <2>5. inbox' = Append(inbox, q) /\ due' = IF r.length = "fits" THEN m ELSE Null
    BY <1>4 DEF PeerSendsHead
  <2>6. due = Null
    BY <1>4 DEF PeerSendsHead
  <2> HIDE DEF q, m
  <2>7. Follows(l, q)
    BY <1>1, <1>2, <2>4, <2>6 DEF Follows, DueAfter
  <2>8. due' = DueAfter(q)
    BY <2>4, <2>5 DEF DueAfter
  <2>9. QED
    BY <1>3, <2>1, <2>3, <2>4, <2>5, <2>7, <2>8
<1>5. CASE PeerSendsBody
  <2> DEFINE q == Part("body", due)
  <2>1. /\ due # Null /\ inbox' = Append(inbox, q) /\ due' = Null /\ sentRequests' = sentRequests
    BY <1>5 DEF PeerSendsBody
  <2>2. l.part = "head" /\ l.request.length = "fits" /\ due = l.request
    BY <1>1, <2>1 DEF DueAfter
  <2>3. Follows(l, q) /\ DueAfter(q) = Null /\ q.request.n = sentRequests
    BY <1>1, <2>2 DEF Follows, DueAfter, Part
  <2>4. q \in SentParts /\ SentParts' = SentParts
    BY <1>1, <2>1 DEF SentParts, SentRequests, Part
  <2>5. QED
    BY <1>3, <2>1, <2>3, <2>4
<1>6. QED
  BY <1>4, <1>5

\* A step that leaves the parts and the place among them alone.
LEMMA PartsStay ==
    ASSUME ConnInv, Closed => Closed', TakenPart' = TakenPart,
           UNCHANGED <<inbox, sentRequests, due, served>>, open' \in {open, FALSE},
           HeadsRead(callbacks_') = HeadsRead(callbacks_)
    PROVE  PartsInOrder'
<1>1. \A q : "on_headers" \in NamesIn(q) <=> HeadsRead(q) # {}
  BY QueueNames
<1>2. \A p : Chain(p) => GoesOn(p, inbox', open', sentRequests', due')
  BY DEF Chain, GoesOn
<1>3. SUFFICES ASSUME ~Closed'
               PROVE  /\ "on_headers" \notin NamesIn(callbacks_') => GoesOn(TakenPart, inbox', open', sentRequests', due')
                      /\ \A d \in HeadsRead(callbacks_') :
                            /\ d.part = "head" /\ d.request.n = served + 1
                            /\ GoesOn(d, inbox', open', sentRequests', due')
  BY DEF PartsInOrder, Chain
<1>4. PartsInOrder /\ ~Closed
  BY <1>3 DEF ConnInv
<1>5. QED
  BY <1>1, <1>2, <1>4 DEF PartsInOrder

\* Every step leaves the parts in order.
LEMMA PartsKeep == ConnInv /\ [ConnNext]_connVars => PartsInOrder'
<1> SUFFICES ASSUME ConnInv, [ConnNext]_connVars PROVE PartsInOrder'
  OBVIOUS
<1>1. ConnTypeOK /\ QueueTypeOK /\ Phases /\ OneReader /\ PartsInOrder
  BY DEF ConnInv, Place
<1>2. /\ callbacks_ \in Seq(Callbacks) /\ open \in BOOLEAN /\ served \in Nat
      /\ \A q : "on_headers" \in NamesIn(q) <=> HeadsRead(q) # {}
  BY <1>1, QueueNames, HTTPAssumption DEF QueueTypeOK, ConnTypeOK, HTTPAssumption
<1>3. Closed' => PartsInOrder'
  BY DEF PartsInOrder
<1>4. ASSUME UNCHANGED <<request_, request_finished_, held, served, deleted>>,
             UNCHANGED <<inbox, sentRequests, due>>, open' \in {open, FALSE},
             HeadsRead(callbacks_') = HeadsRead(callbacks_),
             "free" \in NamesIn(callbacks_') <=> "free" \in NamesIn(callbacks_),
             "on_request_body" \in NamesIn(callbacks_') <=> "on_request_body" \in NamesIn(callbacks_)
      PROVE  PartsInOrder'
  <2>1. (AtBody' <=> AtBody) /\ (Closed' <=> Closed)
    BY <1>4 DEF AtBody, Closed
  <2>2. TakenPart' = TakenPart
    BY <1>4, <2>1 DEF TakenPart
  <2>3. QED
    BY <1>4, <2>1, <2>2, PartsStay
<1>5. ASSUME NEW name \in Names \ (ReadCallbacks \cup {"free"}), ~Closed,
             callbacks_' = callbacks_ \/ callbacks_' = Append(callbacks_, Call(name)),
             UNCHANGED <<request_, request_finished_, held, served, deleted>>,
             UNCHANGED <<inbox, sentRequests, due>>, open' \in {open, FALSE}
      PROVE  PartsInOrder'
  <2>1. CASE callbacks_' = callbacks_
    BY <1>4, <1>5, <2>1
  <2>2. CASE callbacks_' = Append(callbacks_, Call(name))
    <3>1. /\ NamesIn(callbacks_') = NamesIn(callbacks_) \cup {name}
          /\ HeadsRead(callbacks_') = HeadsRead(callbacks_)
      BY <1>5, <2>2, OtherQueued
    <3>2. QED
      BY <1>4, <1>5, <3>1 DEF ReadCallbacks
  <2>3. QED
    BY <1>5, <2>1, <2>2
<1>6. ASSUME callbacks_ # <<>>, Head(callbacks_).call \notin ReadCallbacks \cup {"free"},
             callbacks_' = Tail(callbacks_),
             UNCHANGED <<request_, request_finished_, held, served, deleted>>,
             UNCHANGED <<inbox, sentRequests, due>>, open' \in {open, FALSE}
      PROVE  PartsInOrder'
  <2>1. /\ NamesIn(callbacks_) = NamesIn(callbacks_') \cup {Head(callbacks_).call}
        /\ HeadsRead(callbacks_') = HeadsRead(callbacks_)
    BY <1>6, FirstTaken DEF ReadCallbacks
  <2>2. QED
    BY <1>4, <1>6, <2>1 DEF ReadCallbacks
<1>7. ASSUME NEW back, NEW rest, FinishRequest(back, rest), held \/ request_finished_, held' = FALSE,
             HeadsRead(rest) = HeadsRead(callbacks_), "free" \in NamesIn(rest) <=> "free" \in NamesIn(callbacks_),
             rest \in Seq(Callbacks), UNCHANGED <<served, inbox, sentRequests, due>>
      PROVE  PartsInOrder'
  <2>1. ~Closed /\ ~AtBody
    BY <1>7, AtRequest
  <2>2. CASE callbacks_' = rest /\ open' = open
    <3>1. request_' = Null
      BY <1>7 DEF FinishRequest
    <3>2. TakenPart' = TakenPart
      BY <1>7, <2>1, <3>1 DEF TakenPart, AtBody
    <3>3. QED
      BY <1>7, <2>1, <2>2, <3>2, PartsStay
  <2>3. CASE callbacks_' = Append(rest, Call("free"))
    <3>1. Call("free") \in Callbacks /\ Call("free").call = "free"
      BY CallbackTypes DEF Names
    <3>2. Closed'
      BY <1>7, <2>3, <3>1, QueueAppend DEF Closed
    <3>3. QED
      BY <1>3, <3>2
  <2>4. QED
    BY <1>7, <2>2, <2>3 DEF FinishRequest, ConnClose
<1>8. ASSUME AfterWrite(IF pc = "loop" THEN Tail(callbacks_) ELSE callbacks_),
             pc = "written" \/ (pc = "loop" /\ Running("on_write_complete")),
             UNCHANGED <<held, served, inbox, sentRequests, due>>
      PROVE  PartsInOrder'
  <2> DEFINE rest == IF pc = "loop" THEN Tail(callbacks_) ELSE callbacks_
  <2>1. /\ rest \in Seq(Callbacks) /\ HeadsRead(rest) = HeadsRead(callbacks_)
        /\ ("free" \in NamesIn(rest) <=> "free" \in NamesIn(callbacks_))
    BY <1>2, <1>8, FirstTaken DEF Running
  <2>2. AfterWrite(rest)
    BY <1>8
  <2>3. CASE request_finished_ /\ unsent = 0
    <3>1. FinishRequest("loop", rest)
      BY <2>2, <2>3 DEF AfterWrite
    <3>2. ~held /\ held \in BOOLEAN
      BY <1>1, <2>3, AtRequest DEF ConnTypeOK
    <3>3. held' = FALSE
      BY <1>8, <3>2
    <3> HIDE DEF rest
    <3>4. QED
      BY <1>7, <1>8, <2>1, <2>3, <3>1, <3>3
  <2>4. CASE ~(request_finished_ /\ unsent = 0)
    <3>1. callbacks_' = rest /\ UNCHANGED <<request_, request_finished_, open, deleted>>
      BY <2>2, <2>4 DEF AfterWrite
    <3>2. CASE pc = "loop"
      BY <1>6, <1>8, <3>1, <3>2 DEF Running, ReadCallbacks
    <3>3. CASE pc = "written"
      <4>1. callbacks_' = callbacks_
        BY <3>1, <3>3
      <4>2. QED
        BY <1>4, <1>8, <3>1, <4>1
    <3>4. QED
      BY <1>8, <3>2, <3>3
  <2>5. QED
    BY <2>3, <2>4
<1>9. ASSUME NEW kind \in {"headers", "body"}, Starting = kind \/ reading = kind,
             Completes(kind, CallbackOf(kind)), open' \in {open, FALSE},
             UNCHANGED <<request_, request_finished_, held, served, deleted, sentRequests, due>>
      PROVE  PartsInOrder'
  <2> DEFINE part == inbox[1]
  <2>1. /\ inbox # <<>> /\ part \in SentParts /\ inbox' = Tail(inbox)
        /\ callbacks_' = Append(callbacks_, Given(CallbackOf(kind), part))
        /\ NamesIn(callbacks_) \cap ReadCallbacks = {} /\ Chain(TakenPart)
        /\ (kind = "headers" => AtHead /\ part.part = "head" /\ part.request.n = served + 1)
        /\ (kind = "body" => AtBody /\ part = Part("body", request_))
    BY <1>9, ReadTakesFirst
  <2>2. /\ NamesIn(callbacks_') = NamesIn(callbacks_) \cup {CallbackOf(kind)}
        /\ HeadsRead(callbacks_') = IF kind = "headers" THEN {part} ELSE {}
    <3>1. /\ Given(CallbackOf(kind), part) \in Callbacks
          /\ Given(CallbackOf(kind), part).call = CallbackOf(kind)
          /\ Given(CallbackOf(kind), part).data = part
      BY <2>1, CallbackTypes DEF CallbackOf, Names
    <3>2. HeadsRead(callbacks_) = {}
      BY <1>2, <2>1 DEF ReadCallbacks
    <3>3. QED
      BY <1>2, <2>1, <3>1, <3>2, QueueAppend DEF CallbackOf
  <2>3. GoesOn(part, inbox', open', sentRequests', due')
    <3>1. InOrder(TakenPart, inbox) /\ inbox \in Seq(SentParts)
      BY <1>1, <2>1 DEF Chain, GoesOn, QueueTypeOK
    <3>2. InOrder(part, inbox') /\ LastPart(part, inbox') = LastPart(TakenPart, inbox)
      BY <2>1, <3>1, TakeFirst
    <3>3. open' => open
      BY <1>9
    <3>4. open => /\ sentRequests = LastPart(TakenPart, inbox).request.n
                  /\ due = DueAfter(LastPart(TakenPart, inbox))
      BY <2>1 DEF Chain, GoesOn
    <3> HIDE DEF part
    <3>5. QED
      BY <1>9, <3>2, <3>3, <3>4 DEF GoesOn
  <2> HIDE DEF part
  <2>4. CASE kind = "headers"
    <3>1. "on_headers" \in NamesIn(callbacks_') /\ HeadsRead(callbacks_') = {part}
      BY <2>2, <2>4 DEF CallbackOf
    <3>2. QED
      BY <1>9, <2>1, <2>3, <2>4, <3>1 DEF PartsInOrder, Chain
  <2>5. CASE kind = "body"
    <3>1. /\ "on_request_body" \in NamesIn(callbacks_') /\ HeadsRead(callbacks_') = {}
          /\ ("free" \in NamesIn(callbacks_') <=> "free" \in NamesIn(callbacks_))
      BY <2>2, <2>5 DEF CallbackOf
    <3>2. AtBody'
      BY <1>9, <2>1, <2>5, <3>1 DEF AtBody, Closed
    <3>3. TakenPart' = part
      BY <1>9, <2>1, <2>5, <3>1, <3>2 DEF TakenPart
    <3>4. QED
      BY <2>3, <3>1, <3>3 DEF PartsInOrder, Chain
  <2>6. QED
    BY <2>4, <2>5
<1>10. CASE HandleStream \/ ReadWaits \/ StreamEnds \/ OnHeadersCrash \/ OnRequestBodyCrash \/ PeerCloses \/ UNCHANGED connVars
  BY <1>2, <1>4, <1>10
     DEF HandleStream, ReadWaits, StreamEnds, OnHeadersCrash, OnRequestBodyCrash,
         PeerCloses, connVars, streamVars, peerVars, ConnTypeOK
<1>11. CASE ReadCompletes
  <2>1. Starting \in {"headers", "body"} /\ open' \in {open, FALSE}
    BY <1>2, <1>11 DEF ReadCompletes, Starting
  <2>2. QED
    BY <1>9, <1>11, <2>1 DEF ReadCompletes, peerVars
<1>12. CASE ReadThrows
  <2>1. /\ UNCHANGED <<request_, request_finished_, held, served, deleted, callbacks_>>
        /\ UNCHANGED <<sentRequests, due>>
        /\ open' = FALSE /\ inbox' \in {inbox, <<>>}
    BY <1>12 DEF ReadThrows, peerVars
  <2>2. CASE inbox' = inbox
    BY <1>4, <2>1, <2>2
  <2>3. CASE inbox' = <<>>
    <3>1. \A p : GoesOn(p, inbox', open', sentRequests', due')
      BY <2>1, <2>3 DEF GoesOn, InOrder
    <3>2. Closed' <=> Closed
      BY <2>1 DEF Closed
    <3>3. \A d \in HeadsRead(callbacks_') : ~Closed => d.part = "head" /\ d.request.n = served' + 1
      BY <1>1, <2>1 DEF PartsInOrder
    <3>4. QED
      BY <3>1, <3>2, <3>3 DEF PartsInOrder, Chain
  <2>4. QED
    BY <2>1, <2>2, <2>3
<1>13. CASE StreamReads
  <2>1. reading \in {"headers", "body"} /\ open' \in {open, FALSE}
    BY <1>1, <1>2, <1>13 DEF StreamReads, ConnTypeOK
  <2>2. QED
    BY <1>9, <1>13, <2>1 DEF StreamReads, peerVars
<1>14. CASE StreamDrains \/ StreamErrs
  <2>1. ~Closed
    BY <1>1, <1>14 DEF Phases, StreamDrains, StreamErrs
  <2>2. PICK name \in {"on_write_complete", "IOStream::close"} :
           callbacks_' = callbacks_ \/ callbacks_' = Append(callbacks_, Call(name))
    BY <1>14 DEF StreamDrains, StreamErrs
  <2>3. name \in Names \ (ReadCallbacks \cup {"free"})
    BY DEF Names, ReadCallbacks
  <2>4. /\ UNCHANGED <<request_, request_finished_, held, served, deleted>>
        /\ UNCHANGED <<inbox, sentRequests, due, open>>
    BY <1>14 DEF StreamDrains, StreamErrs, streamVars, peerVars
  <2>5. QED
    BY <1>5, <2>1, <2>2, <2>3, <2>4
<1>15. CASE RunStreamClose
  BY <1>6, <1>15 DEF RunStreamClose, peerVars, ReadCallbacks
<1>16. ASSUME Running("on_headers"), ConnClose(Tail(callbacks_)) PROVE PartsInOrder'
  <2>1. Tail(callbacks_) \in Seq(Callbacks) /\ Call("free") \in Callbacks /\ Call("free").call = "free"
    BY <1>16, HeadIsNext, CallbackTypes DEF Names
  <2>2. Closed'
    BY <1>16, <2>1, QueueAppend DEF ConnClose, Closed
  <2>3. QED
    BY <1>3, <2>2
<1>17. CASE OnHeaders
  <2> DEFINE d == Head(callbacks_).data
  <2>1. Running("on_headers") /\ request_' = d.request
    BY <1>17 DEF OnHeaders
  <2>2. /\ AtHead /\ d.part = "head" /\ d \in SentParts /\ d.request.n = served + 1 /\ Chain(d)
        /\ NamesIn(Tail(callbacks_)) \cap ReadCallbacks = {}
    BY <2>1, HeadIsNext
  <2>3. d = Part("head", d.request) /\ d.request # Null
    BY <1>2, <2>2 DEF SentParts, Part, Null
  <2>4. UNCHANGED <<inbox, sentRequests, due, request_finished_>>
    BY <1>17 DEF OnHeaders, peerVars
  <2>5. NamesIn(callbacks_) = NamesIn(Tail(callbacks_)) \cup {"on_headers"} /\ ~deleted
    BY <2>1, FirstTaken DEF Running
  <2>6. CASE ConnClose(Tail(callbacks_))
    BY <1>16, <2>1, <2>6
  <2>7. CASE callbacks_' = Tail(callbacks_) /\ UNCHANGED <<open, deleted>>
    <3>1. /\ "on_headers" \notin NamesIn(callbacks_') /\ "on_request_body" \notin NamesIn(callbacks_')
          /\ HeadsRead(callbacks_') = {} /\ ~Closed'
      BY <1>2, <2>2, <2>5, <2>7 DEF ReadCallbacks, Closed, AtHead
    <3>2. GoesOn(d, inbox', open', sentRequests', due')
      BY <2>2, <2>4, <2>7 DEF Chain
    <3>3. CASE ~HasBody(d.request) /\ HandOver
      <4>1. TakenPart' = Part("body", [n |-> served + 1])
        BY <3>3 DEF TakenPart, AtBody, HandOver
      <4>2. GoesOn(TakenPart', inbox', open', sentRequests', due')
        <5>1. /\ d.request.length # "fits"
              /\ TakenPart'.part = "body" /\ TakenPart'.request.n = d.request.n
          BY <2>2, <3>3, <4>1 DEF HasBody, Part
        <5>2. QED
          BY <3>2, <5>1, SameEnd
      <4>3. QED
        BY <3>1, <4>2 DEF PartsInOrder, Chain
    <3>4. CASE HasBody(d.request) /\ d.request.length # "long" /\ UNCHANGED <<held, served>>
      <4>1. AtBody'
        BY <2>1, <2>2, <2>3, <2>4, <3>1, <3>4 DEF AtBody, AtHead, HasBody, SentParts, SentRequests
      <4>2. TakenPart' = d
        BY <2>1, <2>3, <3>1, <4>1 DEF TakenPart
      <4>3. QED
        BY <3>1, <3>2, <4>2 DEF PartsInOrder, Chain
    <3>5. QED
      BY <1>17, <1>16, <2>1, <3>3, <3>4 DEF OnHeaders
  <2>8. QED
    BY <1>17, <2>6, <2>7 DEF OnHeaders
<1>18. CASE OnHeadersMalformed
  BY <1>16, <1>18 DEF OnHeadersMalformed
<1>19. ASSUME NEW n, NEW callback, StreamWrite(n, callback), ~Closed,
              UNCHANGED <<request_, request_finished_, held, served, deleted>>,
              UNCHANGED <<inbox, sentRequests, due>>
       PROVE  PartsInOrder'
  <2>1. open' \in {open, FALSE}
    BY <1>19 DEF StreamWrite
  <2>2. callbacks_' = callbacks_ \/ callbacks_' = Append(callbacks_, Call("on_write_complete"))
    BY <1>19 DEF StreamWrite
  <2>3. "on_write_complete" \in Names \ (ReadCallbacks \cup {"free"})
    BY DEF Names, ReadCallbacks
  <2>4. QED
    BY <1>5, <1>19, <2>1, <2>2, <2>3
<1>20. CASE Continue
  <2>1. ~Closed
    BY <1>1, <1>20 DEF Continue, Phases, AtBody
  <2>2. QED
    BY <1>19, <1>20, <2>1 DEF Continue, peerVars
<1>21. CASE OnRequestBody
  <2>1. Running("on_request_body") /\ HandOver /\ callbacks_' = Tail(callbacks_)
        /\ UNCHANGED <<request_, request_finished_, open, inbox, sentRequests, due, deleted>>
    BY <1>21 DEF OnRequestBody, streamVars, peerVars
  <2>2. /\ AtBody /\ "on_request_body" \in NamesIn(callbacks_) /\ "on_headers" \notin NamesIn(callbacks_)
        /\ NamesIn(Tail(callbacks_)) \cap ReadCallbacks = {}
    BY <2>1, BodyIsNext
  <2>3. TakenPart = Part("body", request_) /\ Chain(TakenPart) /\ ~Closed
    BY <1>1, <2>2 DEF TakenPart, PartsInOrder, AtBody
  <2>4. TakenPart' = Part("body", [n |-> served + 1]) /\ request_.n = served + 1
    BY <2>1, <2>2 DEF TakenPart, AtBody, HandOver
  <2>5. GoesOn(TakenPart, inbox', open', sentRequests', due')
    BY <2>1, <2>3 DEF Chain
  <2>6. GoesOn(TakenPart', inbox', open', sentRequests', due')
    <3>1. /\ TakenPart.part = "body" /\ TakenPart'.part = "body"
          /\ TakenPart'.request.n = TakenPart.request.n
      BY <2>3, <2>4 DEF Part
    <3>2. QED
      BY <2>5, <3>1, SameEnd
  <2>7. HeadsRead(callbacks_') = {}
    BY <1>2, <2>1, <2>2 DEF ReadCallbacks
  <2>8. QED
    BY <2>6, <2>7 DEF PartsInOrder, Chain
<1>22. CASE OnWriteComplete
  <2>1. /\ Running("on_write_complete") /\ pc = "loop"
        /\ UNCHANGED <<held, served, inbox, sentRequests, due>>
    BY <1>22 DEF OnWriteComplete, Running, peerVars
  <2>2. CASE AfterWrite(Tail(callbacks_))
    BY <1>8, <2>1, <2>2
  <2>3. CASE callbacks_' = Tail(callbacks_) /\ UNCHANGED <<request_, request_finished_, open, deleted>>
    BY <1>6, <2>1, <2>3 DEF Running, ReadCallbacks
  <2>4. QED
    BY <1>22, <2>2, <2>3 DEF OnWriteComplete
<1>23. CASE RunFree
  BY <1>3, <1>23 DEF RunFree, Closed
<1>24. ASSUME NEW callback \in BOOLEAN, Write(callback) PROVE PartsInOrder'
  <2>1. held /\ StreamWrite(request_.n, TRUE)
        /\ UNCHANGED <<request_, request_finished_, held, served, deleted>>
        /\ UNCHANGED <<inbox, sentRequests, due>>
    BY <1>24 DEF Write, UserCode, peerVars
  <2>2. ~Closed
    BY <2>1, AtRequest
  <2>3. QED
    BY <1>19, <2>1, <2>2
<1>25. CASE Finish
  <2>1. held /\ held' = FALSE /\ UNCHANGED <<served, inbox, sentRequests, due>>
    BY <1>25 DEF Finish, UserCode, peerVars
  <2>2. CASE FinishRequest(pc, callbacks_)
    BY <1>2, <1>7, <2>1, <2>2
  <2>3. CASE UNCHANGED <<request_, open, callbacks_, deleted>>
    <3>1. ~Closed /\ ~AtBody
      BY <2>1, AtRequest
    <3>2. ~AtBody' /\ (Closed' <=> Closed)
      BY <1>2, <2>1, <2>3, AtRequest DEF AtBody, Closed
    <3>3. TakenPart' = TakenPart
      BY <2>1, <3>1, <3>2 DEF TakenPart
    <3>4. QED
      BY <2>1, <2>3, <3>2, <3>3, PartsStay
  <2>4. QED
    BY <1>25, <2>2, <2>3 DEF Finish
<1>26. CASE UserReturns
  <2>1. UNCHANGED <<held, served, inbox, sentRequests, due>>
    BY <1>26 DEF UserReturns, peerVars
  <2>2. CASE UNCHANGED <<request_, request_finished_, open, callbacks_, deleted>>
    BY <1>4, <2>1, <2>2
  <2>3. CASE pc = "written" /\ AfterWrite(callbacks_)
    BY <1>8, <2>1, <2>3
  <2>4. QED
    BY <1>26, <2>2, <2>3 DEF UserReturns
<1>27. CASE (\E r \in Requests : PeerSendsHead(r)) \/ PeerSendsBody
  <2>1. /\ UNCHANGED <<request_, request_finished_, held, served, deleted, callbacks_, open>> /\ open
    BY <1>27 DEF PeerSendsHead, PeerSendsBody
  <2>2. (AtBody' <=> AtBody) /\ (Closed' <=> Closed) /\ ~Closed
    BY <1>1, <2>1 DEF AtBody, Closed, Phases
  <2>3. TakenPart' = TakenPart /\ (TakenPart.part = "head" => TakenPart.request # Null)
    BY <2>1, <2>2 DEF TakenPart, AtBody, Part
  <2>4. ASSUME "on_headers" \notin NamesIn(callbacks_')
        PROVE  GoesOn(TakenPart', inbox', open', sentRequests', due')
    <3>1. Chain(TakenPart)
      BY <1>1, <2>1, <2>2, <2>4 DEF PartsInOrder
    <3>2. QED
      BY <1>27, <2>1, <2>3, <3>1, PeerGoesOn
  <2>5. ASSUME NEW d \in HeadsRead(callbacks_')
        PROVE  /\ d.part = "head" /\ d.request.n = served' + 1
               /\ GoesOn(d, inbox', open', sentRequests', due')
    <3>1. d.part = "head" /\ d.request.n = served + 1 /\ Chain(d) /\ d.request # Null
      BY <1>1, <1>2, <2>1, <2>2, <2>5 DEF PartsInOrder, Null
    <3>2. QED
      BY <1>27, <2>1, <3>1, PeerGoesOn
  <2>6. QED
    BY <2>4, <2>5 DEF PartsInOrder, Chain
<1>28. QED
  BY <1>10, <1>11, <1>12, <1>13, <1>14, <1>15, <1>17, <1>18, <1>20, <1>21, <1>22, <1>23, <1>24, <1>25,
     <1>26, <1>27 DEF ConnNext, Thread, User, Peer
-----------------------------------------------------------------------------
(* The theorems.                                                           *)

\* A connection that was just accepted.
LEMMA ConnStarts == ConnInit => ConnInv
<1> SUFFICES ASSUME ConnInit PROVE ConnInv
  OBVIOUS
<1>1. /\ callbacks_ = <<>> /\ inbox = <<>> /\ request_ = Null /\ due = Null /\ sentRequests = 0
      /\ served = 0 /\ deleted = FALSE /\ held = FALSE /\ request_finished_ = FALSE /\ pc = "new"
      /\ reading = "none" /\ unsent = 0 /\ streamCallback = FALSE
  BY DEF ConnInit
<1>2. /\ NamesIn(callbacks_) = {} /\ HeadsRead(callbacks_) = {} /\ OneRead(callbacks_)
      /\ FreeAtEnd(callbacks_)
  BY <1>1, QueueNames
<1>3. ConnTypeOK
  <2>1. 0 \in 0..sentRequests /\ sentRequests \in 0..MaxRequests /\ Null.n = 0
    BY <1>1, HTTPAssumption DEF HTTPAssumption, Null
  <2>2. no_keep_alive_ \in BOOLEAN /\ write_callback_ = FALSE /\ open = TRUE /\ fin = FALSE /\ ctx = "loop"
    BY DEF ConnInit
  <2>3. \A i \in DOMAIN callbacks_ : callbacks_[i].call \in Names
    BY <1>1
  <2>4. /\ request_.n \in 0..sentRequests /\ due.n \in 0..sentRequests
        /\ served \in 0..sentRequests /\ unsent \in 0..sentRequests
    BY <1>1, <2>1
  <2>5. QED
    BY <1>1, <2>1, <2>2, <2>3, <2>4 DEF ConnTypeOK
<1>4. QueueTypeOK
  BY <1>1, EmptySeq DEF QueueTypeOK
<1>5. AtHead /\ ~AtBody /\ ~Closed
  BY <1>1, <1>2 DEF AtHead, AtBody, Closed
<1>6. Place
  BY <1>1, <1>2, <1>5 DEF Place, Phases, OneReader, FreeIsLast, OutputIsCurrent
<1>7. Chain(Part("body", [n |-> 0]))
  BY <1>1 DEF Chain, GoesOn, InOrder, LastPart, DueAfter, Part
<1>8. PartsInOrder
  BY <1>1, <1>2, <1>5, <1>7 DEF PartsInOrder, TakenPart
<1>9. QED
  BY <1>3, <1>4, <1>6, <1>8 DEF ConnInv

\* The invariant of the connection: at every moment it is between two requests, at
\* the body of one, at one that the user has, or closed; what is read, queued and
\* written fits that place, and the peer's parts go on from there.
THEOREM ConnInvariant == ConnSpec => []ConnInv
<1>1. ConnInv /\ [ConnNext]_connVars => ConnInv'
  BY ConnTyping, QueueTyping, PlaceKeeps, PartsKeep DEF ConnInv
<1>2. QED
  BY ConnStarts, <1>1, PTL DEF ConnSpec

\* Every variable keeps its type, and the stream's write callback waits only for
\* output that is there.
THEOREM ConnTypeOKHolds == ConnSpec => []ConnTypeOK
<1>1. ConnInv => ConnTypeOK
  BY DEF ConnInv
<1>2. QED
  BY ConnInvariant, <1>1, PTL

\* When the connection is deleted no callback of it or its stream is queued.
THEOREM FreedLastHolds == ConnSpec => []FreedLast
<1>1. ConnInv => FreedLast
  BY DEF ConnInv, Place, FreeIsLast, FreedLast
<1>2. QED
  BY ConnInvariant, <1>1, PTL

\* No read is started while another waits, a head is read where one begins, and
\* the user holds the request that the connection is at.
THEOREM ReadsInStepHolds == ConnSpec => []ReadsInStep
<1>1. ASSUME ConnInv PROVE ReadsInStep
  <2>1. Starting # "none" => reading = "none"
    BY <1>1 DEF ConnInv, Place, OneReader, Starting
  <2>2. ASSUME NEW i \in DOMAIN callbacks_, callbacks_[i].call = "on_headers"
        PROVE  callbacks_[i].data.part = "head"
    <3>1. "on_headers" \in NamesIn(callbacks_) /\ callbacks_[i].data \in HeadsRead(callbacks_)
      BY <2>2 DEF NamesIn, HeadsRead
    <3>2. ~Closed
      BY <1>1, <3>1 DEF ConnInv, Place, Phases, AtHead
    <3>3. QED
      BY <1>1, <3>1, <3>2 DEF ConnInv, PartsInOrder
  <2>3. held => request_.n = served /\ ~request_finished_
    BY <1>1, AtRequest
  <2>4. QED
    BY <2>1, <2>2, <2>3 DEF ReadsInStep
<1>2. QED
  BY ConnInvariant, <1>1, PTL

\* The user gets the peer's requests one after the other, and each of them only
\* when all that was written for the ones before it is sent.
THEOREM AnswersInOrderHolds == ConnSpec => AnswersInOrder
<1>1. ASSUME ConnInv, ConnNext, served' # served
      PROVE  request_'.n = served + 1 /\ unsent' \in {0, request_'.n}
  <2>1. OnHeaders \/ OnRequestBody
    BY <1>1 DEF ConnNext, Thread, User, Peer, HandleStream, ReadCompletes, ReadWaits, ReadThrows,
           OnHeadersMalformed, OnHeadersCrash, OnRequestBodyCrash, Continue, OnWriteComplete, RunFree, RunStreamClose,
           UserReturns, Write, Finish, PeerSendsHead, PeerSendsBody, PeerCloses, StreamReads,
           StreamEnds, StreamDrains, StreamErrs
  <2>2. CASE OnHeaders
    <3>1. Running("on_headers") /\ request_' = Head(callbacks_).data.request /\ unsent' = unsent
      BY <2>2 DEF OnHeaders
    <3>2. AtHead /\ Head(callbacks_).data.request.n = served + 1
      BY <1>1, <3>1, HeadIsNext
    <3>3. unsent = 0
      BY <1>1, <3>2 DEF ConnInv, Place, OutputIsCurrent, AtHead, Null
    <3>4. QED
      BY <3>1, <3>2, <3>3
  <2>3. CASE OnRequestBody
    <3>1. Running("on_request_body") /\ UNCHANGED <<request_, unsent>>
      BY <2>3 DEF OnRequestBody, streamVars
    <3>2. AtBody
      BY <1>1, <3>1, BodyIsNext
    <3>3. QED
      BY <1>1, <3>1, <3>2 DEF ConnInv, Place, OutputIsCurrent, AtBody
  <2>4. QED
    BY <2>1, <2>2, <2>3
<1>2. ConnInv /\ [ConnNext]_connVars =>
         [served' # served => request_'.n = served + 1 /\ unsent' \in {0, request_'.n}]_connVars
  BY <1>1
<1>3. QED
  BY ConnInvariant, <1>2, PTL DEF ConnSpec, AnswersInOrder
=============================================================================

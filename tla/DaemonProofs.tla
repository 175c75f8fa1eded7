---------------------------- MODULE DaemonProofs ----------------------------
(***************************************************************************)
(* Proofs about Daemon, for any number of connections, descriptors and     *)
(* events and any size of the clients' queues and of the sockets.          *)
(***************************************************************************)
EXTENDS Daemon, SeqLemmas

\* The handler of a stream, from the making of its client to its destruction,
\* and the handlers that have not yet closed their descriptor.
Streaming == {"add", "stream", "remove", "shutdown", "close1", "destroy"}
Holding == {"loop", "poll", "request", "reply", "close", "enter", "add", "stream",
            "remove", "shutdown", "close1"}
HandlerPc == Holding \cup {"none", "destroy", "ended"}

ClientType ==
    [made : {"no", "live", "dead"}, closed : BOOLEAN, stop : BOOLEAN,
     queue : Seq(Nat), writer : {"none", "top", "pop", "send", "blocked", "ended"},
     on : Conn \cup {NoConn}, line : Nat, dropped : Nat, sent : Nat,
     since : Nat, count : Nat]

ConsumerType ==
    [pc : {"idle", "feed", "ended"}, todo : SUBSET Conn, ev : 0..MaxEvents]

HandlerType == [pc : HandlerPc, fd : Nat, req : {"query", "stream", "stop"}]

PeerType ==
    [st : {"away", "pending", "open", "hung"}, req : {"query", "stream", "stop"},
     asked : BOOLEAN, inbox : 0..SockCap]

ProcessTypes ==
    /\ running \in BOOLEAN /\ serverStop \in BOOLEAN
    /\ main \in {"starting", "serving", "join", "controller", "returned",
                 "destroyed", "exited"}
    /\ server \in {"none", "up", "ended"}
    /\ sig \in {"none", "seen", "clients", "join"}

Types ==
    /\ ProcessTypes
    /\ fdt \in [Fd -> Conn \cup {NoConn}]
    /\ h \in [Conn -> HandlerType]
    /\ peer \in [Conn -> PeerType]
    /\ sc \in [Conn -> ClientType]
    /\ streamList \subseteq Conn /\ ctlList \subseteq Conn
    /\ consumer \in ConsumerType

\* A connection's handler, its client and the lists: the client lives as long
\* as the handler streams, and it is on a list only while the handler has yet to
\* take it off.
HandlerOK(c) ==
    /\ h[c].pc # "none" => h[c].fd \in Fd
    /\ h[c].pc = "none" <=> peer[c].st \in {"away", "pending"}
    /\ sc[c].made = "live" <=> h[c].pc \in Streaming
    /\ sc[c].made = "dead" => h[c].pc = "ended"
    /\ sc[c].made # "live" => sc[c].writer \in {"none", "ended"}
    /\ c \in streamList => h[c].pc \in {"add", "stream", "remove", "shutdown"}
    /\ c \in ctlList => h[c].pc \in {"stream", "remove"}

HandlerInv == \A c \in Conn : HandlerOK(c)

\* The consumer feeds clients that are on the controller's list, which changes
\* under clients_mu_ only.
FeedInv ==
    /\ consumer.todo \subseteq ctlList
    /\ consumer.pc # "feed" => consumer.todo = {}
    /\ consumer.pc = "feed" => consumer.ev > 0

\* What a client has queued or in hand is ordered, newer than what it sent, and
\* not newer than event n, the last one it was fed; it dropped no more than it
\* was fed.
Ordered(r, n) ==
    /\ Len(r.queue) <= QCap
    /\ r.dropped <= n /\ r.sent <= n
    /\ r.writer \in {"send", "blocked"} => r.sent < r.line /\ r.line <= n
    /\ \A i \in 1..Len(r.queue) :
          /\ r.sent < r.queue[i] /\ r.queue[i] <= n
          /\ r.writer \in {"send", "blocked"} => r.line < r.queue[i]
          /\ \A j \in 1..Len(r.queue) : i < j => r.queue[i] < r.queue[j]

QueueInv == \A c \in Conn : Ordered(sc[c], LastFed(c))

\* A handler that has not closed its descriptor owns it, unless a client that
\* was destroyed closed the number a second time.
FdOK(c) ==
    h[c].pc \in Holding =>
        \/ fdt[h[c].fd] = c
        \/ \E d \in Conn \ {c} : sc[d].made = "dead" /\ h[d].fd = h[c].fd

FdInv == \A c \in Conn : FdOK(c)

\* What a client was given: what it sent, what is in its writer's hand and what
\* it has queued.
Given(r) ==
    r.count + (IF r.writer \in {"send", "blocked"} THEN 1 ELSE 0) + Len(r.queue)

\* Of the events up to n since it was added, those it was not given it dropped
\* and counted, and it dropped none before its queue was full.
Counted(r, n) ==
    /\ Given(r) + r.dropped = n - r.since
    /\ r.dropped > 0 => Given(r) >= QCap

Fresh(r) ==
    /\ r.count = 0 /\ r.dropped = 0 /\ r.queue = <<>>
    /\ r.writer \notin {"send", "blocked"}

\* A client has been given nothing before it is on the controller's list, and
\* its accounts balance as long as it is open and listed.
CountOK(c) ==
    /\ h[c].pc = "add" => Fresh(sc[c])
    /\ c \in ctlList /\ ~sc[c].closed => Counted(sc[c], LastFed(c))

CountInv == \A c \in Conn : CountOK(c)

IInv == Types /\ HandlerInv /\ FeedInv /\ QueueInv /\ FdInv
-----------------------------------------------------------------------------
(* Facts about the operators of the model.                                 *)

\* A connection that is accepted gets a number of Fd at which nothing is open.
LEMMA AcceptedFd ==
    ASSUME Types, NEW c \in Conn, Accept(c)
    PROVE  \E f \in Fd : /\ fdt[f] = NoConn
                         /\ fdt' = [fdt EXCEPT ![f] = c]
                         /\ h' = [h EXCEPT ![c] = [pc |-> "loop", fd |-> f,
                                                   req |-> "query"]]
  <1> DEFINE free == {f \in Fd : fdt[f] = NoConn}
  <1>1. free \subseteq Nat /\ free # {}
    BY DaemonAssumption DEF Accept
  <1>2. Min(free) \in free
    BY <1>1, LeastNumber
  <1>3. /\ fdt' = [fdt EXCEPT ![Min(free)] = c]
        /\ h' = [h EXCEPT ![c] = [pc |-> "loop", fd |-> Min(free), req |-> "query"]]
    BY DEF Accept
  <1> QED
    BY <1>2, <1>3

-----------------------------------------------------------------------------
\* Nobody is connected: the invariant holds.
LEMMA InitInv == Init => IInv
  <1> SUFFICES ASSUME Init PROVE IInv
    OBVIOUS
  <1> USE DaemonAssumption DEF Init, NoClient
  <1>1. Types
    <2>1. \A c \in Conn : sc[c] \in ClientType
      BY DEF ClientType
    <2>2. sc \in [Conn -> ClientType]
      BY <2>1
    <2>3. h \in [Conn -> HandlerType]
      BY DEF HandlerType, HandlerPc
    <2>4. peer \in [Conn -> PeerType]
      BY DEF PeerType
    <2>5. consumer \in ConsumerType
      BY DEF ConsumerType
    <2> QED
      BY <2>2, <2>3, <2>4, <2>5 DEF Types, ProcessTypes
  <1>2. HandlerInv
    BY DEF HandlerInv, HandlerOK, Streaming
  <1>3. FeedInv
    BY DEF FeedInv
  <1>4. QueueInv
    BY DEF QueueInv, Ordered, LastFed
  <1>5. FdInv
    BY DEF FdInv, FdOK, Holding
  <1> QED
    BY <1>1, <1>2, <1>3, <1>4, <1>5 DEF IInv
-----------------------------------------------------------------------------
(* What the steps of a thread do to the state, in the form the invariants  *)
(* are about.                                                              *)

\* A socket is filled, emptied or left, or asked for: only accept(2) opens one.
PeersKept ==
    /\ peer' \in [Conn -> PeerType]
    /\ \A c \in Conn : peer'[c].st \in {"away", "pending"}
                           <=> peer[c].st \in {"away", "pending"}

\* A writer thread's changes to its client.
Ended(r) == [r EXCEPT !.writer = "ended", !.closed = TRUE]
Popping(r) == [r EXCEPT !.writer = "pop"]
Taken(r) == [r EXCEPT !.writer = "send", !.queue = Tail(@), !.line = Head(r.queue)]
SentLine(r) == [r EXCEPT !.writer = "top", !.sent = r.line, !.count = @ + 1]
Blocked(r, k) == [r EXCEPT !.writer = "blocked", !.on = k]

WriterChange(c) ==
    \/ sc' = [sc EXCEPT ![c] = Ended(sc[c])]
    \/ sc[c].writer = "top" /\ sc' = [sc EXCEPT ![c] = Popping(sc[c])]
    \/ sc[c].writer = "pop" /\ sc[c].queue # <<>> /\ sc' = [sc EXCEPT ![c] = Taken(sc[c])]
    \/ /\ sc[c].writer \in {"send", "blocked"}
       /\ sc' = [sc EXCEPT ![c] = SentLine(sc[c])]
    \/ /\ sc[c].writer = "send"
       /\ \E k \in Conn : sc' = [sc EXCEPT ![c] = Blocked(sc[c], k)]

\* The consumer's and the handler's.
Fed(r, n) == [r EXCEPT !.queue = Append(@, n)]
Slow(r) == [r EXCEPT !.dropped = @ + 1]
Added(r, n) == [r EXCEPT !.since = n]
Made == [NoClient EXCEPT !.made = "live", !.writer = "top"]
Destroyed == [NoClient EXCEPT !.made = "dead", !.writer = "ended"]

\* The actions of run(), of the server thread and of the signal leave the
\* connections alone.
LEMMA ProcessEffect ==
    ASSUME Types, MainStep \/ ServerFail \/ ServerEnd \/ Signal \/ StopExchange
    PROVE  /\ ProcessTypes'
           /\ UNCHANGED <<sockets, h, sc, streamList, ctlList, consumer.todo, consumer.ev>>
           /\ consumer' \in ConsumerType
           /\ consumer'.pc = "feed" <=> consumer.pc = "feed"
  <1> USE DEF Types, ProcessTypes, sockets, streams
  <1>1. CASE RunServe
    BY <1>1 DEF RunServe
  <1>2. CASE MainStop
    BY <1>2 DEF MainStop
  <1>3. CASE MainJoin
    BY <1>3 DEF MainJoin
  <1>4. CASE MainController
    BY <1>4 DEF MainController, ConsumerType
  <1>5. CASE MainDestroy \/ MainExit
    BY <1>5 DEF MainDestroy, MainExit
  <1>6. CASE ServerFail \/ ServerEnd \/ Signal
    BY <1>6 DEF ServerFail, ServerEnd, Signal
  <1>7. CASE StopExchange
    BY <1>7 DEF StopExchange
  <1> QED
    BY <1>1, <1>2, <1>3, <1>4, <1>5, <1>6, <1>7 DEF MainStep

\* send(2) adds an object to a socket that is open and has room.
LEMMA SentKeepsPeers ==
    ASSUME Types, NEW k \in Conn \cup {NoConn}, HasRoom(k), Sent(k)
    PROVE  PeersKept
  <1>1. k \in Conn /\ peer[k] \in PeerType /\ peer[k].inbox < SockCap
    BY DEF HasRoom, Gone, Types
  <1>2. [peer[k] EXCEPT !.inbox = @ + 1] \in PeerType
    BY <1>1, DaemonAssumption DEF PeerType
  <1>3. peer' = [peer EXCEPT ![k] = [peer[k] EXCEPT !.inbox = @ + 1]]
    BY DEF Sent, Types
  <1>4. peer' \in [Conn -> PeerType]
    BY <1>2, <1>3 DEF Types
  <1>5. \A c \in Conn : peer'[c].st = peer[c].st
    BY <1>1, <1>3 DEF Types, PeerType
  <1> QED
    BY <1>4, <1>5 DEF PeersKept

\* The peers act on their own ends only.
LEMMA PeerEffect ==
    ASSUME Types, NEW c \in Conn, PeerConnect(c) \/ PeerRead(c) \/ PeerHangup(c)
    PROVE  PeersKept /\ UNCHANGED <<process, fdt, h, streams>>
  <1>1. peer[c] \in PeerType
    BY DEF Types
  <1>2. \E r \in PeerType :
           /\ r.st \in {"away", "pending"} <=> peer[c].st \in {"away", "pending"}
           /\ peer' = [peer EXCEPT ![c] = r]
    <2>1. CASE PeerConnect(c)
      <3>1. PICK q \in Requests[c] :
               peer' = [peer EXCEPT ![c].st = "pending", ![c].req = q, ![c].asked = TRUE]
        BY <2>1 DEF PeerConnect
      <3> DEFINE r == [peer[c] EXCEPT !.st = "pending", !.req = q, !.asked = TRUE]
      <3>2. q \in {"query", "stream", "stop"}
        BY <3>1, DaemonAssumption
      <3>4. r \in PeerType /\ r.st = "pending"
        BY <1>1, <3>2 DEF PeerType
      <3>3. peer' = [peer EXCEPT ![c] = r]
        BY <3>1 DEF Types
      <3> QED
        BY <2>1, <3>4, <3>3 DEF PeerConnect
    <2>2. CASE PeerRead(c)
      <3> DEFINE r == [peer[c] EXCEPT !.inbox = @ - 1]
      <3>1. r \in PeerType /\ r.st = peer[c].st
        BY <1>1, <2>2, DaemonAssumption DEF PeerType, PeerRead
      <3>2. peer' = [peer EXCEPT ![c] = r]
        BY <2>2 DEF PeerRead, Types
      <3> QED
        BY <3>1, <3>2
    <2>3. CASE PeerHangup(c)
      <3> DEFINE r == [peer[c] EXCEPT !.st = "hung", !.inbox = 0]
      <3>1. 0 \in 0..SockCap
        BY DaemonAssumption
      <3>2. r \in PeerType /\ r.st = "hung"
        BY <1>1, <3>1 DEF PeerType
      <3>3. peer' = [peer EXCEPT ![c] = r]
        BY <2>3 DEF PeerHangup, Types
      <3> QED
        BY <2>3, <3>2, <3>3 DEF PeerHangup
    <2> QED
      BY <2>1, <2>2, <2>3
  <1>3. PeersKept
    BY <1>2 DEF PeersKept, Types
  <1> QED
    BY <1>3 DEF PeerConnect, PeerRead, PeerHangup

\* A writer thread works on its own client and on one socket.
LEMMA WriterEffect ==
    ASSUME Types, HandlerInv, NEW c \in Conn, WriterStep(c)
    PROVE  /\ UNCHANGED <<process, fdt, h, streamList, ctlList, consumer>>
           /\ PeersKept
           /\ sc[c].writer \notin {"none", "ended"}
           /\ WriterChange(c)
  <1>1. sc[c].writer = "send" => fdt[h[c].fd] \in Conn \cup {NoConn}
    BY DEF HandlerInv, HandlerOK, Types, Streaming
  <1>2. sc[c].on \in Conn \cup {NoConn}
    BY DEF Types, ClientType
  <1>3. UNCHANGED peer => PeersKept
    BY DEF PeersKept, Types
  <1>4. WriterEnd(c) => sc' = [sc EXCEPT ![c] = Ended(sc[c])]
    BY DEF WriterEnd, Ended, Types
  <1>5. CASE WriterTop(c)
    BY <1>3, <1>4, <1>5 DEF WriterTop, WriterChange, Popping, Types, sockets
  <1>6. CASE WriterPop(c)
    BY <1>3, <1>4, <1>6 DEF WriterPop, WriterChange, Taken, Types, sockets
  <1>7. ASSUME NEW k \in Conn \cup {NoConn}, SendOn(c, k),
               sc[c].writer \in {"send", "blocked"}
        PROVE  PeersKept /\ WriterChange(c)
    <2>1. CASE HasRoom(k) /\ Sent(k)
      BY <1>7, <2>1, SentKeepsPeers, <1>4
         DEF SendOn, WriterChange, SentLine, Types
    <2>2. CASE Gone(k) /\ WriterEnd(c) /\ UNCHANGED peer
      BY <2>2, <1>3, <1>4 DEF WriterChange
    <2> QED
      BY <1>7, <2>1, <2>2 DEF SendOn
  <1>8. CASE WriterSend(c)
    <2> DEFINE k == fdt[h[c].fd]
    <2>1. CASE SendOn(c, k)
      BY <1>1, <1>7, <1>8, <2>1 DEF WriterSend
    <2>2. CASE ~HasRoom(k) /\ ~Gone(k) /\ UNCHANGED peer
               /\ sc' = [sc EXCEPT ![c].writer = "blocked", ![c].on = k]
      <3>1. k \in Conn
        BY <1>1, <1>8, <2>2 DEF Gone, WriterSend
      <3>2. sc' = [sc EXCEPT ![c] = Blocked(sc[c], k)]
        BY <2>2 DEF Blocked, Types
      <3> QED
        BY <1>3, <1>8, <2>2, <3>1, <3>2 DEF WriterChange, WriterSend
    <2> QED
      BY <1>8, <2>1, <2>2 DEF WriterSend
  <1>9. CASE WriterBlocked(c)
    BY <1>2, <1>7, <1>9 DEF WriterBlocked
  <1> QED
    BY <1>5, <1>6, <1>8, <1>9
       DEF WriterStep, WriterTop, WriterPop, WriterSend, WriterBlocked

\* A handler that reads and answers requests, or waits for its stream to end,
\* keeps its number, its client and the lists.
Answers(c) ==
    HandleLoop(c) \/ HandlePoll(c) \/ HandleRequest(c) \/ HandleReply(c) \/ StreamWait(c)

\* Answering a request touches the process as a whole only through running_.
LEMMA AnswerProcess ==
    ASSUME Types, NEW c \in Conn, Answers(c)
    PROVE  ProcessTypes'
  BY DEF Answers, HandleLoop, HandlePoll, HandleRequest, HandleReply,
         StreamWait, process, Types, ProcessTypes

\* A handler that reads and answers requests changes nothing but itself, and
\* keeps its descriptor.
LEMMA AnswerEffect ==
    ASSUME Types, HandlerInv, NEW c \in Conn, Answers(c)
    PROVE  /\ UNCHANGED <<fdt, streams>>
           /\ PeersKept
           /\ \E r \in HandlerType :
                 /\ h' = [h EXCEPT ![c] = r]
                 /\ r.fd = h[c].fd
                 /\ \/ /\ h[c].pc \in {"loop", "poll", "request", "reply"}
                       /\ r.pc \in {"loop", "poll", "request", "reply", "close", "enter"}
                    \/ h[c].pc = "stream" /\ r.pc = "remove"
  <1> DEFINE To(pc) == [h[c] EXCEPT !.pc = pc]
  <1>1. h[c] \in HandlerType /\ h \in [Conn -> HandlerType]
    BY DEF Types
  <1>2. ASSUME NEW pc \in HandlerPc, Goto(c, pc)
        PROVE  To(pc) \in HandlerType /\ h' = [h EXCEPT ![c] = To(pc)]
               /\ To(pc).fd = h[c].fd /\ To(pc).pc = pc
    BY <1>1, <1>2 DEF Goto, HandlerType
  <1>3. UNCHANGED peer => PeersKept
    BY DEF PeersKept, Types
  <1>4. CASE HandleLoop(c)
    <2>1. PICK pc \in {"poll", "close"} : Goto(c, pc)
      BY <1>4 DEF HandleLoop
    <2>2. pc \in HandlerPc
      BY DEF HandlerPc, Holding
    <2> QED
      BY <1>2, <1>3, <1>4, <2>1, <2>2 DEF HandleLoop, process, sockets
  <1>5. CASE HandlePoll(c)
    <2> DEFINE p == fdt[h[c].fd]
    <2>1. p \in Conn \cup {NoConn}
      BY <1>5 DEF HandlePoll, HandlerInv, HandlerOK, Types
    <2>2. CASE p # NoConn /\ peer[p].asked
      <3> DEFINE r == [h[c] EXCEPT !.pc = "request", !.req = peer[p].req]
                 s == [peer[p] EXCEPT !.asked = FALSE]
      <3>1. peer[p] \in PeerType /\ p \in Conn
        BY <2>1, <2>2 DEF Types
      <3>2. r \in HandlerType /\ h' = [h EXCEPT ![c] = r] /\ r.fd = h[c].fd
            /\ r.pc = "request"
        BY <1>1, <1>5, <2>2, <3>1
           DEF HandlePoll, HandlerType, HandlerPc, Holding, PeerType
      <3>3. s \in PeerType /\ s.st = peer[p].st /\ peer' = [peer EXCEPT ![p] = s]
        BY <1>5, <2>2, <3>1 DEF HandlePoll, PeerType, Types
      <3>4. PeersKept
        BY <3>1, <3>3 DEF PeersKept, Types
      <3> QED
        BY <1>5, <3>2, <3>4 DEF HandlePoll, process
    <2>3. CASE ~(p # NoConn /\ peer[p].asked)
      <3>1. PICK pc \in {"close", "loop"} : Goto(c, pc)
        BY <1>5, <2>3 DEF HandlePoll
      <3>2. pc \in HandlerPc
        BY DEF HandlerPc, Holding
      <3>3. UNCHANGED <<process, fdt, streams, peer>> /\ h[c].pc = "poll"
        BY <1>5, <2>3 DEF HandlePoll
      <3> QED
        BY <1>2, <1>3, <3>1, <3>2, <3>3 DEF process
    <2> QED
      BY <2>2, <2>3
  <1>6. CASE HandleRequest(c)
    <2>1. "reply" \in HandlerPc /\ Goto(c, "reply")
      BY <1>6 DEF HandleRequest, HandlerPc, Holding
    <2> QED
      BY <1>2, <1>3, <1>6, <2>1 DEF HandleRequest, sockets
  <1>7. CASE HandleReply(c)
    <2> DEFINE k == fdt[h[c].fd]
    <2>1. k \in Conn \cup {NoConn}
      BY <1>7 DEF HandleReply, HandlerInv, HandlerOK, Types
    <2>2. PeersKept
      BY <1>3, <1>7, <2>1, SentKeepsPeers DEF HandleReply
    <2>3. PICK pc \in {"enter", "loop"} : Goto(c, pc)
      BY <1>7 DEF HandleReply
    <2>4. pc \in HandlerPc
      BY DEF HandlerPc, Holding
    <2> QED
      BY <1>2, <1>7, <2>2, <2>3, <2>4 DEF HandleReply, process
  <1>8. CASE StreamWait(c)
    <2>1. "remove" \in HandlerPc /\ Goto(c, "remove")
      BY <1>8 DEF StreamWait, HandlerPc, Holding
    <2> QED
      BY <1>2, <1>3, <1>8, <2>1 DEF StreamWait, process, sockets
  <1> QED
    BY <1>4, <1>5, <1>6, <1>7, <1>8 DEF Answers
-----------------------------------------------------------------------------
(* What each change does to a client.                                      *)

\* The changes that leave the queue of a stream client alone.
LEMMA SimpleChangesTyped ==
    ASSUME NEW r \in ClientType
    PROVE  /\ Ended(r) \in ClientType
           /\ Popping(r) \in ClientType
           /\ SentLine(r) \in ClientType
           /\ Slow(r) \in ClientType
           /\ Shutdown(r) \in ClientType
           /\ \A n \in Nat : Added(r, n) \in ClientType
           /\ \A k \in Conn : Blocked(r, k) \in ClientType
  <1>1. Ended(r) \in ClientType
    BY DEF ClientType, Ended
  <1>2. Popping(r) \in ClientType
    BY DEF ClientType, Popping
  <1>3. SentLine(r) \in ClientType
    <2>1. r.count + 1 \in Nat /\ r.line \in Nat
      BY DEF ClientType
    <2> QED
      BY <2>1 DEF ClientType, SentLine
  <1>4. Slow(r) \in ClientType
    <2>1. r.dropped + 1 \in Nat
      BY DEF ClientType
    <2> QED
      BY <2>1 DEF ClientType, Slow
  <1>5. Shutdown(r) \in ClientType
    BY DEF ClientType, Shutdown
  <1>6. ASSUME NEW k \in Conn PROVE Blocked(r, k) \in ClientType
    BY DEF ClientType, Blocked
  <1>7. ASSUME NEW n \in Nat PROVE Added(r, n) \in ClientType
    BY DEF ClientType, Added
  <1> QED
    BY <1>1, <1>2, <1>3, <1>4, <1>5, <1>6, <1>7

\* The changes of its queue.
LEMMA QueueChangesTyped ==
    ASSUME NEW r \in ClientType
    PROVE  /\ r.queue # <<>> => Taken(r) \in ClientType
           /\ \A n \in Nat : Fed(r, n) \in ClientType
  <1>1. r.queue \in Seq(Nat)
    BY DEF ClientType
  <1>2. ASSUME NEW n \in Nat PROVE Fed(r, n) \in ClientType
    <2>1. Append(r.queue, n) \in Seq(Nat)
      BY <1>1, AppendProperties
    <2> QED
      BY <2>1 DEF ClientType, Fed
  <1>3. ASSUME r.queue # <<>> PROVE Taken(r) \in ClientType
    <2>1. Tail(r.queue) \in Seq(Nat) /\ Head(r.queue) \in Nat
      BY <1>1, <1>3, HeadTailProperties
    <2> QED
      BY <2>1 DEF ClientType, Taken
  <1> QED
    BY <1>2, <1>3

\* A stream client that was just made, or destroyed.
LEMMA NewClientTyped == Made \in ClientType /\ Destroyed \in ClientType
  <1>1. NoClient \in ClientType
    BY DEF NoClient, ClientType
  <1>2. \A r \in ClientType : [r EXCEPT !.made = "live", !.writer = "top"] \in ClientType
    BY DEF ClientType
  <1>3. \A r \in ClientType :
           [r EXCEPT !.made = "dead", !.writer = "ended"] \in ClientType
    BY DEF ClientType
  <1> QED
    BY <1>1, <1>2, <1>3 DEF Made, Destroyed

\* The writer takes the oldest line, which is newer than all it sent.
LEMMA TakenOrdered ==
    ASSUME NEW r \in ClientType, NEW n \in Nat, Ordered(r, n), r.queue # <<>>
    PROVE  Ordered(Taken(r), n)
  <1> DEFINE q == r.queue
             t == Tail(q)
  <1>1. q \in Seq(Nat) /\ q # <<>>
    BY DEF ClientType
  <1>2. /\ Len(t) = Len(q) - 1 /\ t \in Seq(Nat) /\ Len(q) \in Nat \ {0}
        /\ \A i \in 1..Len(t) : t[i] = q[i + 1]
        /\ Head(q) = q[1]
    BY <1>1, HeadTailProperties, ElementOfSeq, LenProperties, EmptySeq
  <1>3. /\ Taken(r).queue = t /\ Taken(r).line = q[1] /\ Taken(r).writer = "send"
        /\ Taken(r).sent = r.sent /\ Taken(r).dropped = r.dropped
    BY <1>2 DEF Taken, ClientType
  <1>4. /\ Len(q) <= QCap /\ r.dropped <= n /\ r.sent <= n
        /\ \A i \in 1..Len(q) :
              /\ r.sent < q[i] /\ q[i] <= n
              /\ \A j \in 1..Len(q) : i < j => q[i] < q[j]
    BY DEF Ordered
  <1>5. \A i \in 1..Len(t) : i + 1 \in 1..Len(q) /\ 1 < i + 1 /\ 1 \in 1..Len(q)
    BY <1>2
  <1>6. 1 \in 1..Len(q)
    BY <1>2
  <1> HIDE DEF q, t
  <1>7. /\ r.sent < q[1] /\ q[1] <= n
        /\ \A i \in 1..Len(t) : r.sent < t[i] /\ t[i] <= n /\ q[1] < t[i]
    BY <1>2, <1>4, <1>5, <1>6
  <1>8. ASSUME NEW i \in 1..Len(t), NEW j \in 1..Len(t), i < j
        PROVE  t[i] < t[j]
    <2>1. i + 1 \in 1..Len(q) /\ j + 1 \in 1..Len(q) /\ i + 1 < j + 1
      BY <1>2, <1>8
    <2>2. q[i + 1] < q[j + 1]
      BY <1>4, <2>1
    <2> QED
      BY <1>2, <2>2
  <1>9. Len(t) <= QCap
    BY <1>2, <1>4, DaemonAssumption
  <1> QED
    BY <1>3, <1>4, <1>7, <1>8, <1>9 DEF Ordered

\* An event newer than all the others goes to the end.
LEMMA FedOrdered ==
    ASSUME NEW r \in ClientType, NEW n \in Nat, Ordered(r, n), Len(r.queue) < QCap
    PROVE  Ordered(Fed(r, n + 1), n + 1)
  <1> DEFINE q == r.queue
             t == Append(q, n + 1)
  <1>1. q \in Seq(Nat) /\ r.sent \in Nat /\ r.line \in Nat /\ r.dropped \in Nat
    BY DEF ClientType
  <1>2. /\ Len(t) = Len(q) + 1 /\ Len(q) \in Nat
        /\ \A i \in 1..Len(q) : t[i] = q[i] /\ q[i] \in Nat
        /\ t[Len(q) + 1] = n + 1
    BY <1>1, AppendProperties, ElementOfSeq, LenProperties
  <1>3. /\ Fed(r, n + 1).queue = t /\ Fed(r, n + 1).line = r.line
        /\ Fed(r, n + 1).writer = r.writer
        /\ Fed(r, n + 1).sent = r.sent /\ Fed(r, n + 1).dropped = r.dropped
    BY DEF Fed, ClientType
  <1>4. /\ Len(q) < QCap /\ r.dropped <= n /\ r.sent <= n
        /\ r.writer \in {"send", "blocked"} => r.sent < r.line /\ r.line <= n
        /\ \A i \in 1..Len(q) :
              /\ r.sent < q[i] /\ q[i] <= n
              /\ r.writer \in {"send", "blocked"} => r.line < q[i]
              /\ \A j \in 1..Len(q) : i < j => q[i] < q[j]
    BY DEF Ordered
  <1>5. \A i \in 1..Len(t) : i \in 1..Len(q) \/ i = Len(q) + 1
    BY <1>2
  <1> HIDE DEF q, t
  <1>6. \A i \in 1..Len(t) :
           /\ r.sent < t[i] /\ t[i] <= n + 1
           /\ r.writer \in {"send", "blocked"} => r.line < t[i]
    BY <1>1, <1>2, <1>4, <1>5
  <1>7. ASSUME NEW i \in 1..Len(t), NEW j \in 1..Len(t), i < j
        PROVE  t[i] < t[j]
    <2>1. i \in 1..Len(q)
      BY <1>2, <1>5, <1>7
    <2>2. CASE j \in 1..Len(q)
      BY <1>2, <1>4, <1>7, <2>1, <2>2
    <2>3. CASE j = Len(q) + 1
      BY <1>2, <1>4, <2>1, <2>3
    <2> QED
      BY <1>5, <2>2, <2>3
  <1>8. Len(t) <= QCap
    BY <1>2, <1>4, DaemonAssumption
  <1> QED
    BY <1>1, <1>3, <1>4, <1>6, <1>7, <1>8 DEF Ordered

\* The other changes keep the order of what is queued.
LEMMA SimpleChangesOrdered ==
    ASSUME NEW r \in ClientType, NEW n \in Nat, Ordered(r, n)
    PROVE  /\ Ordered(r, n + 1)
           /\ Ordered(Slow(r), n + 1)
           /\ Ordered(Shutdown(r), n)
           /\ \A m \in Nat : Ordered(Added(r, m), n)
           /\ Ordered(Ended(r), n)
           /\ Ordered(Popping(r), n)
           /\ r.writer \in {"send", "blocked"} => Ordered(SentLine(r), n)
           /\ r.writer = "send" => \A k \in Conn : Ordered(Blocked(r, k), n)
  <1>1. /\ r.queue \in Seq(Nat) /\ r.sent \in Nat /\ r.line \in Nat /\ r.dropped \in Nat
        /\ \A i \in 1..Len(r.queue) : r.queue[i] \in Nat
    BY ElementOfSeq DEF ClientType
  <1>2. Ordered(r, n + 1)
    BY <1>1 DEF Ordered
  <1>3. Ordered(Slow(r), n + 1)
    <2>1. /\ Slow(r).queue = r.queue /\ Slow(r).sent = r.sent /\ Slow(r).line = r.line
          /\ Slow(r).writer = r.writer /\ Slow(r).dropped = r.dropped + 1
      BY DEF Slow, ClientType
    <2> QED
      BY <1>1, <2>1 DEF Ordered
  <1>4. Ordered(Shutdown(r), n)
    <2>1. /\ Shutdown(r).queue = r.queue /\ Shutdown(r).sent = r.sent
          /\ Shutdown(r).line = r.line /\ Shutdown(r).writer = r.writer
          /\ Shutdown(r).dropped = r.dropped
      BY DEF Shutdown, ClientType
    <2> QED
      BY <2>1 DEF Ordered
  <1>5. ASSUME NEW s \in ClientType, s.queue = r.queue, s.sent = r.sent,
               s.dropped = r.dropped, s.writer \in {"ended", "pop"}
        PROVE  Ordered(s, n)
    BY <1>5 DEF Ordered
  <1>6. Ordered(Ended(r), n)
    <2>1. /\ Ended(r).queue = r.queue /\ Ended(r).sent = r.sent
          /\ Ended(r).dropped = r.dropped /\ Ended(r).writer = "ended"
      BY DEF Ended, ClientType
    <2> QED
      BY <1>5, <2>1, SimpleChangesTyped
  <1>7. Ordered(Popping(r), n)
    <2>1. /\ Popping(r).queue = r.queue /\ Popping(r).sent = r.sent
          /\ Popping(r).dropped = r.dropped /\ Popping(r).writer = "pop"
      BY DEF Popping, ClientType
    <2> QED
      BY <1>5, <2>1, SimpleChangesTyped
  <1>8. ASSUME r.writer \in {"send", "blocked"} PROVE Ordered(SentLine(r), n)
    <2>1. /\ SentLine(r).queue = r.queue /\ SentLine(r).sent = r.line
          /\ SentLine(r).dropped = r.dropped /\ SentLine(r).writer = "top"
      BY DEF SentLine, ClientType
    <2> QED
      BY <1>1, <1>8, <2>1 DEF Ordered
  <1>9. ASSUME r.writer = "send", NEW k \in Conn PROVE Ordered(Blocked(r, k), n)
    <2>1. /\ Blocked(r, k).queue = r.queue /\ Blocked(r, k).sent = r.sent
          /\ Blocked(r, k).line = r.line /\ Blocked(r, k).dropped = r.dropped
          /\ Blocked(r, k).writer = "blocked"
      BY DEF Blocked, ClientType
    <2> QED
      BY <1>9, <2>1 DEF Ordered
  <1>10. ASSUME NEW m \in Nat PROVE Ordered(Added(r, m), n)
    <2>1. /\ Added(r, m).queue = r.queue /\ Added(r, m).sent = r.sent
          /\ Added(r, m).line = r.line /\ Added(r, m).writer = r.writer
          /\ Added(r, m).dropped = r.dropped
      BY DEF Added, ClientType
    <2> QED
      BY <2>1 DEF Ordered
  <1> QED
    BY <1>2, <1>3, <1>4, <1>6, <1>7, <1>8, <1>9, <1>10

\* A client that was made or destroyed has nothing queued and sent nothing.
LEMMA NewClientOrdered ==
    ASSUME NEW n \in Nat
    PROVE  Ordered(Made, n) /\ Ordered(Destroyed, n)
  BY DaemonAssumption DEF Ordered, Made, Destroyed, NoClient

\* Whatever the writer does, its client stays the one it was, and in order.
LEMMA WriterKeepsOrder ==
    ASSUME Types, NEW c \in Conn, WriterChange(c), NEW n \in Nat, Ordered(sc[c], n)
    PROVE  \E r \in ClientType :
              /\ sc' = [sc EXCEPT ![c] = r]
              /\ r.made = sc[c].made
              /\ Ordered(r, n)
  <1> DEFINE s == sc[c]
  <1>1. s \in ClientType
    BY DEF Types
  <1>2. /\ Ended(s).made = s.made /\ Popping(s).made = s.made /\ Taken(s).made = s.made
        /\ SentLine(s).made = s.made /\ \A k \in Conn : Blocked(s, k).made = s.made
    BY <1>1 DEF ClientType, Ended, Popping, Taken, SentLine, Blocked
  <1>3. CASE sc' = [sc EXCEPT ![c] = Ended(s)]
    BY <1>1, <1>2, <1>3, SimpleChangesTyped, SimpleChangesOrdered
  <1>4. CASE sc' = [sc EXCEPT ![c] = Popping(s)]
    BY <1>1, <1>2, <1>4, SimpleChangesTyped, SimpleChangesOrdered
  <1>5. CASE s.queue # <<>> /\ sc' = [sc EXCEPT ![c] = Taken(s)]
    BY <1>1, <1>2, <1>5, QueueChangesTyped, TakenOrdered
  <1>6. CASE s.writer \in {"send", "blocked"} /\ sc' = [sc EXCEPT ![c] = SentLine(s)]
    BY <1>1, <1>2, <1>6, SimpleChangesTyped, SimpleChangesOrdered
  <1>7. CASE s.writer = "send" /\ \E k \in Conn : sc' = [sc EXCEPT ![c] = Blocked(s, k)]
    BY <1>1, <1>2, <1>7, SimpleChangesTyped, SimpleChangesOrdered
  <1> QED
    BY <1>3, <1>4, <1>5, <1>6, <1>7 DEF WriterChange
-----------------------------------------------------------------------------
(* The inductive step, one part of the invariant at a time.                *)

\* The consumer hands an event to one client: the client is closed and goes off
\* the list, or it takes the event, or it drops it.
LEMMA FeedEffect ==
    ASSUME Types, FeedInv, FeedClient
    PROVE  \E c \in consumer.todo :
              /\ consumer' = [consumer EXCEPT !.todo = @ \ {c}]
              /\ UNCHANGED <<process, sockets, h, streamList>>
              /\ \/ ctlList' = ctlList \ {c} /\ UNCHANGED sc
                 \/ /\ Len(sc[c].queue) < QCap
                    /\ sc' = [sc EXCEPT ![c] = Fed(sc[c], consumer.ev)]
                    /\ UNCHANGED ctlList
                 \/ /\ ~(Len(sc[c].queue) < QCap)
                    /\ sc' = [sc EXCEPT ![c] = Slow(sc[c])]
                    /\ UNCHANGED ctlList
  <1>1. PICK c \in consumer.todo :
           /\ \/ sc[c].closed /\ ctlList' = ctlList \ {c} /\ UNCHANGED sc
              \/ /\ ~sc[c].closed
                 /\ sc' = IF Len(sc[c].queue) < QCap
                          THEN [sc EXCEPT ![c].queue = Append(@, consumer.ev)]
                          ELSE [sc EXCEPT ![c].dropped = @ + 1]
                 /\ UNCHANGED ctlList
           /\ consumer' = [consumer EXCEPT !.todo = @ \ {c}]
    BY DEF FeedClient
  <1>2. c \in Conn
    BY DEF Types, ConsumerType
  <1>3. UNCHANGED <<process, sockets, h, streamList>>
    BY DEF FeedClient
  <1>4. CASE ctlList' = ctlList \ {c} /\ UNCHANGED sc
    BY <1>1, <1>3, <1>4
  <1>5. CASE /\ UNCHANGED ctlList /\ Len(sc[c].queue) < QCap
             /\ sc' = [sc EXCEPT ![c].queue = Append(@, consumer.ev)]
    <2>1. sc' = [sc EXCEPT ![c] = Fed(sc[c], consumer.ev)]
      BY <1>5 DEF Fed
    <2> QED
      BY <1>1, <1>3, <1>5, <2>1
  <1>6. CASE /\ UNCHANGED ctlList /\ ~(Len(sc[c].queue) < QCap)
             /\ sc' = [sc EXCEPT ![c].dropped = @ + 1]
    <2>1. sc' = [sc EXCEPT ![c] = Slow(sc[c])]
      BY <1>6 DEF Slow
    <2> QED
      BY <1>1, <1>3, <1>6, <2>1
  <1> QED
    BY <1>1, <1>4, <1>5, <1>6

\* Events are numbered, and a client still to be fed has the one before.
LEMMA LastFedTyped ==
    ASSUME Types, FeedInv
    PROVE  /\ consumer.ev \in Nat
           /\ \A c \in Conn : LastFed(c) \in Nat
           /\ \A c \in consumer.todo : consumer.ev = LastFed(c) + 1
  BY DaemonAssumption DEF Types, FeedInv, ConsumerType, LastFed

\* A client that is added is the one it was.
LEMMA AddKeeps ==
    ASSUME Types, NEW c \in Conn, StreamAdd(c)
    PROVE  \A d \in Conn : sc'[d].made = sc[d].made /\ sc'[d].writer = sc[d].writer
  <1>1. sc[c] \in ClientType /\ sc \in [Conn -> ClientType]
    BY DEF Types
  <1>2. sc' = [sc EXCEPT ![c] = Added(sc[c], consumer.ev)]
    BY DEF StreamAdd, Added
  <1>3. Added(sc[c], consumer.ev).made = sc[c].made
        /\ Added(sc[c], consumer.ev).writer = sc[c].writer
    BY <1>1 DEF Added, ClientType
  <1> QED
    BY <1>1, <1>2, <1>3

\* A step of a connection's threads or of its peer.
ConnStep(c) ==
    \/ PeerConnect(c) \/ PeerRead(c) \/ PeerHangup(c)
    \/ Accept(c)
    \/ Answers(c)
    \/ HandleClose(c) \/ StreamClose(c)
    \/ StreamEnter(c) \/ StreamAdd(c) \/ StreamRemove(c) \/ StreamShutdown(c)
    \/ StreamDestroy(c)
    \/ WriterStep(c)

\* The steps, grouped by whose they are.
LEMMA NextCases ==
    ASSUME Next
    PROVE  \/ MainStep \/ ServerFail \/ ServerEnd \/ Signal \/ StopExchange
           \/ StopClients \/ FeedBegin \/ FeedClient \/ FeedEnd
           \/ \E c \in Conn : ConnStep(c)
  BY DEF Next, StopStep, FeedStep, ConnStep, HandlerStep, Answers

\* The types are inductive.
LEMMA TypesStep ==
    ASSUME IInv, Next
    PROVE  Types'
  <1>a. ASSUME NEW c \in Conn, Answers(c) PROVE PeersKept
    BY <1>a, AnswerEffect DEF IInv
  <1> USE DEF IInv, Types, process, sockets, streams
  <1>1. CASE MainStep \/ ServerFail \/ ServerEnd \/ Signal \/ StopExchange
    BY <1>1, ProcessEffect
  <1>2. CASE StopClients
    <2>1. \A c \in Conn : sc'[c] \in ClientType
      BY <1>2, SimpleChangesTyped DEF StopClients
    <2>2. sc' \in [Conn -> ClientType]
      BY <1>2, <2>1 DEF StopClients
    <2> QED
      BY <1>2, <2>2 DEF StopClients, ProcessTypes
  <1>3. CASE FeedBegin
    <2>1. consumer' \in ConsumerType
      BY <1>3, DaemonAssumption DEF FeedBegin, ConsumerType
    <2> QED
      BY <1>3, <2>1 DEF FeedBegin, ProcessTypes
  <1>4. CASE FeedClient
    <2>1. PICK c \in consumer.todo :
              /\ consumer' = [consumer EXCEPT !.todo = @ \ {c}]
              /\ UNCHANGED <<process, sockets, h, streamList>>
              /\ \/ ctlList' = ctlList \ {c} /\ UNCHANGED sc
                 \/ /\ Len(sc[c].queue) < QCap
                    /\ sc' = [sc EXCEPT ![c] = Fed(sc[c], consumer.ev)]
                    /\ UNCHANGED ctlList
                 \/ sc' = [sc EXCEPT ![c] = Slow(sc[c])] /\ UNCHANGED ctlList
      BY <1>4, FeedEffect
    <2>2. consumer' \in ConsumerType /\ c \in Conn /\ consumer.ev \in Nat
      BY <2>1, DaemonAssumption DEF ConsumerType
    <2>3. sc[c] \in ClientType
      BY <2>2
    <2>4. Fed(sc[c], consumer.ev) \in ClientType /\ Slow(sc[c]) \in ClientType
      BY <2>2, <2>3, SimpleChangesTyped, QueueChangesTyped
    <2>5. sc' \in [Conn -> ClientType] /\ ctlList' \subseteq Conn
      BY <2>1, <2>4
    <2> QED
      BY <2>1, <2>2, <2>5 DEF ProcessTypes
  <1>5. CASE FeedEnd
    BY <1>5 DEF FeedEnd, ConsumerType, ProcessTypes
  <1>6. ASSUME NEW c \in Conn, ConnStep(c) PROVE Types'
    <2>1. CASE PeerConnect(c) \/ PeerRead(c) \/ PeerHangup(c)
      BY <2>1, PeerEffect DEF PeersKept, ProcessTypes
    <2>2. CASE Accept(c)
      <3>1. PICK f \in Fd : /\ fdt' = [fdt EXCEPT ![f] = c]
                            /\ h' = [h EXCEPT ![c] = [pc |-> "loop", fd |-> f,
                                                      req |-> "query"]]
        BY <2>2, AcceptedFd
      <3>2. [pc |-> "loop", fd |-> f, req |-> "query"] \in HandlerType
        BY DaemonAssumption DEF HandlerType, HandlerPc, Holding
      <3>3. h' \in [Conn -> HandlerType] /\ fdt' \in [Fd -> Conn \cup {NoConn}]
        BY <3>1, <3>2
      <3>4. peer' \in [Conn -> PeerType]
        BY <2>2 DEF Accept, PeerType
      <3> QED
        BY <2>2, <3>3, <3>4 DEF Accept, ProcessTypes
    <2>3. CASE Answers(c)
      <3>1. PICK r \in HandlerType : h' = [h EXCEPT ![c] = r]
        BY <2>3, AnswerEffect
      <3>2. UNCHANGED <<fdt, sc, streamList, ctlList, consumer>>
        BY <2>3, AnswerEffect
      <3> QED
        BY <1>a, <2>3, <3>1, <3>2, AnswerProcess DEF PeersKept
    <2>4. CASE HandleClose(c) \/ StreamClose(c)
      <3>1. h' \in [Conn -> HandlerType]
        BY <2>4
           DEF HandleClose, StreamClose, Goto, HandlerType, HandlerPc, Holding
      <3>2. fdt' \in [Fd -> Conn \cup {NoConn}]
        BY <2>4 DEF HandleClose, StreamClose, CloseFd
      <3> QED
        BY <2>4, <3>1, <3>2 DEF HandleClose, StreamClose, ProcessTypes
    <2>5. CASE StreamEnter(c)
      <3>1. h' \in [Conn -> HandlerType]
        BY <2>5 DEF StreamEnter, Goto, HandlerType, HandlerPc, Holding
      <3>2. sc' \in [Conn -> ClientType]
        BY <2>5, NewClientTyped DEF StreamEnter, Made
      <3> QED
        BY <2>5, <3>1, <3>2 DEF StreamEnter, ProcessTypes
    <2>6. CASE StreamAdd(c) \/ StreamRemove(c)
      <3>1. PICK pc \in {"stream", "shutdown"} : h' = [h EXCEPT ![c].pc = pc]
        BY <2>6 DEF StreamAdd, StreamRemove, Goto
      <3>5. h' \in [Conn -> HandlerType]
        BY <3>1 DEF HandlerType, HandlerPc, Holding
      <3>2. UNCHANGED sc \/ sc' = [sc EXCEPT ![c] = Added(sc[c], consumer.ev)]
        BY <2>6 DEF StreamAdd, StreamRemove, Added
      <3>3. sc[c] \in ClientType /\ consumer.ev \in Nat
        BY DaemonAssumption DEF ConsumerType
      <3>4. sc' \in [Conn -> ClientType]
        BY <3>2, <3>3, SimpleChangesTyped
      <3> QED
        BY <2>6, <3>5, <3>4 DEF StreamAdd, StreamRemove, ProcessTypes
    <2>7. CASE StreamShutdown(c)
      <3>1. h' \in [Conn -> HandlerType]
        BY <2>7 DEF StreamShutdown, Goto, HandlerType, HandlerPc, Holding
      <3>2. sc' = [sc EXCEPT ![c] = Shutdown(sc[c])]
        BY <2>7 DEF StreamShutdown
      <3>3. sc' \in [Conn -> ClientType]
        BY <3>2, SimpleChangesTyped
      <3> QED
        BY <2>7, <3>1, <3>3 DEF StreamShutdown, ProcessTypes
    <2>8. CASE StreamDestroy(c)
      <3>1. h' \in [Conn -> HandlerType]
        BY <2>8 DEF StreamDestroy, Goto, HandlerType, HandlerPc, Holding
      <3>2. fdt' \in [Fd -> Conn \cup {NoConn}]
        BY <2>8 DEF StreamDestroy, CloseFd
      <3>3. sc' \in [Conn -> ClientType]
        BY <2>8, NewClientTyped DEF StreamDestroy, Destroyed
      <3> QED
        BY <2>8, <3>1, <3>2, <3>3 DEF StreamDestroy, ProcessTypes
    <2>9. CASE WriterStep(c)
      <3>1. LastFed(c) \in Nat /\ Ordered(sc[c], LastFed(c))
        BY LastFedTyped DEF QueueInv
      <3>2. PeersKept /\ UNCHANGED <<process, fdt, h, streamList, ctlList, consumer>>
            /\ WriterChange(c)
        BY <2>9, WriterEffect
      <3>3. PICK r \in ClientType : sc' = [sc EXCEPT ![c] = r]
        BY <3>1, <3>2, WriterKeepsOrder
      <3> QED
        BY <3>2, <3>3 DEF PeersKept, ProcessTypes
    <2> QED
      BY <1>6, <2>1, <2>2, <2>3, <2>4, <2>5, <2>6, <2>7, <2>8, <2>9 DEF ConnStep
  <1> QED
    BY <1>1, <1>2, <1>3, <1>4, <1>5, <1>6, NextCases
\* A client is on a list only while its handler has yet to take it off, and it
\* is destroyed by its handler only.
LEMMA HandlerInvStep ==
    ASSUME IInv, Next
    PROVE  HandlerInv'
  <1> USE DEF IInv, HandlerInv
  <1>1. ASSUME UNCHANGED <<h, sc, streamList>>, PeersKept, ctlList' \subseteq ctlList
        PROVE  HandlerInv'
    BY <1>1 DEF HandlerOK, PeersKept
  <1>2. UNCHANGED peer => PeersKept
    BY DEF PeersKept, Types
  <1>3. CASE MainStep \/ ServerFail \/ ServerEnd \/ Signal \/ StopExchange
    BY <1>1, <1>2, <1>3, ProcessEffect DEF sockets
  <1>4. CASE StopClients
    <2>1. ASSUME NEW d \in Conn
          PROVE  sc'[d].made = sc[d].made /\ sc'[d].writer = sc[d].writer
      BY <1>4, <2>1 DEF StopClients, Shutdown, Types, ClientType
    <2> QED
      BY <1>4, <2>1 DEF StopClients, HandlerOK, sockets
  <1>5. CASE FeedBegin \/ FeedEnd
    BY <1>1, <1>2, <1>5 DEF FeedBegin, FeedEnd, sockets
  <1>6. CASE FeedClient
    <2>1. PICK c \in consumer.todo :
              /\ UNCHANGED <<process, sockets, h, streamList>>
              /\ \/ ctlList' = ctlList \ {c} /\ UNCHANGED sc
                 \/ /\ sc' = [sc EXCEPT ![c] = Fed(sc[c], consumer.ev)]
                    /\ UNCHANGED ctlList
                 \/ sc' = [sc EXCEPT ![c] = Slow(sc[c])] /\ UNCHANGED ctlList
      BY <1>6, FeedEffect
    <2>2. \A d \in Conn : sc'[d].made = sc[d].made /\ sc'[d].writer = sc[d].writer
      <3>1. c \in Conn /\ sc[c] \in ClientType
        BY DEF Types, ConsumerType
      <3>2. \A r \in {Fed(sc[c], consumer.ev), Slow(sc[c])} :
               r.made = sc[c].made /\ r.writer = sc[c].writer
        BY <3>1 DEF Fed, Slow, ClientType
      <3> QED
        BY <2>1, <3>1, <3>2 DEF Types
    <2> QED
      BY <2>1, <2>2 DEF HandlerOK, sockets
  <1>7. ASSUME NEW c \in Conn, ConnStep(c) PROVE HandlerInv'
    <2>1. CASE PeerConnect(c) \/ PeerRead(c) \/ PeerHangup(c)
      BY <1>1, <2>1, PeerEffect DEF streams
    <2>2. CASE Accept(c)
      <3>1. PICK f \in Fd : h' = [h EXCEPT ![c] = [pc |-> "loop", fd |-> f,
                                                   req |-> "query"]]
        BY <2>2, AcceptedFd
      <3>2. /\ peer[c].st = "pending" /\ peer' = [peer EXCEPT ![c].st = "open"]
            /\ UNCHANGED streams
        BY <2>2 DEF Accept
      <3>3. HandlerOK(c)'
        BY <3>1, <3>2 DEF HandlerOK, Streaming, streams, Types, PeerType
      <3>4. ASSUME NEW d \in Conn \ {c} PROVE HandlerOK(d)'
        BY <3>1, <3>2 DEF HandlerOK, streams, Types
      <3> QED
        BY <3>3, <3>4
    <2>3. CASE Answers(c)
      <3>1. PICK r \in HandlerType :
               /\ h' = [h EXCEPT ![c] = r]
               /\ r.fd = h[c].fd
               /\ \/ /\ h[c].pc \in {"loop", "poll", "request", "reply"}
                     /\ r.pc \in {"loop", "poll", "request", "reply", "close", "enter"}
                  \/ h[c].pc = "stream" /\ r.pc = "remove"
        BY <2>3, AnswerEffect
      <3>2. PeersKept /\ UNCHANGED streams
        BY <2>3, AnswerEffect
      <3>3. HandlerOK(c)'
        BY <3>1, <3>2 DEF HandlerOK, Streaming, streams, Types, PeersKept
      <3>4. ASSUME NEW d \in Conn \ {c} PROVE HandlerOK(d)'
        BY <3>1, <3>2 DEF HandlerOK, streams, Types, PeersKept
      <3> QED
        BY <3>3, <3>4
    <2>4. CASE HandleClose(c) \/ StreamClose(c)
      <3>1. HandlerOK(c)'
        BY <2>4
           DEF HandleClose, StreamClose, Goto, HandlerOK, Streaming, streams,
               Types, HandlerType
      <3>2. ASSUME NEW d \in Conn \ {c} PROVE HandlerOK(d)'
        BY <2>4 DEF HandleClose, StreamClose, Goto, HandlerOK, streams, Types
      <3> QED
        BY <3>1, <3>2
    <2>5. CASE StreamEnter(c)
      <3>1. sc' = [sc EXCEPT ![c] = Made] /\ Made.made = "live"
        BY <2>5 DEF StreamEnter, Made, NoClient
      <3>2. HandlerOK(c)'
        BY <2>5, <3>1
           DEF StreamEnter, Goto, HandlerOK, Streaming, sockets, Types,
               HandlerType
      <3>3. ASSUME NEW d \in Conn \ {c} PROVE HandlerOK(d)'
        BY <2>5, <3>1 DEF StreamEnter, Goto, HandlerOK, sockets, Types
      <3> QED
        BY <3>2, <3>3
    <2>6. CASE StreamAdd(c) \/ StreamRemove(c)
      <3>3. \A d \in Conn : sc'[d].made = sc[d].made /\ sc'[d].writer = sc[d].writer
        BY <2>6, AddKeeps DEF StreamRemove
      <3>1. HandlerOK(c)'
        BY <2>6, <3>3
           DEF StreamAdd, StreamRemove, Goto, HandlerOK, Streaming, sockets,
               Types, HandlerType
      <3>2. ASSUME NEW d \in Conn \ {c} PROVE HandlerOK(d)'
        BY <2>6, <3>3
           DEF StreamAdd, StreamRemove, Goto, HandlerOK, sockets, Types
      <3> QED
        BY <3>1, <3>2
    <2>7. CASE StreamShutdown(c)
      <3>1. sc' = [sc EXCEPT ![c] = Shutdown(sc[c])]
        BY <2>7 DEF StreamShutdown
      <3>2. Shutdown(sc[c]).made = sc[c].made /\ Shutdown(sc[c]).writer = sc[c].writer
        BY DEF Shutdown, Types, ClientType
      <3>3. HandlerOK(c)'
        BY <2>7, <3>1, <3>2
           DEF StreamShutdown, Goto, HandlerOK, Streaming, sockets, Types,
               HandlerType
      <3>4. ASSUME NEW d \in Conn \ {c} PROVE HandlerOK(d)'
        BY <2>7, <3>1 DEF StreamShutdown, Goto, HandlerOK, sockets, Types
      <3> QED
        BY <3>3, <3>4
    <2>8. CASE StreamDestroy(c)
      <3>1. /\ sc' = [sc EXCEPT ![c] = Destroyed]
            /\ Destroyed.made = "dead" /\ Destroyed.writer = "ended"
        BY <2>8 DEF StreamDestroy, Destroyed, NoClient
      <3>2. HandlerOK(c)'
        BY <2>8, <3>1
           DEF StreamDestroy, Goto, HandlerOK, Streaming, Types, HandlerType
      <3>3. ASSUME NEW d \in Conn \ {c} PROVE HandlerOK(d)'
        BY <2>8, <3>1 DEF StreamDestroy, Goto, HandlerOK, Types
      <3> QED
        BY <3>2, <3>3
    <2>9. CASE WriterStep(c)
      <3>1. /\ PeersKept /\ UNCHANGED <<h, streamList, ctlList>> /\ WriterChange(c)
            /\ sc[c].writer \notin {"none", "ended"}
        BY <2>9, WriterEffect
      <3>2. LastFed(c) \in Nat /\ Ordered(sc[c], LastFed(c))
        BY LastFedTyped DEF QueueInv
      <3>3. PICK r \in ClientType : sc' = [sc EXCEPT ![c] = r] /\ r.made = sc[c].made
        BY <3>1, <3>2, WriterKeepsOrder
      <3>4. sc[c].made = "live"
        BY <3>1 DEF HandlerOK
      <3> QED
        BY <3>1, <3>3, <3>4 DEF HandlerOK, PeersKept, Types
    <2> QED
      BY <1>7, <2>1, <2>2, <2>3, <2>4, <2>5, <2>6, <2>7, <2>8, <2>9 DEF ConnStep
  <1> QED
    BY <1>3, <1>4, <1>5, <1>6, <1>7, NextCases

\* The controller's list is not changed by others while the consumer feeds.
LEMMA FeedInvStep ==
    ASSUME IInv, Next
    PROVE  FeedInv'
  <1> USE DEF IInv, FeedInv
  <1>1. UNCHANGED <<ctlList, consumer>> => FeedInv'
    OBVIOUS
  <1>2. CASE MainStep \/ ServerFail \/ ServerEnd \/ Signal \/ StopExchange
    BY <1>2, ProcessEffect
  <1>3. CASE StopClients
    BY <1>1, <1>3 DEF StopClients
  <1>4. CASE FeedBegin
    BY <1>4, LastFedTyped DEF FeedBegin
  <1>5. CASE FeedClient
    <2>1. PICK c \in consumer.todo :
              /\ consumer' = [consumer EXCEPT !.todo = @ \ {c}]
              /\ ctlList' \in {ctlList, ctlList \ {c}}
      BY <1>5, FeedEffect
    <2> QED
      BY <2>1, <1>5 DEF Types, ConsumerType, FeedClient
  <1>6. CASE FeedEnd
    BY <1>6 DEF FeedEnd, Types, ConsumerType
  <1>7. ASSUME NEW c \in Conn, ConnStep(c) PROVE FeedInv'
    <2>1. CASE PeerConnect(c) \/ PeerRead(c) \/ PeerHangup(c)
      BY <1>1, <2>1, PeerEffect DEF streams
    <2>2. CASE Accept(c)
      BY <1>1, <2>2 DEF Accept, streams
    <2>3. CASE Answers(c)
      BY <1>1, <2>3, AnswerEffect DEF streams
    <2>4. CASE HandleClose(c) \/ StreamClose(c)
      BY <1>1, <2>4 DEF HandleClose, StreamClose, streams
    <2>5. CASE StreamEnter(c) \/ StreamShutdown(c) \/ StreamDestroy(c)
      BY <1>1, <2>5 DEF StreamEnter, StreamShutdown, StreamDestroy
    <2>6. CASE StreamAdd(c) \/ StreamRemove(c)
      BY <2>6 DEF StreamAdd, StreamRemove
    <2>7. CASE WriterStep(c)
      BY <1>1, <2>7, WriterEffect
    <2> QED
      BY <1>7, <2>1, <2>2, <2>3, <2>4, <2>5, <2>6, <2>7 DEF ConnStep
  <1> QED
    BY <1>2, <1>3, <1>4, <1>5, <1>6, <1>7, NextCases
\* No client is fed an event twice, and none takes one that is older than what
\* it has.
LEMMA QueueInvStep ==
    ASSUME IInv, Next
    PROVE  QueueInv'
  <1> USE DEF IInv, QueueInv
  <1>1. UNCHANGED <<sc, consumer.todo, consumer.ev>> => QueueInv'
    BY DEF LastFed
  <1>2. /\ \A c \in Conn : LastFed(c) \in Nat /\ sc[c] \in ClientType
        /\ \A c \in consumer.todo : consumer.ev = LastFed(c) + 1
        /\ consumer.ev \in Nat
    BY LastFedTyped DEF Types
  <1>3. ASSUME NEW c \in Conn, NEW r \in ClientType, Ordered(r, LastFed(c)),
               sc' = [sc EXCEPT ![c] = r], UNCHANGED consumer
        PROVE  QueueInv'
    BY <1>3 DEF LastFed, Types
  <1>4. CASE MainStep \/ ServerFail \/ ServerEnd \/ Signal \/ StopExchange
    BY <1>1, <1>4, ProcessEffect
  <1>5. CASE StopClients
    <2>1. ASSUME NEW c \in Conn PROVE Ordered(sc[c], LastFed(c))'
      <3>1. LastFed(c)' = LastFed(c) /\ sc'[c] \in {sc[c], Shutdown(sc[c])}
        BY <1>5 DEF StopClients, LastFed
      <3>2. Ordered(sc'[c], LastFed(c))
        BY <1>2, <3>1, SimpleChangesOrdered
      <3> QED
        BY <3>1, <3>2
    <2> QED
      BY <2>1
  <1>6. CASE FeedBegin
    <2>1. ASSUME NEW c \in Conn PROVE Ordered(sc[c], LastFed(c))'
      <3>1. sc' = sc /\ LastFed(c)' \in {LastFed(c), LastFed(c) + 1}
        BY <1>2, <1>6 DEF FeedBegin, LastFed, FeedInv
      <3>2. Ordered(sc[c], LastFed(c)')
        BY <1>2, <3>1, SimpleChangesOrdered
      <3> QED
        BY <3>1, <3>2
    <2> QED
      BY <2>1
  <1>7. CASE FeedClient
    <2>1. PICK c \in consumer.todo :
              /\ consumer' = [consumer EXCEPT !.todo = @ \ {c}]
              /\ \/ UNCHANGED sc
                 \/ /\ Len(sc[c].queue) < QCap
                    /\ sc' = [sc EXCEPT ![c] = Fed(sc[c], consumer.ev)]
                 \/ sc' = [sc EXCEPT ![c] = Slow(sc[c])]
      BY <1>7, FeedEffect
    <2>2. c \in Conn
      BY DEF Types, ConsumerType
    <2>3. consumer.ev = LastFed(c) + 1 /\ LastFed(c)' = consumer.ev
      BY <1>2, <2>1 DEF LastFed, Types, ConsumerType
    <2>4. Ordered(sc'[c], LastFed(c)')
      <3>1. CASE UNCHANGED sc
        BY <1>2, <2>2, <2>3, <3>1, SimpleChangesOrdered
      <3>2. CASE /\ Len(sc[c].queue) < QCap
                 /\ sc' = [sc EXCEPT ![c] = Fed(sc[c], consumer.ev)]
        <4>1. sc'[c] = Fed(sc[c], LastFed(c) + 1)
          BY <2>2, <2>3, <3>2 DEF Types
        <4> QED
          BY <1>2, <2>2, <2>3, <3>2, <4>1, FedOrdered
      <3>3. CASE sc' = [sc EXCEPT ![c] = Slow(sc[c])]
        <4>1. sc'[c] = Slow(sc[c])
          BY <2>2, <3>3 DEF Types
        <4> QED
          BY <1>2, <2>2, <2>3, <4>1, SimpleChangesOrdered
      <3> QED
        BY <2>1, <3>1, <3>2, <3>3
    <2>5. ASSUME NEW d \in Conn \ {c} PROVE sc'[d] = sc[d] /\ LastFed(d)' = LastFed(d)
      BY <2>1, <2>2 DEF LastFed, Types, ConsumerType
    <2> QED
      BY <2>4, <2>5
  <1>8. CASE FeedEnd
    BY <1>1, <1>8 DEF FeedEnd, Types, ConsumerType
  <1>9. ASSUME NEW c \in Conn, ConnStep(c) PROVE QueueInv'
    <2>1. CASE PeerConnect(c) \/ PeerRead(c) \/ PeerHangup(c)
      BY <1>1, <2>1, PeerEffect DEF streams
    <2>2. CASE Accept(c)
      BY <1>1, <2>2 DEF Accept, streams
    <2>3. CASE Answers(c)
      BY <1>1, <2>3, AnswerEffect DEF streams
    <2>4. CASE HandleClose(c) \/ StreamClose(c)
      BY <1>1, <2>4 DEF HandleClose, StreamClose, streams
    <2>5. CASE StreamRemove(c)
      BY <1>1, <2>5 DEF StreamRemove
    <2>10. CASE StreamAdd(c)
      <3>1. sc' = [sc EXCEPT ![c] = Added(sc[c], consumer.ev)] /\ UNCHANGED consumer
        BY <2>10 DEF StreamAdd, Added
      <3>2. Added(sc[c], consumer.ev) \in ClientType
        BY <1>2, SimpleChangesTyped
      <3>3. Ordered(Added(sc[c], consumer.ev), LastFed(c))
        BY <1>2, SimpleChangesOrdered
      <3> QED
        BY <1>3, <3>1, <3>2, <3>3
    <2>6. CASE StreamEnter(c)
      <3>1. sc' = [sc EXCEPT ![c] = Made] /\ UNCHANGED consumer
        BY <2>6 DEF StreamEnter, Made
      <3> QED
        BY <1>2, <1>3, <3>1, NewClientTyped, NewClientOrdered
    <2>7. CASE StreamShutdown(c)
      <3>1. sc' = [sc EXCEPT ![c] = Shutdown(sc[c])] /\ UNCHANGED consumer
        BY <2>7 DEF StreamShutdown
      <3> QED
        BY <1>2, <1>3, <3>1, SimpleChangesTyped, SimpleChangesOrdered
    <2>8. CASE StreamDestroy(c)
      <3>1. sc' = [sc EXCEPT ![c] = Destroyed] /\ UNCHANGED consumer
        BY <2>8 DEF StreamDestroy, Destroyed
      <3> QED
        BY <1>2, <1>3, <3>1, NewClientTyped, NewClientOrdered
    <2>9. CASE WriterStep(c)
      <3>1. WriterChange(c) /\ UNCHANGED consumer
        BY <2>9, WriterEffect
      <3>2. PICK r \in ClientType : sc' = [sc EXCEPT ![c] = r] /\ Ordered(r, LastFed(c))
        BY <1>2, <3>1, WriterKeepsOrder
      <3> QED
        BY <1>3, <3>1, <3>2
    <2> QED
      BY <1>9, <2>1, <2>2, <2>3, <2>4, <2>5, <2>6, <2>7, <2>8, <2>9, <2>10
         DEF ConnStep
  <1> QED
    BY <1>4, <1>5, <1>6, <1>7, <1>8, <1>9, NextCases

\* Only the second close(2) of a destroyed client takes a number away from the
\* handler that holds it.
LEMMA FdInvStep ==
    ASSUME IInv, Next
    PROVE  FdInv'
  <1> USE DEF IInv, FdInv
  <1>1. ASSUME UNCHANGED fdt,
               \A c \in Conn : /\ sc[c].made = "dead" => sc'[c].made = "dead"
                               /\ h'[c].pc \in Holding => h[c].pc \in Holding
                               /\ h'[c].fd = h[c].fd
        PROVE  FdInv'
    BY <1>1 DEF FdOK
  <1>2. CASE MainStep \/ ServerFail \/ ServerEnd \/ Signal \/ StopExchange
    BY <1>1, <1>2, ProcessEffect DEF sockets
  <1>3. CASE StopClients
    <2>1. ASSUME NEW d \in Conn PROVE sc'[d].made = sc[d].made
      BY <1>3 DEF StopClients, Shutdown, Types, ClientType
    <2> QED
      BY <1>1, <1>3, <2>1 DEF StopClients, sockets
  <1>4. CASE FeedBegin \/ FeedEnd
    BY <1>1, <1>4 DEF FeedBegin, FeedEnd, sockets
  <1>5. CASE FeedClient
    <2>1. PICK c \in consumer.todo :
              /\ UNCHANGED <<fdt, h>>
              /\ \/ UNCHANGED sc
                 \/ sc' = [sc EXCEPT ![c] = Fed(sc[c], consumer.ev)]
                 \/ sc' = [sc EXCEPT ![c] = Slow(sc[c])]
      BY <1>5, FeedEffect DEF sockets
    <2>2. c \in Conn /\ sc[c] \in ClientType
      BY DEF Types, ConsumerType
    <2>3. \A r \in {Fed(sc[c], consumer.ev), Slow(sc[c])} : r.made = sc[c].made
      BY <2>2 DEF Fed, Slow, ClientType
    <2>4. \A d \in Conn : sc'[d].made = sc[d].made
      BY <2>1, <2>2, <2>3 DEF Types
    <2> QED
      BY <1>1, <2>1, <2>4
  <1>6. ASSUME NEW c \in Conn, ConnStep(c) PROVE FdInv'
    <2>1. CASE PeerConnect(c) \/ PeerRead(c) \/ PeerHangup(c)
      BY <1>1, <2>1, PeerEffect DEF streams
    <2>2. CASE Accept(c)
      <3>1. PICK f \in Fd : /\ fdt[f] = NoConn
                            /\ fdt' = [fdt EXCEPT ![f] = c]
                            /\ h' = [h EXCEPT ![c] = [pc |-> "loop", fd |-> f,
                                                      req |-> "query"]]
        BY <2>2, AcceptedFd
      <3>2. sc' = sc /\ h[c].pc = "none"
        BY <2>2 DEF Accept, streams, HandlerInv, HandlerOK
      <3>3. sc[c].made # "dead"
        BY <3>2 DEF HandlerInv, HandlerOK
      <3>4. FdOK(c)'
        BY <3>1 DEF FdOK, Types
      <3>5. ASSUME NEW d \in Conn \ {c} PROVE FdOK(d)'
        <4>1. SUFFICES ASSUME h[d].pc \in Holding PROVE FdOK(d)'
          BY <3>1 DEF FdOK, Types
        <4>2. CASE fdt[h[d].fd] = d
          BY <3>1, <4>2, DaemonAssumption DEF FdOK, Types
        <4>3. CASE \E e \in Conn \ {d} : sc[e].made = "dead" /\ h[e].fd = h[d].fd
          BY <3>1, <3>2, <3>3, <4>3 DEF FdOK, Types
        <4> QED
          BY <4>1, <4>2, <4>3 DEF FdOK
      <3> QED
        BY <3>4, <3>5
    <2>3. CASE Answers(c)
      <3>1. PICK r \in HandlerType :
               /\ h' = [h EXCEPT ![c] = r]
               /\ r.fd = h[c].fd
               /\ h[c].pc \in {"loop", "poll", "request", "reply", "stream"}
        BY <2>3, AnswerEffect
      <3>2. UNCHANGED <<fdt, sc>>
        BY <2>3, AnswerEffect DEF streams
      <3> QED
        BY <1>1, <3>1, <3>2 DEF Holding, Types
    <2>4. CASE HandleClose(c) \/ StreamClose(c)
      <3>1. /\ h[c].pc \in Holding
            /\ fdt' = [fdt EXCEPT ![h[c].fd] = NoConn]
            /\ UNCHANGED sc
        BY <2>4 DEF HandleClose, StreamClose, CloseFd, Holding, streams
      <3>2. /\ h'[c].pc \notin Holding /\ \A d \in Conn : h'[d].fd = h[d].fd
            /\ \A d \in Conn \ {c} : h'[d] = h[d]
        BY <2>4 DEF HandleClose, StreamClose, Goto, Holding, Types, HandlerType
      <3>3. ASSUME NEW d \in Conn \ {c}, h[d].pc \in Holding PROVE FdOK(d)'
        <4>1. CASE h[d].fd # h[c].fd
          BY <3>1, <3>2, <3>3, <4>1
             DEF FdOK, Types, HandlerInv, HandlerOK, Holding
        <4>2. CASE h[d].fd = h[c].fd
          <5>1. PICK e \in Conn : sc[e].made = "dead" /\ h[e].fd = h[d].fd
            BY <3>1, <3>3, <4>2 DEF FdOK
          <5>2. e # d
            BY <3>3, <5>1 DEF HandlerInv, HandlerOK, Holding
          <5> QED
            BY <3>1, <3>2, <5>1, <5>2 DEF FdOK
        <4> QED
          BY <4>1, <4>2
      <3> QED
        BY <3>2, <3>3 DEF FdOK
    <2>5. CASE StreamEnter(c)
      <3>1. sc[c].made # "dead" /\ h[c].pc = "enter"
        BY <2>5 DEF StreamEnter, HandlerInv, HandlerOK
      <3>2. \A d \in Conn \ {c} : sc'[d] = sc[d] /\ h'[d] = h[d]
        BY <2>5 DEF StreamEnter, Goto, Types
      <3>3. h'[c].fd = h[c].fd /\ UNCHANGED fdt
        BY <2>5 DEF StreamEnter, Goto, Types, HandlerType, sockets
      <3> QED
        BY <1>1, <3>1, <3>2, <3>3 DEF Holding
    <2>6. CASE StreamAdd(c) \/ StreamRemove(c)
      <3>1. h[c].pc \in Holding /\ UNCHANGED fdt
        BY <2>6 DEF StreamAdd, StreamRemove, Holding, sockets
      <3>3. \A d \in Conn : sc'[d].made = sc[d].made
        BY <2>6, AddKeeps DEF StreamRemove
      <3>2. /\ \A d \in Conn \ {c} : h'[d] = h[d]
            /\ h'[c].fd = h[c].fd
        BY <2>6 DEF StreamAdd, StreamRemove, Goto, Types, HandlerType
      <3> QED
        BY <1>1, <3>1, <3>2, <3>3
    <2>7. CASE StreamShutdown(c)
      <3>1. h[c].pc \in Holding /\ UNCHANGED fdt /\ sc[c].made = "live"
        BY <2>7
           DEF StreamShutdown, Holding, sockets, HandlerInv, HandlerOK,
               Streaming
      <3>2. \A d \in Conn \ {c} : sc'[d] = sc[d] /\ h'[d] = h[d]
        BY <2>7 DEF StreamShutdown, Goto, Types
      <3>3. h'[c].fd = h[c].fd
        BY <2>7 DEF StreamShutdown, Goto, Types, HandlerType
      <3> QED
        BY <1>1, <3>1, <3>2, <3>3
    <2>8. CASE StreamDestroy(c)
      <3>1. /\ sc' = [sc EXCEPT ![c] = Destroyed] /\ Destroyed.made = "dead"
            /\ fdt' = [fdt EXCEPT ![h[c].fd] = NoConn]
        BY <2>8 DEF StreamDestroy, Destroyed, NoClient, CloseFd
      <3>2. /\ h'[c].pc \notin Holding /\ \A d \in Conn : h'[d].fd = h[d].fd
            /\ \A d \in Conn \ {c} : h'[d] = h[d]
        BY <2>8 DEF StreamDestroy, Goto, Holding, Types, HandlerType
      <3>3. sc'[c].made = "dead" /\ \A d \in Conn \ {c} : sc'[d] = sc[d]
        BY <3>1 DEF Types
      <3>4. ASSUME NEW d \in Conn \ {c}, h[d].pc \in Holding PROVE FdOK(d)'
        <4>1. CASE h[d].fd # h[c].fd
          <5>1. fdt'[h[d].fd] = fdt[h[d].fd]
            BY <3>1, <3>4, <4>1 DEF Types, HandlerInv, HandlerOK, Holding
          <5> QED
            BY <3>2, <3>3, <3>4, <5>1 DEF FdOK
        <4>2. CASE h[d].fd = h[c].fd
          BY <3>2, <3>3, <4>2 DEF FdOK
        <4> QED
          BY <4>1, <4>2
      <3> QED
        BY <3>2, <3>4 DEF FdOK
    <2>9. CASE WriterStep(c)
      <3>1. UNCHANGED <<fdt, h>> /\ WriterChange(c)
        BY <2>9, WriterEffect
      <3>2. LastFed(c) \in Nat /\ Ordered(sc[c], LastFed(c))
        BY LastFedTyped DEF QueueInv
      <3>3. PICK r \in ClientType : sc' = [sc EXCEPT ![c] = r] /\ r.made = sc[c].made
        BY <3>1, <3>2, WriterKeepsOrder
      <3>4. \A d \in Conn : sc'[d].made = sc[d].made
        BY <3>3 DEF Types
      <3> QED
        BY <1>1, <3>1, <3>4
    <2> QED
      BY <1>6, <2>1, <2>2, <2>3, <2>4, <2>5, <2>6, <2>7, <2>8, <2>9 DEF ConnStep
  <1> QED
    BY <1>2, <1>3, <1>4, <1>5, <1>6, NextCases

-----------------------------------------------------------------------------
(* The accounts of a stream client.                                        *)

\* A client that is unchanged but for what no account mentions.
SameAccount(r, s) ==
    /\ Given(r) = Given(s) /\ r.dropped = s.dropped /\ r.since = s.since
    /\ r.closed = s.closed

\* The writer moves a line from the queue to its hand and from there to the
\* socket, or ends and closes its client.
LEMMA WriterCounts ==
    ASSUME Types, NEW c \in Conn, WriterChange(c)
    PROVE  \E r \in ClientType :
              /\ sc' = [sc EXCEPT ![c] = r]
              /\ r.closed \/ SameAccount(r, sc[c])
              /\ Fresh(sc[c]) => Fresh(r)
  <1> DEFINE s == sc[c]
  <1>1. /\ s \in ClientType /\ s.queue \in Seq(Nat) /\ s.count \in Nat
        /\ Len(s.queue) \in Nat
    BY LenProperties DEF Types, ClientType
  <1>2. CASE sc' = [sc EXCEPT ![c] = Ended(s)]
    <2>1. /\ Ended(s).closed /\ Ended(s).writer = "ended" /\ Ended(s).count = s.count
          /\ Ended(s).dropped = s.dropped /\ Ended(s).queue = s.queue
      BY <1>1 DEF Ended, ClientType
    <2>2. Fresh(s) => Fresh(Ended(s))
      BY <2>1 DEF Fresh
    <2> QED
      BY <1>1, <1>2, <2>1, <2>2, SimpleChangesTyped
  <1>3. CASE s.writer = "top" /\ sc' = [sc EXCEPT ![c] = Popping(s)]
    <2>1. /\ Popping(s).closed = s.closed /\ Popping(s).writer = "pop"
          /\ Popping(s).count = s.count /\ Popping(s).since = s.since
          /\ Popping(s).dropped = s.dropped /\ Popping(s).queue = s.queue
      BY <1>1 DEF Popping, ClientType
    <2>2. SameAccount(Popping(s), s) /\ (Fresh(s) => Fresh(Popping(s)))
      BY <1>3, <2>1 DEF Fresh, SameAccount, Given
    <2> QED
      BY <1>1, <1>3, <2>2, SimpleChangesTyped
  <1>4. CASE s.writer = "pop" /\ s.queue # <<>> /\ sc' = [sc EXCEPT ![c] = Taken(s)]
    <2>1. /\ Taken(s).closed = s.closed /\ Taken(s).writer = "send"
          /\ Taken(s).count = s.count /\ Taken(s).since = s.since
          /\ Taken(s).dropped = s.dropped /\ Taken(s).queue = Tail(s.queue)
      BY <1>1 DEF Taken, ClientType
    <2>2. Len(Tail(s.queue)) = Len(s.queue) - 1
      BY <1>1, <1>4, HeadTailProperties
    <2>3. SameAccount(Taken(s), s) /\ ~Fresh(s)
      BY <1>1, <1>4, <2>1, <2>2 DEF Fresh, SameAccount, Given
    <2> QED
      BY <1>1, <1>4, <2>3, QueueChangesTyped
  <1>5. CASE s.writer \in {"send", "blocked"} /\ sc' = [sc EXCEPT ![c] = SentLine(s)]
    <2>1. /\ SentLine(s).closed = s.closed /\ SentLine(s).writer = "top"
          /\ SentLine(s).count = s.count + 1 /\ SentLine(s).since = s.since
          /\ SentLine(s).dropped = s.dropped /\ SentLine(s).queue = s.queue
      BY <1>1 DEF SentLine, ClientType
    <2>2. SameAccount(SentLine(s), s) /\ ~Fresh(s)
      BY <1>1, <1>5, <2>1 DEF Fresh, SameAccount, Given
    <2> QED
      BY <1>1, <1>5, <2>2, SimpleChangesTyped
  <1>6. ASSUME s.writer = "send", NEW k \in Conn, sc' = [sc EXCEPT ![c] = Blocked(s, k)]
        PROVE  \E r \in ClientType :
                  /\ sc' = [sc EXCEPT ![c] = r]
                  /\ r.closed \/ SameAccount(r, s)
                  /\ Fresh(s) => Fresh(r)
    <2>1. /\ Blocked(s, k).closed = s.closed /\ Blocked(s, k).writer = "blocked"
          /\ Blocked(s, k).count = s.count /\ Blocked(s, k).since = s.since
          /\ Blocked(s, k).dropped = s.dropped /\ Blocked(s, k).queue = s.queue
      BY <1>1 DEF Blocked, ClientType
    <2>2. SameAccount(Blocked(s, k), s) /\ ~Fresh(s)
      BY <1>6, <2>1 DEF Fresh, SameAccount, Given
    <2> QED
      BY <1>1, <1>6, <2>2, SimpleChangesTyped
  <1> QED
    BY <1>2, <1>3, <1>4, <1>5, <1>6 DEF WriterChange

\* An event is one more given, or one more dropped by a full queue.
LEMMA FedCounts ==
    ASSUME NEW r \in ClientType, NEW n \in Nat, Counted(r, n)
    PROVE  /\ Counted(Fed(r, n + 1), n + 1)
           /\ ~(Len(r.queue) < QCap) => Counted(Slow(r), n + 1)
           /\ Fed(r, n + 1).closed = r.closed /\ Slow(r).closed = r.closed
  <1>1. /\ r.queue \in Seq(Nat) /\ r.count \in Nat /\ r.dropped \in Nat
        /\ r.since \in Nat /\ Len(r.queue) \in Nat
    BY LenProperties DEF ClientType
  <1>2. /\ Fed(r, n + 1).writer = r.writer /\ Fed(r, n + 1).count = r.count
        /\ Fed(r, n + 1).since = r.since /\ Fed(r, n + 1).dropped = r.dropped
        /\ Fed(r, n + 1).closed = r.closed
        /\ Fed(r, n + 1).queue = Append(r.queue, n + 1)
    BY DEF Fed, ClientType
  <1>3. Len(Append(r.queue, n + 1)) = Len(r.queue) + 1
    BY <1>1, AppendProperties
  <1>7. Given(r) \in Nat
    BY <1>1 DEF Given
  <1>8. /\ Given(r) + r.dropped = n - r.since
        /\ r.dropped > 0 => Given(r) >= QCap
    BY DEF Counted
  <1>9. Given(Fed(r, n + 1)) = Given(r) + 1
    <2> DEFINE hand == IF r.writer \in {"send", "blocked"} THEN 1 ELSE 0
    <2>1. hand \in Nat /\ r.count \in Nat /\ Len(r.queue) \in Nat
      BY <1>1
    <2>2. Given(r) = r.count + hand + Len(r.queue)
      BY DEF Given
    <2>3. Given(Fed(r, n + 1)) = r.count + hand + (Len(r.queue) + 1)
      BY <1>2, <1>3 DEF Given
    <2>4. \A i, j, k \in Nat : i + j + (k + 1) = (i + j + k) + 1
      OBVIOUS
    <2>5. r.count + hand + (Len(r.queue) + 1) = (r.count + hand + Len(r.queue)) + 1
      BY <2>1, <2>4
    <2> QED
      BY <2>2, <2>3, <2>5
  <1>11. r.dropped \in Nat /\ r.since \in Nat /\ QCap \in Nat /\ Len(r.queue) \in Nat
    BY <1>1, DaemonAssumption
  <1>12. \A g, d, m, s \in Nat :
            g + d = m - s => /\ (g + 1) + d = (m + 1) - s
                             /\ g + (d + 1) = (m + 1) - s
    OBVIOUS
  <1>13. /\ (Given(r) + 1) + r.dropped = (n + 1) - r.since
         /\ Given(r) + (r.dropped + 1) = (n + 1) - r.since
    BY <1>7, <1>8, <1>11, <1>12
  <1>4. Counted(Fed(r, n + 1), n + 1)
    <2>1. Given(Fed(r, n + 1)) + r.dropped = (n + 1) - r.since
      BY <1>9, <1>13
    <2>2. r.dropped > 0 => Given(Fed(r, n + 1)) >= QCap
      BY <1>7, <1>8, <1>9, <1>11
    <2> QED
      BY <1>2, <2>1, <2>2 DEF Counted
  <1>5. /\ Slow(r).writer = r.writer /\ Slow(r).count = r.count
        /\ Slow(r).since = r.since /\ Slow(r).dropped = r.dropped + 1
        /\ Slow(r).closed = r.closed /\ Slow(r).queue = r.queue
    BY DEF Slow, ClientType
  <1>10. Given(Slow(r)) = Given(r) /\ Given(r) >= Len(r.queue)
    BY <1>1, <1>5 DEF Given
  <1>6. ~(Len(r.queue) < QCap) => Counted(Slow(r), n + 1)
    <2>1. Given(Slow(r)) + (r.dropped + 1) = (n + 1) - r.since
      BY <1>10, <1>13
    <2>2. ~(Len(r.queue) < QCap) => Given(Slow(r)) >= QCap
      BY <1>7, <1>10, <1>11
    <2> QED
      BY <1>5, <2>1, <2>2 DEF Counted
  <1> QED
    BY <1>2, <1>4, <1>5, <1>6

\* The accounts balance after every step.
LEMMA CountStep ==
    ASSUME IInv, CountInv, Next
    PROVE  CountInv'
  <1> USE DEF IInv, CountInv
  <1>1. ASSUME UNCHANGED <<sc, consumer.todo, consumer.ev>>, ctlList' \subseteq ctlList,
               \A c \in Conn : h'[c].pc = "add" => h[c].pc = "add"
        PROVE  CountInv'
    BY <1>1 DEF CountOK, LastFed
  <1>2. /\ \A c \in Conn : LastFed(c) \in Nat /\ sc[c] \in ClientType
        /\ \A c \in consumer.todo : consumer.ev = LastFed(c) + 1
        /\ consumer.ev \in Nat
    BY LastFedTyped DEF Types
  <1>3. ASSUME NEW c \in Conn, NEW r \in ClientType, UNCHANGED <<consumer, h>>,
               ctlList' \subseteq ctlList, sc' = [sc EXCEPT ![c] = r],
               r.closed \/ SameAccount(r, sc[c]), Fresh(sc[c]) => Fresh(r)
        PROVE  CountInv'
    BY <1>3 DEF CountOK, LastFed, Types, SameAccount, Counted
  <1>4. CASE MainStep \/ ServerFail \/ ServerEnd \/ Signal \/ StopExchange
    BY <1>1, <1>4, ProcessEffect
  <1>5. CASE StopClients
    <2>1. ASSUME NEW c \in Conn PROVE CountOK(c)'
      <3>1. /\ LastFed(c)' = LastFed(c) /\ h' = h /\ ctlList' = ctlList
            /\ sc'[c] \in {sc[c], Shutdown(sc[c])}
        BY <1>5 DEF StopClients, LastFed
      <3>2. /\ Shutdown(sc[c]).closed /\ Shutdown(sc[c]).writer = sc[c].writer
            /\ Shutdown(sc[c]).queue = sc[c].queue
            /\ Shutdown(sc[c]).count = sc[c].count
            /\ Shutdown(sc[c]).dropped = sc[c].dropped
        BY <1>2 DEF Shutdown, ClientType
      <3> QED
        BY <3>1, <3>2 DEF CountOK, Fresh
    <2> QED
      BY <2>1
  <1>6. CASE FeedBegin
    <2>1. /\ UNCHANGED <<sc, h, ctlList>> /\ consumer.todo = {}
          /\ consumer'.todo = ctlList /\ consumer'.ev = consumer.ev + 1
      BY <1>6 DEF FeedBegin, FeedInv
    <2>2. \A c \in ctlList : LastFed(c)' = LastFed(c)
      BY <1>2, <2>1 DEF LastFed
    <2> QED
      BY <2>1, <2>2 DEF CountOK
  <1>7. CASE FeedClient
    <2>1. PICK c \in consumer.todo :
              /\ consumer' = [consumer EXCEPT !.todo = @ \ {c}]
              /\ UNCHANGED <<process, sockets, h, streamList>>
              /\ \/ ctlList' = ctlList \ {c} /\ UNCHANGED sc
                 \/ /\ Len(sc[c].queue) < QCap
                    /\ sc' = [sc EXCEPT ![c] = Fed(sc[c], consumer.ev)]
                    /\ UNCHANGED ctlList
                 \/ /\ ~(Len(sc[c].queue) < QCap)
                    /\ sc' = [sc EXCEPT ![c] = Slow(sc[c])]
                    /\ UNCHANGED ctlList
      BY <1>7, FeedEffect
    <2>2. c \in Conn /\ c \in ctlList /\ h[c].pc # "add"
      BY DEF Types, ConsumerType, FeedInv, HandlerInv, HandlerOK
    <2>3. consumer.ev = LastFed(c) + 1 /\ LastFed(c)' = consumer.ev
      BY <1>2, <2>1 DEF LastFed, Types, ConsumerType
    <2>4. ASSUME NEW d \in Conn \ {c} PROVE CountOK(d)'
      <3>1. sc'[d] = sc[d] /\ LastFed(d)' = LastFed(d) /\ h'[d] = h[d]
            /\ (d \in ctlList' => d \in ctlList)
        BY <2>1, <2>2 DEF LastFed, Types, ConsumerType
      <3> QED
        BY <3>1 DEF CountOK
    <2>5. CountOK(c)'
      <3>1. CASE ctlList' = ctlList \ {c} /\ UNCHANGED sc
        BY <2>1, <2>2, <3>1 DEF CountOK
      <3>2. CASE sc' = [sc EXCEPT ![c] = Fed(sc[c], consumer.ev)]
        <4>1. sc'[c] = Fed(sc[c], LastFed(c) + 1)
          BY <2>2, <2>3, <3>2 DEF Types
        <4>2. ASSUME ~sc'[c].closed PROVE Counted(sc'[c], LastFed(c) + 1)
          <5>1. ~sc[c].closed
            BY <1>2, <2>2, <4>1, <4>2 DEF Fed, ClientType
          <5>2. Counted(sc[c], LastFed(c))
            BY <2>2, <5>1 DEF CountOK
          <5> QED
            BY <1>2, <2>2, <4>1, <5>2, FedCounts
        <4> QED
          BY <2>1, <2>2, <2>3, <4>2 DEF CountOK
      <3>3. CASE ~(Len(sc[c].queue) < QCap) /\ sc' = [sc EXCEPT ![c] = Slow(sc[c])]
        <4>1. sc'[c] = Slow(sc[c])
          BY <2>2, <3>3 DEF Types
        <4>2. ASSUME ~sc'[c].closed PROVE Counted(sc'[c], LastFed(c) + 1)
          <5>1. ~sc[c].closed
            BY <1>2, <2>2, <4>1, <4>2 DEF Slow, ClientType
          <5>2. Counted(sc[c], LastFed(c))
            BY <2>2, <5>1 DEF CountOK
          <5> QED
            BY <1>2, <2>2, <3>3, <4>1, <5>2, FedCounts
        <4> QED
          BY <2>1, <2>2, <2>3, <4>2 DEF CountOK
      <3> QED
        BY <2>1, <3>1, <3>2, <3>3
    <2> QED
      BY <2>4, <2>5
  <1>8. CASE FeedEnd
    BY <1>1, <1>8 DEF FeedEnd, Types, ConsumerType
  <1>9. ASSUME NEW c \in Conn, ConnStep(c) PROVE CountInv'
    <2>1. CASE PeerConnect(c) \/ PeerRead(c) \/ PeerHangup(c)
      BY <1>1, <2>1, PeerEffect DEF streams
    <2>2. CASE Accept(c)
      <3>1. \E f \in Fd : h' = [h EXCEPT ![c] = [pc |-> "loop", fd |-> f,
                                                 req |-> "query"]]
        BY <2>2, AcceptedFd
      <3> QED
        BY <1>1, <2>2, <3>1 DEF Accept, streams, Types
    <2>3. CASE Answers(c)
      <3>1. PICK r \in HandlerType : h' = [h EXCEPT ![c] = r] /\ r.pc # "add"
        BY <2>3, AnswerEffect
      <3> QED
        BY <1>1, <2>3, <3>1, AnswerEffect DEF streams, Types
    <2>4. CASE HandleClose(c) \/ StreamClose(c) \/ StreamRemove(c)
      <3>1. \E pc \in {"ended", "destroy", "shutdown"} : h' = [h EXCEPT ![c].pc = pc]
        BY <2>4 DEF HandleClose, StreamClose, StreamRemove, Goto
      <3>2. \A d \in Conn : h'[d].pc = "add" => h[d].pc = "add"
        BY <3>1 DEF Types, HandlerType
      <3>3. UNCHANGED <<sc, consumer>> /\ ctlList' \subseteq ctlList
        BY <2>4 DEF HandleClose, StreamClose, StreamRemove, streams
      <3> QED
        BY <1>1, <3>2, <3>3
    <2>5. CASE StreamEnter(c)
      <3>1. /\ sc' = [sc EXCEPT ![c] = Made] /\ UNCHANGED <<consumer, ctlList>>
            /\ h[c].pc = "enter" /\ h' = [h EXCEPT ![c].pc = "add"]
        BY <2>5 DEF StreamEnter, Made, Goto
      <3>2. c \notin ctlList
        BY <3>1 DEF HandlerInv, HandlerOK
      <3>3. Fresh(Made)
        BY DEF Fresh, Made, NoClient
      <3>4. CountOK(c)'
        BY <3>1, <3>2, <3>3 DEF CountOK, Types
      <3>5. ASSUME NEW d \in Conn \ {c} PROVE CountOK(d)'
        BY <3>1 DEF CountOK, LastFed, Types
      <3> QED
        BY <3>4, <3>5
    <2>6. CASE StreamAdd(c)
      <3> DEFINE r == Added(sc[c], consumer.ev)
      <3>1. /\ sc' = [sc EXCEPT ![c] = r] /\ UNCHANGED consumer
            /\ h[c].pc = "add" /\ h' = [h EXCEPT ![c].pc = "stream"]
            /\ ctlList' = ctlList \cup {c} /\ consumer.pc # "feed"
        BY <2>6 DEF StreamAdd, Added, Goto
      <3>2. Fresh(sc[c]) /\ LastFed(c) = consumer.ev
        BY <3>1 DEF CountOK, FeedInv, LastFed
      <3>3. /\ r.count = 0 /\ r.dropped = 0 /\ r.queue = <<>>
            /\ r.writer \notin {"send", "blocked"} /\ r.since = consumer.ev
        BY <1>2, <3>2 DEF Added, Fresh, ClientType
      <3>4. Counted(r, consumer.ev)
        <4>1. Given(r) = 0
          BY <3>3 DEF Given
        <4> QED
          BY <1>2, <3>3, <4>1 DEF Counted
      <3> HIDE DEF r
      <3>5. sc'[c] = r /\ LastFed(c)' = consumer.ev /\ h'[c].pc = "stream"
        BY <3>1, <3>2 DEF Types, HandlerType, LastFed
      <3>6. CountOK(c)'
        BY <3>4, <3>5 DEF CountOK
      <3>7. ASSUME NEW d \in Conn \ {c} PROVE CountOK(d)'
        BY <3>1 DEF CountOK, LastFed, Types
      <3> QED
        BY <3>6, <3>7
    <2>7. CASE StreamShutdown(c) \/ StreamDestroy(c)
      <3>1. /\ h[c].pc \in {"shutdown", "destroy"}
            /\ h'[c].pc # "add" /\ \A d \in Conn \ {c} : h'[d] = h[d] /\ sc'[d] = sc[d]
            /\ UNCHANGED <<consumer, ctlList>>
        BY <2>7 DEF StreamShutdown, StreamDestroy, Goto, Types, HandlerType
      <3>2. c \notin ctlList
        BY <3>1 DEF HandlerInv, HandlerOK
      <3>3. CountOK(c)'
        BY <3>1, <3>2 DEF CountOK
      <3>4. ASSUME NEW d \in Conn \ {c} PROVE CountOK(d)'
        BY <3>1 DEF CountOK, LastFed
      <3> QED
        BY <3>3, <3>4
    <2>8. CASE WriterStep(c)
      <3>1. WriterChange(c) /\ UNCHANGED <<h, ctlList, consumer>>
        BY <2>8, WriterEffect
      <3> QED
        BY <1>3, <3>1, WriterCounts
    <2> QED
      BY <1>9, <2>1, <2>2, <2>3, <2>4, <2>5, <2>6, <2>7, <2>8 DEF ConnStep
  <1> QED
    BY <1>4, <1>5, <1>6, <1>7, <1>8, <1>9, NextCases

-----------------------------------------------------------------------------
(* The theorems.                                                           *)

\* The invariant holds throughout.
LEMMA Invariance == Spec => []IInv
  <1>1. ASSUME IInv, Next PROVE IInv'
    BY <1>1, TypesStep, HandlerInvStep, FeedInvStep, QueueInvStep, FdInvStep
       DEF IInv
  <1>2. ASSUME IInv, UNCHANGED vars PROVE IInv'
    BY <1>2
       DEF IInv, Types, ProcessTypes, HandlerInv, HandlerOK, FeedInv, QueueInv,
           LastFed, FdInv, FdOK, vars
  <1> QED
    BY <1>1, <1>2, InitInv, PTL DEF Spec

\* What the daemon keeps is well formed; in particular no socket holds more than
\* it can, no queue exceeds its places, no client drops more events than there
\* were, and the consumer only feeds clients of the controller's list.
THEOREM TypeCorrect == Spec => []TypeOK
  <1>1. ASSUME IInv PROVE TypeOK
    <2> USE <1>1 DEF IInv, Types
    <2>1. \A c \in Conn : peer[c] \in PeerType /\ sc[c] \in ClientType
      OBVIOUS
    <2>2. \A c \in Conn : /\ peer[c].st \in {"away", "pending", "open", "hung"}
                          /\ peer[c].inbox \in 0..SockCap
      BY <2>1 DEF PeerType
    <2>3. \A c \in Conn :
             /\ sc[c].made \in {"no", "live", "dead"}
             /\ sc[c].writer \in {"none", "top", "pop", "send", "blocked", "ended"}
             /\ sc[c].on \in Conn \cup {NoConn}
             /\ sc[c].dropped \in Nat
      BY <2>1 DEF ClientType
    <2>4. ASSUME NEW c \in Conn
          PROVE  Len(sc[c].queue) <= QCap /\ sc[c].dropped \in 0..MaxEvents
      <3>1. sc[c].dropped <= LastFed(c) /\ Len(sc[c].queue) <= QCap
        BY DEF QueueInv, Ordered
      <3>2. LastFed(c) \in Nat /\ LastFed(c) <= MaxEvents
        BY LastFedTyped, DaemonAssumption DEF LastFed, ConsumerType
      <3> QED
        BY <2>3, <3>1, <3>2, DaemonAssumption
    <2> QED
      BY <2>2, <2>3, <2>4
         DEF TypeOK, ProcessTypes, FeedInv, HandlerType, HandlerPc, Holding
  <1> QED
    BY <1>1, Invariance, PTL

\* Daemon::stop() and the consumer may take a client off their list at any time
\* and never drop its last reference: its handler still holds it, so neither of
\* them waits for a writer thread.
THEOREM ReferenceHeld == Spec => []ListsNeverOwn
  <1>1. IInv => ListsNeverOwn
    BY DEF IInv, Types, HandlerInv, HandlerOK, ListsNeverOwn, Streaming
  <1> QED
    BY <1>1, Invariance, PTL

\* The accounts of every client always balance.
LEMMA CountInvariance == Spec => []CountInv
  <1>1. Init => CountInv
    BY DEF Init, CountInv, CountOK
  <1>2. ASSUME IInv, CountInv, Next PROVE CountInv'
    BY <1>2, CountStep
  <1>3. ASSUME CountInv, UNCHANGED vars PROVE CountInv'
    BY <1>3 DEF CountInv, CountOK, LastFed, vars
  <1> QED
    BY <1>1, <1>2, <1>3, Invariance, PTL DEF Spec

\* A stream sends the events in order and none of them twice, wherever its writer
\* blocked or failed; and as long as it is open, of the events since it was
\* added exactly those are missing that its queue, once full, dropped and
\* counted.
THEOREM StreamInOrder == Spec => []StreamOrdered
  <1>1. ASSUME IInv, NEW c \in Conn
        PROVE  LET q == Unsent(c)
               IN  /\ q # <<>> => sc[c].sent < q[1]
                   /\ \A i \in 1..(Len(q) - 1) : q[i] < q[i + 1]
    <2> DEFINE s == sc[c].queue
               q == <<sc[c].line>> \o s
    <2>1. s \in Seq(Nat) /\ sc[c].line \in Nat /\ sc[c].sent \in Nat /\ Len(s) \in Nat
      BY <1>1, LenProperties DEF IInv, Types, ClientType
    <2>2. \E n : Ordered(sc[c], n)
      BY <1>1 DEF IInv, QueueInv
    <2>3. /\ \A i \in 1..Len(s) :
                /\ sc[c].sent < s[i]
                /\ \A j \in 1..Len(s) : i < j => s[i] < s[j]
          /\ sc[c].writer \in {"send", "blocked"} =>
                /\ sc[c].sent < sc[c].line
                /\ \A i \in 1..Len(s) : sc[c].line < s[i]
      BY <2>2 DEF Ordered
    <2>4. CASE sc[c].writer \notin {"send", "blocked"}
      <3>1. s # <<>> => 1 \in 1..Len(s)
        BY <2>1, EmptySeq
      <3>2. \A i \in 1..(Len(s) - 1) : i \in 1..Len(s) /\ i + 1 \in 1..Len(s) /\ i < i + 1
        BY <2>1
      <3> QED
        BY <2>3, <2>4, <3>1, <3>2 DEF Unsent
    <2>5. CASE sc[c].writer \in {"send", "blocked"}
      <3>1. /\ Len(q) = Len(s) + 1 /\ q[1] = sc[c].line
            /\ \A i \in 1..Len(s) : q[i + 1] = s[i]
        BY <2>1
      <3> HIDE DEF q, s
      <3>2. ASSUME NEW i \in 1..(Len(q) - 1) PROVE q[i] < q[i + 1]
        <4>1. CASE i = 1
          BY <2>1, <2>3, <2>5, <3>1, <4>1
        <4>2. CASE i # 1
          <5>1. i - 1 \in 1..Len(s) /\ i \in 1..Len(s) /\ i - 1 < i
            BY <2>1, <3>1, <4>2
          <5>2. s[i - 1] < s[i]
            BY <2>3, <5>1
          <5>3. q[(i - 1) + 1] = s[i - 1] /\ q[i + 1] = s[i] /\ (i - 1) + 1 = i
            BY <3>1, <5>1
          <5> QED
            BY <5>2, <5>3
        <4> QED
          BY <4>1, <4>2
      <3> QED
        BY <2>3, <2>5, <3>1, <3>2 DEF q, s, Unsent
    <2> QED
      BY <2>4, <2>5
  <1>2. ASSUME IInv, CountInv, NEW c \in Conn
        PROVE  sc[c].count + Len(Unsent(c)) = Given(sc[c])
    <2>1. /\ sc[c].queue \in Seq(Nat) /\ sc[c].count \in Nat
          /\ Len(sc[c].queue) \in Nat /\ sc[c].line \in Nat
      BY <1>2, LenProperties DEF IInv, Types, ClientType
    <2>2. Len(<<sc[c].line>> \o sc[c].queue) = 1 + Len(sc[c].queue)
      BY <2>1
    <2>3. CASE sc[c].writer \in {"send", "blocked"}
      <3>1. Len(Unsent(c)) = 1 + Len(sc[c].queue)
        BY <2>2, <2>3 DEF Unsent
      <3>2. Given(sc[c]) = sc[c].count + 1 + Len(sc[c].queue)
        BY <2>3 DEF Given
      <3>3. sc[c].count \in Nat /\ Len(sc[c].queue) \in Nat
        BY <2>1
      <3> QED
        BY <3>1, <3>2, <3>3
    <2>4. CASE sc[c].writer \notin {"send", "blocked"}
      <3>1. Unsent(c) = sc[c].queue
        BY <2>4 DEF Unsent
      <3>2. Given(sc[c]) = sc[c].count + 0 + Len(sc[c].queue)
        BY <2>4 DEF Given
      <3> QED
        BY <2>1, <3>1, <3>2
    <2> QED
      BY <2>3, <2>4
  <1>3. ASSUME IInv, CountInv PROVE StreamOrdered
    <2>1. \A c \in Conn : c \in ctlList /\ ~sc[c].closed =>
             /\ Given(sc[c]) + sc[c].dropped = LastFed(c) - sc[c].since
             /\ sc[c].dropped > 0 => Given(sc[c]) >= QCap
      BY <1>3 DEF CountInv, CountOK, Counted
    <2> QED
      BY <1>1, <1>2, <1>3, <2>1 DEF StreamOrdered
  <1> QED
    BY <1>3, Invariance, CountInvariance, PTL

\* While a handler reads or answers requests, or waits for its stream to end, the
\* descriptor it uses is open and its own, unless ~SocketStreamClient closed the
\* same number a second time.
THEOREM FdsOwned == Spec => []DescriptorOwned
  <1>1. IInv => DescriptorOwned
    BY DEF IInv, FdInv, FdOK, DescriptorOwned, Holding
  <1> QED
    BY <1>1, Invariance, PTL
=============================================================================

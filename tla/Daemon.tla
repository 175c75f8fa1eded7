------------------------------- MODULE Daemon -------------------------------
(***************************************************************************)
(* The control plane: Daemon::run with its server thread, one detached     *)
(* handler thread per connection, the stream clients with their writer     *)
(* threads, the consumer thread that feeds them, and the two ways to stop  *)
(* (the "stop" command and a signal caught by guardctl serve).             *)
(*                                                                         *)
(* Sockets are reached through descriptor numbers, and a closed number is  *)
(* given to the next connection.  A socket is the number of JSON objects   *)
(* its peer has not read.                                                  *)
(***************************************************************************)
EXTENDS Naturals, Sequences, FiniteSets, FiniteSetsExt

CONSTANTS
    Conn,       \* connections that guardctl processes make
    NoConn,     \* a descriptor that is closed
    Fd,         \* descriptor numbers
    Requests,   \* what each of them may ask: "query", "stream", "stop"
    QCap,       \* places in a stream client's queue
    SockCap,    \* objects a socket holds before send(2) blocks
    MaxEvents   \* bound: events of the consumer thread

ASSUME DaemonAssumption ==
    /\ NoConn \notin Conn
    /\ Fd \subseteq Nat /\ IsFiniteSet(Fd)
    /\ Requests \in [Conn -> SUBSET {"query", "stream", "stop"}]
    /\ QCap \in Nat \ {0} /\ SockCap \in Nat \ {0}
    /\ MaxEvents \in Nat

VARIABLES
    running,      \* running_
    main,         \* run() and what follows it in run_serve
    server,       \* server_thread_
    serverStop,   \* its stop token
    sig,          \* the thread of run_serve that waits for a signal
    fdt,          \* the process's descriptors
    h,            \* per connection: its handler thread
    peer,         \* per connection: the guardctl at the other end
    sc,           \* per connection: its SocketStreamClient
    streamList,   \* Daemon::stream_clients_
    ctlList,      \* Controller::clients_
    consumer      \* consumer thread: clients still to feed, event number

vars == <<running, main, server, serverStop, sig, fdt, h, peer, sc, streamList,
          ctlList, consumer>>
process == <<running, main, server, serverStop, sig>>
sockets == <<fdt, peer>>
streams == <<sc, streamList, ctlList, consumer>>

\* A client; since, the events fanned out before it was added, and count, the
\* lines it has sent, are ghosts.
NoClient == [made |-> "no", closed |-> FALSE, stop |-> FALSE, queue |-> <<>>,
             writer |-> "none", on |-> NoConn, line |-> 0, dropped |-> 0,
             sent |-> 0, since |-> 0, count |-> 0]

Init ==
    /\ running = FALSE /\ main = "starting"
    /\ server = "none" /\ serverStop = FALSE
    /\ sig = "none"
    /\ fdt = [f \in Fd |-> NoConn]
    /\ h = [c \in Conn |-> [pc |-> "none", fd |-> 0, req |-> "query"]]
    /\ peer = [c \in Conn |-> [st |-> "away", req |-> "query", asked |-> FALSE,
                               inbox |-> 0]]
    /\ sc = [c \in Conn |-> NoClient]
    /\ streamList = {} /\ ctlList = {}
    /\ consumer = [pc |-> "idle", todo |-> {}, ev |-> 0]

-----------------------------------------------------------------------------
(* The other end of a connection.                                          *)

PeerConnect(c) ==
    /\ peer[c].st = "away"
    /\ server = "up"
    /\ \E r \in Requests[c] :
          peer' = [peer EXCEPT ![c].st = "pending", ![c].req = r, ![c].asked = TRUE]
    /\ UNCHANGED <<process, fdt, h, streams>>

PeerRead(c) ==
    /\ peer[c].st = "open"
    /\ peer[c].inbox > 0
    /\ peer' = [peer EXCEPT ![c].inbox = @ - 1]
    /\ UNCHANGED <<process, fdt, h, streams>>

PeerHangup(c) ==
    /\ peer[c].st = "open"
    /\ peer' = [peer EXCEPT ![c].st = "hung", ![c].inbox = 0]
    /\ UNCHANGED <<process, fdt, h, streams>>

\* send(2) on the open socket of k, or on NoConn: an error when nothing is open
\* there or the peer is gone, and a wait while the socket is full.
Gone(k) == k \in {NoConn} \cup {c \in Conn : peer[c].st = "hung"}

HasRoom(k) == ~Gone(k) /\ peer[k].inbox < SockCap

Sent(k) == peer' = [peer EXCEPT ![k].inbox = @ + 1]

-----------------------------------------------------------------------------
(* Daemon::run, the server thread, and the end of the process.             *)

\* bind, listen and Controller::start, then the server thread; or one of them
\* fails and run() returns.
RunServe ==
    /\ main = "starting"
    /\ \/ running' = TRUE /\ main' = "serving" /\ server' = "up"
       \/ main' = "returned" /\ UNCHANGED <<running, server>>
    /\ UNCHANGED <<serverStop, sig, sockets, h, streams>>

\* accept(2) takes the lowest free number; the handler thread is detached.
Accept(c) ==
    /\ server = "up" /\ ~serverStop
    /\ peer[c].st = "pending"
    /\ LET free == {f \in Fd : fdt[f] = NoConn} IN
          /\ free # {}
          /\ fdt' = [fdt EXCEPT ![Min(free)] = c]
          /\ h' = [h EXCEPT ![c] = [pc |-> "loop", fd |-> Min(free), req |-> "query"]]
    /\ peer' = [peer EXCEPT ![c].st = "open"]
    /\ UNCHANGED <<process, streams>>

\* A poll(2) error other than EINTR ends the server thread, which closes and
\* unlinks the socket, while running_ stays set.
ServerFail ==
    /\ server = "up"
    /\ server' = "ended"
    /\ UNCHANGED <<running, main, serverStop, sig, sockets, h, streams>>

ServerEnd ==
    /\ server = "up" /\ serverStop
    /\ server' = "ended"
    /\ UNCHANGED <<running, main, serverStop, sig, sockets, h, streams>>

\* Mutant: the server thread is joined but never asked to stop.
MainStop_NoRequest ==
    /\ main = "serving"
    /\ ~running
    /\ main' = "join"
    /\ UNCHANGED <<running, server, serverStop, sig, sockets, h, streams>>

MainStop ==
    /\ main = "serving"
    /\ ~running
    /\ serverStop' = TRUE
    /\ main' = "join"
    /\ UNCHANGED <<running, server, sig, sockets, h, streams>>

MainJoin ==
    /\ main = "join"
    /\ server = "ended"
    /\ main' = "controller"
    /\ UNCHANGED <<running, server, serverStop, sig, sockets, h, streams>>

\* Controller::request_stop joins the consumer thread; run() returns.
MainController ==
    /\ main = "controller"
    /\ consumer.pc = "idle"
    /\ consumer' = [consumer EXCEPT !.pc = "ended"]
    /\ main' = "returned"
    /\ UNCHANGED <<running, server, serverStop, sig, sockets, h, sc, streamList,
                   ctlList>>

\* run_serve leaves: the Daemon is destroyed, then the process ends.
MainDestroy ==
    /\ main = "returned"
    /\ sig \in {"none", "join"}
    /\ main' = "destroyed"
    /\ UNCHANGED <<running, server, serverStop, sig, sockets, h, streams>>

MainExit ==
    /\ main = "destroyed"
    /\ main' = "exited"
    /\ UNCHANGED <<running, server, serverStop, sig, sockets, h, streams>>

MainStep ==
    \/ RunServe
    \/ MainStop
    \/ MainJoin
    \/ MainController
    \/ MainDestroy
    \/ MainExit

-----------------------------------------------------------------------------
(* A signal, and Daemon::stop.                                             *)

Shutdown(client) == [client EXCEPT !.closed = TRUE, !.stop = TRUE]

Signal ==
    /\ sig = "none"
    /\ main \notin {"returned", "destroyed", "exited"}
    /\ sig' = "seen"
    /\ UNCHANGED <<running, main, server, serverStop, sockets, h, streams>>

\* running_.exchange(false): a daemon that is not running is left alone.
StopExchange ==
    /\ sig = "seen"
    /\ sig' = IF running THEN "clients" ELSE "join"
    /\ running' = FALSE
    /\ UNCHANGED <<main, server, serverStop, sockets, h, streams>>

\* Mutant: stop() also closes the sockets of the streams.
StopClients_Closes ==
    /\ sig = "clients"
    /\ sc' = [c \in Conn |-> IF c \in streamList THEN Shutdown(sc[c]) ELSE sc[c]]
    /\ fdt' = [f \in Fd |-> IF fdt[f] \in streamList THEN NoConn ELSE fdt[f]]
    /\ streamList' = {}
    /\ sig' = "join"
    /\ UNCHANGED <<running, main, server, serverStop, peer, h, ctlList, consumer>>

StopClients ==
    /\ sig = "clients"
    /\ sc' = [c \in Conn |-> IF c \in streamList THEN Shutdown(sc[c]) ELSE sc[c]]
    /\ streamList' = {}
    /\ sig' = "join"
    /\ UNCHANGED <<running, main, server, serverStop, sockets, h, ctlList, consumer>>

StopStep == StopExchange \/ StopClients

-----------------------------------------------------------------------------
(* A handler thread: handle_client, handle_line, handle_request.           *)

Goto(c, pc) == h' = [h EXCEPT ![c].pc = pc]

HandleLoop(c) ==
    /\ h[c].pc = "loop"
    /\ Goto(c, IF running THEN "poll" ELSE "close")
    /\ UNCHANGED <<process, sockets, streams>>

\* poll(2) with its timeout, then recv(2), on whatever the number now means.
HandlePoll(c) ==
    /\ h[c].pc = "poll"
    /\ LET p == fdt[h[c].fd] IN
          IF p # NoConn /\ peer[p].asked
          THEN /\ h' = [h EXCEPT ![c].pc = "request", ![c].req = peer[p].req]
               /\ peer' = [peer EXCEPT ![p].asked = FALSE]
          ELSE /\ Goto(c, IF Gone(p) THEN "close" ELSE "loop")
               /\ UNCHANGED peer
    /\ UNCHANGED <<process, fdt, streams>>

\* handle_request: "stop" clears running_ before it calls stop(), which then
\* finds the daemon not running and returns.
HandleRequest(c) ==
    /\ h[c].pc = "request"
    /\ running' = (running /\ h[c].req # "stop")
    /\ Goto(c, "reply")
    /\ UNCHANGED <<main, server, serverStop, sig, sockets, streams>>

HandleReply(c) ==
    /\ h[c].pc = "reply"
    /\ LET k == fdt[h[c].fd] IN
          \/ HasRoom(k) /\ Sent(k)
          \/ Gone(k) /\ UNCHANGED peer
    /\ Goto(c, IF h[c].req = "stream" THEN "enter" ELSE "loop")
    /\ UNCHANGED <<process, fdt, streams>>

\* close(2) of a number, whoever it belongs to by now.
CloseFd(f) == fdt' = [fdt EXCEPT ![f] = NoConn]

HandleClose(c) ==
    /\ h[c].pc = "close"
    /\ CloseFd(h[c].fd)
    /\ Goto(c, "ended")
    /\ UNCHANGED <<process, peer, streams>>

-----------------------------------------------------------------------------
(* enter_stream_mode, in the same handler thread.                          *)

\* The client with its writer thread, then the daemon's list.
StreamEnter(c) ==
    /\ h[c].pc = "enter"
    /\ sc' = [sc EXCEPT ![c] = [NoClient EXCEPT !.made = "live", !.writer = "top"]]
    /\ streamList' = streamList \cup {c}
    /\ Goto(c, "add")
    /\ UNCHANGED <<process, sockets, ctlList, consumer>>

\* add_event_stream_client, under clients_mu_.
StreamAdd(c) ==
    /\ h[c].pc = "add"
    /\ consumer.pc # "feed"
    /\ ctlList' = ctlList \cup {c}
    /\ sc' = [sc EXCEPT ![c].since = consumer.ev]
    /\ Goto(c, "stream")
    /\ UNCHANGED <<process, sockets, streamList, consumer>>

\* The loop that waits for the peer to go or for the daemon to stop; the peer
\* of a stream has nothing more to say.
StreamWait(c) ==
    /\ h[c].pc = "stream"
    /\ ~running \/ Gone(fdt[h[c].fd])
    /\ Goto(c, "remove")
    /\ UNCHANGED <<process, sockets, streams>>

\* Mutant: the list is changed without clients_mu_.
StreamRemove_NoLock(c) ==
    /\ h[c].pc = "remove"
    /\ ctlList' = ctlList \ {c}
    /\ Goto(c, "shutdown")
    /\ UNCHANGED <<process, sockets, sc, streamList, consumer>>

\* Mutant: the controller keeps the client on its list.
StreamRemove_Forgotten(c) ==
    /\ h[c].pc = "remove"
    /\ Goto(c, "shutdown")
    /\ UNCHANGED <<process, sockets, streams>>

\* remove_event_stream_client, under clients_mu_.
StreamRemove(c) ==
    /\ h[c].pc = "remove"
    /\ consumer.pc # "feed"
    /\ ctlList' = ctlList \ {c}
    /\ Goto(c, "shutdown")
    /\ UNCHANGED <<process, sockets, sc, streamList, consumer>>

\* Mutant: shutdown() sets closed_ and leaves the queue open.
StreamShutdown_FlagOnly(c) ==
    /\ h[c].pc = "shutdown"
    /\ sc' = [sc EXCEPT ![c].closed = TRUE]
    /\ streamList' = streamList \ {c}
    /\ Goto(c, "close1")
    /\ UNCHANGED <<process, sockets, ctlList, consumer>>

\* client->shutdown(), and out of the daemon's list.
StreamShutdown(c) ==
    /\ h[c].pc = "shutdown"
    /\ sc' = [sc EXCEPT ![c] = Shutdown(@)]
    /\ streamList' = streamList \ {c}
    /\ Goto(c, "close1")
    /\ UNCHANGED <<process, sockets, ctlList, consumer>>

\* The handler closes the socket the client's writer still holds...
StreamClose(c) ==
    /\ h[c].pc = "close1"
    /\ CloseFd(h[c].fd)
    /\ Goto(c, "destroy")
    /\ UNCHANGED <<process, peer, streams>>

\* ... and the last reference goes: ~SocketStreamClient joins the writer and
\* closes the same number again.
StreamDestroy(c) ==
    /\ h[c].pc = "destroy"
    /\ sc[c].writer = "ended"
    /\ CloseFd(h[c].fd)
    /\ sc' = [sc EXCEPT ![c] = [NoClient EXCEPT !.made = "dead", !.writer = "ended"]]
    /\ Goto(c, "ended")
    /\ UNCHANGED <<process, peer, streamList, ctlList, consumer>>

\* A handler that outlives the Daemon works on freed memory: not followed.
HandlerStep(c) ==
    /\ main \notin {"destroyed", "exited"}
    /\ \/ HandleLoop(c)
       \/ HandlePoll(c)
       \/ HandleRequest(c)
       \/ HandleReply(c)
       \/ HandleClose(c)
       \/ StreamEnter(c)
       \/ StreamAdd(c)
       \/ StreamWait(c)
       \/ StreamRemove(c)
       \/ StreamShutdown(c)
       \/ StreamClose(c)
       \/ StreamDestroy(c)

-----------------------------------------------------------------------------
(* SocketStreamClient::writer_loop.                                        *)

WriterEnd(c) == sc' = [sc EXCEPT ![c].writer = "ended", ![c].closed = TRUE]

WriterTop(c) ==
    /\ sc[c].writer = "top"
    /\ IF sc[c].closed THEN WriterEnd(c)
                       ELSE sc' = [sc EXCEPT ![c].writer = "pop"]
    /\ UNCHANGED <<process, sockets, h, streamList, ctlList, consumer>>

WriterPop(c) ==
    /\ sc[c].writer = "pop"
    /\ \/ /\ sc[c].queue # <<>>
          /\ sc' = [sc EXCEPT ![c].writer = "send", ![c].queue = Tail(@),
                              ![c].line = Head(sc[c].queue)]
       \/ sc[c].queue = <<>> /\ sc[c].stop /\ WriterEnd(c)
    /\ UNCHANGED <<process, sockets, h, streamList, ctlList, consumer>>

\* write_all, once the kernel has looked the descriptor up: k is the socket.
SendOn(c, k) ==
    \/ /\ HasRoom(k) /\ Sent(k)
       /\ sc' = [sc EXCEPT ![c].writer = "top", ![c].sent = sc[c].line,
                           ![c].count = @ + 1]
    \/ Gone(k) /\ WriterEnd(c) /\ UNCHANGED peer

WriterSend(c) ==
    /\ sc[c].writer = "send"
    /\ LET k == fdt[h[c].fd] IN
          \/ SendOn(c, k)
          \/ /\ ~HasRoom(k) /\ ~Gone(k)
             /\ sc' = [sc EXCEPT ![c].writer = "blocked", ![c].on = k]
             /\ UNCHANGED peer
    /\ UNCHANGED <<process, fdt, h, streamList, ctlList, consumer>>

\* A send(2) asleep on a full socket; closing the number does not wake it.
WriterBlocked(c) ==
    /\ sc[c].writer = "blocked"
    /\ SendOn(c, sc[c].on)
    /\ UNCHANGED <<process, fdt, h, streamList, ctlList, consumer>>

WriterStep(c) ==
    /\ main # "exited"
    /\ WriterTop(c) \/ WriterPop(c) \/ WriterSend(c) \/ WriterBlocked(c)

-----------------------------------------------------------------------------
(* The consumer thread's fan-out of an event, under clients_mu_.           *)

FeedBegin ==
    /\ main \in {"serving", "join", "controller"}
    /\ consumer.pc = "idle"
    /\ consumer.ev < MaxEvents
    /\ consumer' = [pc |-> "feed", todo |-> ctlList, ev |-> consumer.ev + 1]
    /\ UNCHANGED <<process, sockets, h, sc, streamList, ctlList>>

\* Mutant: push() waits for room in the client's queue.
FeedClient_Blocking ==
    /\ consumer.pc = "feed"
    /\ \E c \in consumer.todo :
          /\ \/ sc[c].closed /\ ctlList' = ctlList \ {c} /\ UNCHANGED sc
             \/ /\ ~sc[c].closed /\ Len(sc[c].queue) < QCap
                /\ sc' = [sc EXCEPT ![c].queue = Append(@, consumer.ev)]
                /\ UNCHANGED ctlList
          /\ consumer' = [consumer EXCEPT !.todo = @ \ {c}]
    /\ UNCHANGED <<process, sockets, h, streamList>>

\* Mutant: the queue counts as full with one place left.
FeedClient_OneLess ==
    /\ consumer.pc = "feed"
    /\ \E c \in consumer.todo :
          /\ \/ sc[c].closed /\ ctlList' = ctlList \ {c} /\ UNCHANGED sc
             \/ /\ ~sc[c].closed
                /\ sc' = IF Len(sc[c].queue) + 1 < QCap
                         THEN [sc EXCEPT ![c].queue = Append(@, consumer.ev)]
                         ELSE [sc EXCEPT ![c].dropped = @ + 1]
                /\ UNCHANGED ctlList
          /\ consumer' = [consumer EXCEPT !.todo = @ \ {c}]
    /\ UNCHANGED <<process, sockets, h, streamList>>

\* A closed client is taken off the list; push() drops for a slow one.
FeedClient ==
    /\ consumer.pc = "feed"
    /\ \E c \in consumer.todo :
          /\ \/ sc[c].closed /\ ctlList' = ctlList \ {c} /\ UNCHANGED sc
             \/ /\ ~sc[c].closed
                /\ sc' = IF Len(sc[c].queue) < QCap
                         THEN [sc EXCEPT ![c].queue = Append(@, consumer.ev)]
                         ELSE [sc EXCEPT ![c].dropped = @ + 1]
                /\ UNCHANGED ctlList
          /\ consumer' = [consumer EXCEPT !.todo = @ \ {c}]
    /\ UNCHANGED <<process, sockets, h, streamList>>

FeedEnd ==
    /\ consumer.pc = "feed"
    /\ consumer.todo = {}
    /\ consumer' = [consumer EXCEPT !.pc = "idle"]
    /\ UNCHANGED <<process, sockets, h, sc, streamList, ctlList>>

FeedStep == FeedClient \/ FeedEnd

-----------------------------------------------------------------------------
Next ==
    \/ MainStep
    \/ ServerFail
    \/ ServerEnd
    \/ Signal
    \/ StopStep
    \/ FeedBegin
    \/ FeedStep
    \/ \E c \in Conn :
          \/ PeerConnect(c)
          \/ PeerRead(c)
          \/ PeerHangup(c)
          \/ Accept(c)
          \/ HandlerStep(c)
          \/ WriterStep(c)

Spec == Init /\ [][Next]_vars

\* The threads of the daemon run; nothing is assumed of the peers.
FairDaemon ==
    /\ Spec
    /\ WF_vars(MainStep) /\ WF_vars(ServerEnd) /\ WF_vars(StopStep)
    /\ WF_vars(FeedStep)
    /\ \A c \in Conn : WF_vars(HandlerStep(c)) /\ WF_vars(WriterStep(c))

-----------------------------------------------------------------------------
TypeOK ==
    /\ running \in BOOLEAN /\ serverStop \in BOOLEAN
    /\ main \in {"starting", "serving", "join", "controller", "returned",
                 "destroyed", "exited"}
    /\ server \in {"none", "up", "ended"}
    /\ sig \in {"none", "seen", "clients", "join"}
    /\ fdt \in [Fd -> Conn \cup {NoConn}]
    /\ h \in [Conn -> [pc : {"none", "loop", "poll", "request", "reply", "close",
                             "enter", "add", "stream", "remove", "shutdown",
                             "close1", "destroy", "ended"},
                       fd : Nat, req : {"query", "stream", "stop"}]]
    /\ \A c \in Conn :
          /\ peer[c].st \in {"away", "pending", "open", "hung"}
          /\ peer[c].inbox \in 0..SockCap
          /\ sc[c].made \in {"no", "live", "dead"}
          /\ sc[c].writer \in {"none", "top", "pop", "send", "blocked", "ended"}
          /\ sc[c].on \in Conn \cup {NoConn}
          /\ Len(sc[c].queue) <= QCap
          /\ sc[c].dropped \in 0..MaxEvents
    /\ streamList \subseteq Conn /\ ctlList \subseteq Conn
    /\ consumer.todo \subseteq ctlList

\* Whoever takes a client off a list never drops its last reference: the
\* handler still has one, so neither the consumer nor stop() joins a writer.
ListsNeverOwn ==
    \A c \in streamList \cup ctlList :
        /\ sc[c].made = "live"
        /\ h[c].pc \in {"add", "stream", "remove", "shutdown"}

\* The lines a client has still to send: the one in its writer's hand, then
\* its queue.
Unsent(c) ==
    IF sc[c].writer \in {"send", "blocked"}
    THEN <<sc[c].line>> \o sc[c].queue ELSE sc[c].queue

\* The event that the fan-out last brought to a client on the list.
LastFed(c) == IF c \in consumer.todo THEN consumer.ev - 1 ELSE consumer.ev

\* A stream sends every event at most once and in order.  As long as the
\* client is open and listed, each event since it was added is sent, waits in
\* its turn or was dropped and counted, and nothing is dropped before the
\* client was given as many lines as its queue holds.
StreamOrdered ==
    \A c \in Conn :
        LET q == Unsent(c)
            given == sc[c].count + Len(q)
        IN
        /\ q # <<>> => sc[c].sent < q[1]
        /\ \A i \in 1..(Len(q) - 1) : q[i] < q[i + 1]
        /\ c \in ctlList /\ ~sc[c].closed =>
              /\ given + sc[c].dropped = LastFed(c) - sc[c].since
              /\ sc[c].dropped > 0 => given >= QCap

\* "a slow client only ever stalls its own writer thread"
\* (include/fileguard/daemon.hpp:59): the fan-out of an event ends although
\* nobody reads.
FeedEnds == consumer.pc = "feed" ~> consumer.pc # "feed"

\* Once running_ is false, or a signal was caught with the server up, the
\* daemon comes down, whatever the peers do.
StopCompletes ==
    (main = "serving" /\ (~running \/ sig = "seen")) ~> main = "exited"

\* The writer sleeps in send(2) on a socket whose peer is connected and has not
\* made room.
Stuck(c) == sc[c].writer = "blocked" /\ ~Gone(sc[c].on) /\ ~HasRoom(sc[c].on)

\* The handler of a stream has a reason to leave it, or has begun to.
Leaving(c) ==
    \/ h[c].pc = "stream" /\ (~running \/ peer[c].st = "hung")
    \/ h[c].pc = "shutdown"

\* A stream whose peer left, or whose daemon was told to stop by a command of
\* another connection or by a signal, is released: the writer leaves pop() or
\* send(), and the handler that waits for it ends.  The exception is a writer
\* that from some moment on sleeps in send(2) for ever, because its peer stays
\* connected and never again makes room.
StreamReleased ==
    \A c \in {d \in Conn : "stream" \in Requests[d]} :
        Leaving(c) ~> \/ h[c].pc = "ended"
                      \/ main = "exited"
                      \/ []Stuck(c)

\* "socket fds are closed by owner objects" (docs/07-cpp-design.md:40): while a
\* handler is at work its descriptor is open and its own, in spite of stop(),
\* of writers that fail and of numbers that are used again.  The one exception
\* is what ~SocketStreamClient does: it closes the number a second time.
DescriptorOwned ==
    \A c \in Conn :
        h[c].pc \in {"loop", "poll", "request", "reply", "stream"} =>
            \/ fdt[h[c].fd] = c
            \/ \E d \in Conn \ {c} : sc[d].made = "dead" /\ h[d].fd = h[c].fd
=============================================================================

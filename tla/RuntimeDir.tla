---------------------------- MODULE RuntimeDir -----------------------------
(***************************************************************************)
(* The guardctl processes of a host and the two files they share in the    *)
(* runtime directory: the socket of the controller and its pid file.       *)
(* run_serve and Daemon::run create and remove them; run_policy_load,      *)
(* run_policy_list, run_status and run_stop find the controller through    *)
(* the socket file.  There is no other lock between controllers.           *)
(*                                                                         *)
(* A process id stands for one invocation of guardctl.  After the fork of  *)
(* serve --daemon the id is the child's; the parent only returns.  A       *)
(* process may be killed at any point: its descriptors close and its LSM   *)
(* program is detached by the kernel, its files stay.                      *)
(***************************************************************************)
EXTENDS Naturals, FiniteSets

CONSTANTS
    Proc,       \* invocations of guardctl, in the order of their start
    Nobody,     \* no process: a file that does not exist
    Cmds,       \* what may be invoked: "serve", "load", "query", "stop"
    MaxFaults   \* bound: processes killed and server threads lost

ASSUME RuntimeDirAssumption ==
    /\ Proc \subseteq Nat /\ Nobody \notin Proc
    /\ Cmds \subseteq {"serve", "load", "query", "stop"}
    /\ MaxFaults \in Nat

VARIABLES
    pc,         \* per process: what it does next
    cmd,        \* per process: the subcommand
    why,        \* per process: why its controller comes down
    running,    \* per process: Daemon::running_
    conn,       \* per process: its connection to a controller
    sock,       \* fileguard.sock: who bound it
    pidFile,    \* fileguard.pid: whose pid it holds
    faults,     \* processes killed and server threads lost so far
    overlap     \* ghost: a serve passed its test while another was starting
                \* or stopping, or had no server thread left

vars == <<pc, cmd, why, running, conn, sock, pidFile, faults, overlap>>
files == <<sock, pidFile>>
ghosts == <<faults, overlap>>

NoConn == [to |-> Nobody, st |-> "none"]

Init ==
    /\ pc = [p \in Proc |-> "idle"]
    /\ cmd = [p \in Proc |-> "none"]
    /\ why = [p \in Proc |-> "none"]
    /\ running = [p \in Proc |-> FALSE]
    /\ conn = [p \in Proc |-> NoConn]
    /\ sock = Nobody /\ pidFile = Nobody
    /\ faults = 0 /\ overlap = FALSE

-----------------------------------------------------------------------------
(* Where a controller is in run_serve and run().                           *)

Hidden == {"dir", "unlink", "bind", "deaf", "detach", "unlinkPid"}  \* no file
Listening == {"pid", "start", "serving", "close"}
Controller == Hidden \cup Listening \cup {"listen", "unlinkSock"}

Alive(p) == pc[p] \in Controller

Goto(p, s) == pc' = [pc EXCEPT ![p] = s]

\* The kernel's side of a close: connections in these states that lead to p are
\* reset, and their clients read the end of the stream.
Reset(p, states) ==
    conn' = [c \in Proc |-> IF conn[c].to = p /\ conn[c].st \in states
                            THEN [conn[c] EXCEPT !.st = "closed"] ELSE conn[c]]

\* The process of p is over.
End(p, s) ==
    /\ Goto(p, s)
    /\ Reset(p, {"pending", "accepted", "reading"})
    /\ running' = [running EXCEPT ![p] = FALSE]
    /\ why' = [why EXCEPT ![p] = "none"]

-----------------------------------------------------------------------------
(* run_serve, and Daemon::run up to the server thread.                     *)

\* Mutant: a file that exists does not refuse the start.
ServeCheck_Ignored(p) ==
    /\ pc[p] = "check"
    /\ Goto(p, "dir")
    /\ overlap' = (overlap \/ \E d \in Proc \ {p} : pc[d] \in Hidden)
    /\ UNCHANGED <<cmd, why, running, conn, files, faults>>

\* The test for a running controller: the socket file exists.
ServeCheck(p) ==
    /\ pc[p] = "check"
    /\ IF sock # Nobody
       THEN Goto(p, "ended") /\ UNCHANGED overlap
       ELSE /\ Goto(p, "dir")
            /\ overlap' = (overlap \/ \E d \in Proc \ {p} : pc[d] \in Hidden)
    /\ UNCHANGED <<cmd, why, running, conn, files, faults>>

\* fork, ensure_runtime_dir and the length of the path; each may fail.
ServeDir(p) ==
    /\ pc[p] = "dir"
    /\ Goto(p, "unlink") \/ Goto(p, "ended")
    /\ UNCHANGED <<cmd, why, running, conn, files, ghosts>>

\* unlink(2) of whatever is there, then socket(2), which may fail.
RunUnlink(p) ==
    /\ pc[p] = "unlink"
    /\ sock' = Nobody
    /\ Goto(p, "bind") \/ Goto(p, "ended")
    /\ UNCHANGED <<cmd, why, running, conn, pidFile, ghosts>>

\* bind(2) creates the file and fails if there is one.
RunBind(p) ==
    /\ pc[p] = "bind"
    /\ \/ sock = Nobody /\ sock' = p /\ Goto(p, "listen")
       \/ Goto(p, "ended") /\ UNCHANGED sock
    /\ UNCHANGED <<cmd, why, running, conn, pidFile, ghosts>>

\* Mutant: a failed listen(2) leaves the file behind.
RunListen_LeavesFile(p) ==
    /\ pc[p] = "listen"
    /\ Goto(p, "pid") \/ Goto(p, "ended")
    /\ UNCHANGED <<cmd, why, running, conn, files, ghosts>>

RunListen(p) ==
    /\ pc[p] = "listen"
    /\ \/ Goto(p, "pid") /\ UNCHANGED why
       \/ Goto(p, "close") /\ why' = [why EXCEPT ![p] = "listen"]
    /\ UNCHANGED <<cmd, running, conn, files, ghosts>>

\* The pid file is written if it can be opened.
RunPid(p) ==
    /\ pc[p] = "pid"
    /\ pidFile' = p \/ UNCHANGED pidFile
    /\ Goto(p, "start")
    /\ UNCHANGED <<cmd, why, running, conn, sock, ghosts>>

\* Controller::start attaches the program and applies the startup policy.
RunStart(p) ==
    /\ pc[p] = "start"
    /\ \/ /\ Goto(p, "serving")
          /\ running' = [running EXCEPT ![p] = TRUE]
          /\ UNCHANGED why
       \/ /\ Goto(p, "close")
          /\ why' = [why EXCEPT ![p] = "start"]
          /\ UNCHANGED running
    /\ UNCHANGED <<cmd, conn, files, ghosts>>

-----------------------------------------------------------------------------
(* The way down: after stop(), a failed listen(2) or a failed start, or    *)
(* piecemeal after an error of poll(2) in the server thread.               *)

\* Mutant: run() does not wait for running_ to be cleared.
RunStop_Unasked(p) ==
    /\ pc[p] = "serving"
    /\ Goto(p, "close")
    /\ why' = [why EXCEPT ![p] = "stop"]
    /\ UNCHANGED <<cmd, running, conn, files, ghosts>>

\* running_ is seen false, the server thread is asked to stop and leaves.
RunStop(p) ==
    /\ pc[p] = "serving"
    /\ ~running[p]
    /\ Goto(p, "close")
    /\ why' = [why EXCEPT ![p] = "stop"]
    /\ UNCHANGED <<cmd, running, conn, files, ghosts>>

\* An error of poll(2) other than EINTR ends the server thread, while running_
\* stays set and run() goes on waiting.
ServerBreak(p) ==
    /\ faults < MaxFaults
    /\ pc[p] = "serving"
    /\ faults' = faults + 1
    /\ Goto(p, "close")
    /\ why' = [why EXCEPT ![p] = "poll"]
    /\ UNCHANGED <<cmd, running, conn, files, overlap>>

\* close(listen_fd) resets the connections nobody accepted.
RunClose(p) ==
    /\ pc[p] = "close"
    /\ Goto(p, "unlinkSock")
    /\ Reset(p, {"pending"})
    /\ UNCHANGED <<cmd, why, running, files, ghosts>>

RunUnlinkSock(p) ==
    /\ pc[p] = "unlinkSock"
    /\ sock' = Nobody
    /\ \/ why[p] = "listen" /\ End(p, "ended")
       \/ /\ why[p] # "listen"
          /\ Goto(p, CASE why[p] = "start" -> "unlinkPid"
                       [] why[p] = "poll" -> "deaf"
                       [] OTHER -> "detach")
          /\ UNCHANGED <<why, running, conn>>
    /\ UNCHANGED <<cmd, pidFile, ghosts>>

\* The server thread is gone; run() leaves its loop all the same.
RunDeaf(p) ==
    /\ pc[p] = "deaf"
    /\ ~running[p]
    /\ Goto(p, "detach")
    /\ UNCHANGED <<cmd, why, running, conn, files, ghosts>>

\* Controller::request_stop; if detach fails run() returns at once.
RunDetach(p) ==
    /\ pc[p] = "detach"
    /\ \/ Goto(p, "unlinkPid") /\ UNCHANGED <<why, running, conn>>
       \/ End(p, "undetached")
    /\ UNCHANGED <<cmd, files, ghosts>>

RunUnlinkPid(p) ==
    /\ pc[p] = "unlinkPid"
    /\ pidFile' = Nobody
    /\ End(p, "ended")
    /\ UNCHANGED <<cmd, sock, ghosts>>

ServeStep(p) ==
    \/ ServeCheck(p)
    \/ ServeDir(p)
    \/ RunUnlink(p)
    \/ RunBind(p)
    \/ RunListen(p)
    \/ RunPid(p)
    \/ RunStart(p)
    \/ RunStop(p)
    \/ RunClose(p)
    \/ RunUnlinkSock(p)
    \/ RunDeaf(p)
    \/ RunDetach(p)
    \/ RunUnlinkPid(p)

-----------------------------------------------------------------------------
(* The subcommands that talk to a controller.                              *)

\* policy load parses and compiles the file first, and stops if it is invalid.
Invoke(p) ==
    /\ pc[p] = "idle"
    /\ \A q \in Proc : q < p => pc[q] # "idle"
    /\ \E k \in Cmds :
          /\ cmd' = [cmd EXCEPT ![p] = k]
          /\ \/ k = "serve" /\ Goto(p, "check")
             \/ k # "serve" /\ Goto(p, "lookup")
             \/ k = "load" /\ Goto(p, "ended")
    /\ UNCHANGED <<why, running, conn, files, ghosts>>

\* Without a socket file policy load goes on as serve --daemon.
Lookup(p) ==
    /\ pc[p] = "lookup"
    /\ \/ sock # Nobody /\ Goto(p, "connect") /\ UNCHANGED cmd
       \/ sock = Nobody /\ cmd[p] # "load" /\ Goto(p, "ended") /\ UNCHANGED cmd
       \/ /\ sock = Nobody /\ cmd[p] = "load"
          /\ Goto(p, "check")
          /\ cmd' = [cmd EXCEPT ![p] = "serve"]
    /\ UNCHANGED <<why, running, conn, files, ghosts>>

\* daemon_connect and the request: refused when nobody listens on the file.
Connect(p) ==
    /\ pc[p] = "connect"
    /\ \/ /\ sock # Nobody
          /\ pc[sock] \in Listening
          /\ conn' = [conn EXCEPT ![p] = [to |-> sock, st |-> "pending"]]
          /\ Goto(p, "wait")
       \/ /\ sock # Nobody => pc[sock] \notin Listening
          /\ Goto(p, "ended")
          /\ UNCHANGED conn
    /\ UNCHANGED <<cmd, why, running, files, ghosts>>

\* request_json has an answer, or the end of the stream; there is no timeout.
Return(p) ==
    /\ pc[p] = "wait"
    /\ conn[p].st \in {"answered", "closed"}
    /\ Goto(p, "ended")
    /\ conn' = [conn EXCEPT ![p] = NoConn]
    /\ UNCHANGED <<cmd, why, running, files, ghosts>>

ClientStep(p) == Lookup(p) \/ Connect(p) \/ Return(p)

-----------------------------------------------------------------------------
(* The controller's side of the connection of c.                           *)

Accept(c) ==
    /\ conn[c].st = "pending"
    /\ pc[conn[c].to] = "serving"
    /\ conn' = [conn EXCEPT ![c].st = "accepted"]
    /\ UNCHANGED <<pc, cmd, why, running, files, ghosts>>

\* The loop of handle_client tests running_ before it reads.
HandlerTest(c) ==
    /\ conn[c].st = "accepted"
    /\ conn' = [conn EXCEPT ![c].st = IF running[conn[c].to] THEN "reading"
                                      ELSE "closed"]
    /\ UNCHANGED <<pc, cmd, why, running, files, ghosts>>

\* Mutant: only "stop" is answered.
HandleRequest_Silent(c) ==
    /\ conn[c].st = "reading"
    /\ cmd[c] = "stop"
    /\ running' = [running EXCEPT ![conn[c].to] = FALSE]
    /\ conn' = [conn EXCEPT ![c].st = "answered"]
    /\ UNCHANGED <<pc, cmd, why, files, ghosts>>

\* Mutant: "stop" is answered and running_ is left set.
HandleRequest_KeepsRunning(c) ==
    /\ conn[c].st = "reading"
    /\ conn' = [conn EXCEPT ![c].st = "answered"]
    /\ UNCHANGED <<pc, cmd, why, running, files, ghosts>>

\* handle_line; "stop" clears running_.
HandleRequest(c) ==
    /\ conn[c].st = "reading"
    /\ running' = [running EXCEPT ![conn[c].to] = @ /\ cmd[c] # "stop"]
    /\ conn' = [conn EXCEPT ![c].st = "answered"]
    /\ UNCHANGED <<pc, cmd, why, files, ghosts>>

HandlerStep(c) == Accept(c) \/ HandlerTest(c) \/ HandleRequest(c)

-----------------------------------------------------------------------------
\* SIGINT or SIGTERM: Daemon::stop acts on a daemon that is running; a signal
\* that comes earlier is lost.
Signal(p) ==
    /\ running[p]
    /\ running' = [running EXCEPT ![p] = FALSE]
    /\ UNCHANGED <<pc, cmd, why, conn, files, ghosts>>

\* SIGKILL, the OOM killer or an abort.
Kill(p) ==
    /\ faults < MaxFaults
    /\ Alive(p)
    /\ faults' = faults + 1
    /\ End(p, "killed")
    /\ UNCHANGED <<cmd, files, overlap>>

Next ==
    \E p \in Proc :
        \/ Invoke(p)
        \/ ServeStep(p)
        \/ ClientStep(p)
        \/ HandlerStep(p)
        \/ ServerBreak(p)
        \/ Signal(p)
        \/ Kill(p)

Spec == Init /\ [][Next]_vars

\* Every thread keeps running; nobody has to invoke, signal or kill anything,
\* and poll(2) does not have to fail.
FairSpec ==
    /\ Spec
    /\ \A p \in Proc : /\ WF_vars(ServeStep(p))
                       /\ WF_vars(ClientStep(p))
                       /\ WF_vars(HandlerStep(p))

-----------------------------------------------------------------------------
PcPoints == Controller \cup {"idle", "check", "lookup", "connect", "wait", "ended",
                             "undetached", "killed"}
ConnStates == {"none", "pending", "accepted", "reading", "answered", "closed"}

VarTypes ==
    /\ pc \in [Proc -> PcPoints]
    /\ cmd \in [Proc -> Cmds \cup {"none", "serve"}]
    /\ why \in [Proc -> {"none", "listen", "start", "stop", "poll"}]
    /\ running \in [Proc -> BOOLEAN]
    /\ conn \in [Proc -> [to : Proc \cup {Nobody}, st : ConnStates]]
    /\ sock \in Proc \cup {Nobody} /\ pidFile \in Proc \cup {Nobody}
    /\ faults \in 0..MaxFaults /\ overlap \in BOOLEAN

\* What the program counter of p says about the rest of its state.
StateOK(p) ==
    /\ running[p] => \/ pc[p] = "serving"
                     \/ why[p] = "poll" /\ pc[p] \in {"close", "unlinkSock", "deaf"}
    /\ why[p] # "none" <=> pc[p] \in {"close", "unlinkSock", "deaf", "detach",
                                      "unlinkPid"}
    /\ pc[p] = "wait" <=> conn[p].to # Nobody
    /\ conn[p].st \in {"accepted", "reading"} => Alive(conn[p].to)

TypeOK == VarTypes /\ \A p \in Proc : StateOK(p)

\* "Clean startup and shutdown" (docs/03-requirements.md:14): however many
\* controllers start, fail, stop and remove each other's files, what is left of
\* a file belongs to a process that will still remove it, unless that process
\* was killed or, for the pid file, could not detach.
FilesOwned ==
    /\ sock # Nobody => Alive(sock) \/ pc[sock] = "killed"
    /\ pidFile # Nobody => \/ Alive(pidFile)
                           \/ pc[pidFile] \in {"killed", "undetached"}

\* The test of run_serve suffices between controllers that do not start or stop
\* at the same time and do not lose their server thread: there is one, and the
\* socket file leads to it.
SoleController ==
    ~overlap => \A p \in Proc :
        pc[p] = "serving" => /\ sock = p
                             /\ \A d \in Proc \ {p} : ~Alive(d)

\* A subcommand that asks a controller returns, although request_json waits
\* without a timeout: whatever becomes of the controller, the client gets an
\* answer or the end of the stream.  An invocation waits once, so that all of
\* them return when again and again nobody waits.
ClientReturns == []<>(\A p \in Proc : pc[p] # "wait")

\* A controller that answered "stop" comes down and its socket file goes.
StopTakesEffect ==
    \A d \in Proc :
        (\E p \in Proc : cmd[p] = "stop" /\ conn[p] = [to |-> d, st |-> "answered"])
            ~> ~Alive(d) /\ (sock # d \/ pc[d] = "killed")
=============================================================================

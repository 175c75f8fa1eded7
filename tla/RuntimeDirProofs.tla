-------------------------- MODULE RuntimeDirProofs --------------------------
(***************************************************************************)
(* Proofs about RuntimeDir, for any number of invocations of guardctl, any *)
(* mix of subcommands and any number of faults.                            *)
(***************************************************************************)
EXTENDS RuntimeDir, TLAPS

\* A connection has a state exactly while it leads somewhere, and a handler
\* works only for a controller that has begun to serve.
Served == {"serving", "close", "unlinkSock", "deaf", "detach", "unlinkPid"}

ConnOK(c) ==
    /\ conn[c].st = "none" <=> conn[c].to = Nobody
    /\ conn[c].st \in {"accepted", "reading"} => pc[conn[c].to] \in Served

ConnInv == \A c \in Proc : ConnOK(c)

\* The program points at which a controller may have its file in the directory;
\* the step that leaves the last of them removes the file.
SockPoints == {"listen", "pid", "start", "serving", "close", "unlinkSock"}
PidPoints == {"start", "serving", "close", "unlinkSock", "deaf", "detach",
              "unlinkPid"}

\* Who the files belong to, step by step.  A controller that comes down because
\* listen(2) failed returns before the pid file is removed: it has not written
\* it.
OwnerInv ==
    /\ sock # Nobody => pc[sock] \in SockPoints \cup {"killed"}
    /\ pidFile # Nobody => /\ pc[pidFile] \in PidPoints \cup {"killed", "undetached"}
                           /\ why[pidFile] # "listen"

\* As long as no start met another start or a stop, one controller is alive,
\* and from its bind(2) to its unlink(2) the socket file is its own.
SoleInv ==
    ~overlap => \A p \in Proc : Alive(p) =>
        /\ pc[p] \notin Hidden => sock = p
        /\ \A d \in Proc \ {p} : ~Alive(d)

IInv == TypeOK /\ ConnInv /\ OwnerInv /\ SoleInv

-----------------------------------------------------------------------------
\* No process, no files: the invariant holds.
LEMMA InitInv == Init => IInv
<1> SUFFICES ASSUME Init PROVE IInv
  OBVIOUS
<1>1. VarTypes
  <2>1. pc \in [Proc -> PcPoints] /\ conn \in [Proc -> [to : Proc \cup {Nobody}, st : ConnStates]]
    BY DEF Init, PcPoints, ConnStates, NoConn
  <2>2. cmd \in [Proc -> Cmds \cup {"none", "serve"}]
    BY DEF Init
  <2>3. why \in [Proc -> {"none", "listen", "start", "stop", "poll"}]
    BY DEF Init
  <2>4. running \in [Proc -> BOOLEAN]
    BY DEF Init
  <2>5. faults \in 0..MaxFaults
    BY RuntimeDirAssumption DEF Init
  <2>6. QED
    BY <2>1, <2>2, <2>3, <2>4, <2>5 DEF Init, VarTypes
<1>2. ASSUME NEW p \in Proc PROVE StateOK(p) /\ ConnOK(p)
  BY RuntimeDirAssumption DEF Init, StateOK, ConnOK, NoConn
<1>3. OwnerInv /\ SoleInv
  BY RuntimeDirAssumption
     DEF Init, OwnerInv, SoleInv, Alive, Controller, Hidden, Listening
<1>4. QED
  BY <1>1, <1>2, <1>3 DEF IInv, TypeOK, ConnInv

\* A move between program points at which a process neither serves nor waits
\* leaves everybody's state consistent.
Quiet == PcPoints \ (Served \cup {"wait"})

\* A process that only moves on, between steps that serve nobody and wait for
\* nobody, leaves types and connections alone.
LEMMA QuietMove ==
    ASSUME TypeOK, ConnInv, NEW p \in Proc, NEW s \in Quiet, pc[p] \in Quiet,
           Goto(p, s), UNCHANGED <<why, running, conn>>
    PROVE  /\ pc' \in [Proc -> PcPoints]
           /\ \A c \in Proc : StateOK(c)' /\ ConnOK(c)'
<1>1. pc' \in [Proc -> PcPoints]
  BY DEF Quiet, Goto, TypeOK, VarTypes
<1>2. ASSUME NEW c \in Proc PROVE StateOK(c)' /\ ConnOK(c)'
  <2>1. ~running[p] /\ why[p] = "none" /\ conn[p].to = Nobody
    BY DEF TypeOK, VarTypes, StateOK, Quiet, Served
  <2>2. conn[c].st \in {"accepted", "reading"} => conn[c].to \in Proc \ {p}
    BY DEF TypeOK, VarTypes, ConnInv, ConnOK, Quiet
  <2>3. \A d \in Proc \ {p} : pc'[d] = pc[d]
    BY DEF Goto, TypeOK, VarTypes
  <2>4. CASE c = p
    BY <2>1, <2>4, RuntimeDirAssumption
       DEF Goto, Quiet, Served, TypeOK, VarTypes, StateOK, ConnInv, ConnOK
  <2>5. CASE c # p
    BY <2>2, <2>3, <2>5 DEF TypeOK, StateOK, ConnInv, ConnOK, Alive
  <2>6. QED
    BY <2>4, <2>5
<1>3. QED
  BY <1>1, <1>2

\* The end of a controller resets what leads to it.
LEMMA EndMove ==
    ASSUME TypeOK, ConnInv, NEW p \in Proc, Alive(p),
           NEW s \in {"ended", "undetached", "killed"}, End(p, s)
    PROVE  /\ pc' \in [Proc -> PcPoints]
           /\ conn' \in [Proc -> [to : Proc \cup {Nobody}, st : ConnStates]]
           /\ running' \in [Proc -> BOOLEAN]
           /\ why' \in [Proc -> {"none", "listen", "start", "stop", "poll"}]
           /\ \A c \in Proc : StateOK(c)' /\ ConnOK(c)'
<1>1. pc' \in [Proc -> PcPoints]
  BY DEF PcPoints, End, Goto, TypeOK, VarTypes
<1>2. conn' \in [Proc -> [to : Proc \cup {Nobody}, st : ConnStates]]
  BY DEF ConnStates, End, Reset, TypeOK, VarTypes
<1>3. running' \in [Proc -> BOOLEAN]
  BY DEF End, TypeOK, VarTypes
<1>4. why' \in [Proc -> {"none", "listen", "start", "stop", "poll"}]
  BY DEF End, TypeOK, VarTypes
<1>5. ASSUME NEW c \in Proc PROVE StateOK(c)' /\ ConnOK(c)'
  BY RuntimeDirAssumption
     DEF End, Goto, Reset, TypeOK, VarTypes, StateOK, ConnInv, ConnOK, Served,
         Alive, Controller, Hidden, Listening, ConnStates
<1>6. QED
  BY <1>1, <1>2, <1>3, <1>4, <1>5

\* Types and connections are kept by every step: a process that ends takes its
\* handlers and connections with it.
LEMMA TypeStep ==
    ASSUME TypeOK, ConnInv, [Next]_vars
    PROVE  TypeOK' /\ ConnInv'
<1> DEFINE StatesOK == \A c \in Proc : StateOK(c) /\ ConnOK(c)
<1> SUFFICES VarTypes' /\ StatesOK'
  BY DEF TypeOK, ConnInv
<1>1. CASE UNCHANGED vars
  BY <1>1 DEF vars, TypeOK, VarTypes, StateOK, ConnInv, ConnOK, Alive
<1>2. ASSUME NEW p \in Proc, Invoke(p) PROVE VarTypes' /\ StatesOK'
  <2>1. pc' \in [Proc -> PcPoints] /\ StatesOK'
    BY <1>2, QuietMove
       DEF Invoke, Quiet, Served, PcPoints, Controller, Hidden, Listening
  <2>2. QED
    BY <1>2, <2>1 DEF Invoke, TypeOK, VarTypes, files, ghosts
<1>3. ASSUME NEW p \in Proc, ServeCheck(p) PROVE VarTypes' /\ StatesOK'
  <2>1. pc' \in [Proc -> PcPoints] /\ StatesOK'
    BY <1>3, QuietMove
       DEF ServeCheck, Quiet, Served, PcPoints, Controller, Hidden, Listening
  <2>2. QED
    BY <1>3, <2>1 DEF ServeCheck, TypeOK, VarTypes, files, ghosts
<1>4. ASSUME NEW p \in Proc, ServeDir(p) PROVE VarTypes' /\ StatesOK'
  <2>1. pc' \in [Proc -> PcPoints] /\ StatesOK'
    BY <1>4, QuietMove
       DEF ServeDir, Quiet, Served, PcPoints, Controller, Hidden, Listening
  <2>2. QED
    BY <1>4, <2>1 DEF ServeDir, TypeOK, VarTypes, files, ghosts
<1>5. ASSUME NEW p \in Proc, RunUnlink(p) PROVE VarTypes' /\ StatesOK'
  <2>1. pc' \in [Proc -> PcPoints] /\ StatesOK'
    BY <1>5, QuietMove
       DEF RunUnlink, Quiet, Served, PcPoints, Controller, Hidden, Listening
  <2>2. QED
    BY <1>5, <2>1 DEF RunUnlink, TypeOK, VarTypes, files, ghosts
<1>6. ASSUME NEW p \in Proc, RunBind(p) PROVE VarTypes' /\ StatesOK'
  <2>1. pc' \in [Proc -> PcPoints] /\ StatesOK'
    BY <1>6, QuietMove
       DEF RunBind, Quiet, Served, PcPoints, Controller, Hidden, Listening
  <2>2. QED
    BY <1>6, <2>1 DEF RunBind, TypeOK, VarTypes, files, ghosts
<1>7. ASSUME NEW p \in Proc, RunListen(p) PROVE VarTypes' /\ StatesOK'
  <2>1. CASE Goto(p, "pid") /\ UNCHANGED why
    BY <1>7, <2>1, QuietMove
       DEF RunListen, Quiet, Served, PcPoints, Controller, Hidden, Listening,
           TypeOK, VarTypes, files, ghosts
  <2>2. CASE Goto(p, "close") /\ why' = [why EXCEPT ![p] = "listen"]
    <3>1. VarTypes'
      BY <1>7, <2>2
         DEF RunListen, Goto, TypeOK, VarTypes, PcPoints, Controller, Hidden,
             Listening, files, ghosts
    <3>2. StatesOK'
      BY <1>7, <2>2, RuntimeDirAssumption
         DEF RunListen, Goto, TypeOK, VarTypes, StateOK, ConnInv, ConnOK,
             Served, Alive, Controller, Hidden, Listening, ConnStates
    <3>3. QED
      BY <3>1, <3>2
  <2>3. QED
    BY <1>7, <2>1, <2>2 DEF RunListen
<1>8. ASSUME NEW p \in Proc, RunPid(p) PROVE VarTypes' /\ StatesOK'
  <2>1. pc' \in [Proc -> PcPoints] /\ StatesOK'
    BY <1>8, QuietMove
       DEF RunPid, Quiet, Served, PcPoints, Controller, Hidden, Listening
  <2>2. QED
    BY <1>8, <2>1 DEF RunPid, TypeOK, VarTypes, files, ghosts
<1>9. ASSUME NEW p \in Proc, RunStart(p) PROVE VarTypes' /\ StatesOK'
  <2>1. VarTypes'
    BY <1>9
       DEF RunStart, Goto, TypeOK, VarTypes, PcPoints, Controller, Hidden,
           Listening, files, ghosts
  <2>2. CASE Goto(p, "serving") /\ running' = [running EXCEPT ![p] = TRUE] /\ UNCHANGED why
    BY <1>9, <2>1, <2>2, RuntimeDirAssumption
       DEF RunStart, Goto, TypeOK, VarTypes, StateOK, ConnInv, ConnOK, Served,
           Alive, Controller, Hidden, Listening, ConnStates
  <2>3. CASE Goto(p, "close") /\ why' = [why EXCEPT ![p] = "start"] /\ UNCHANGED running
    BY <1>9, <2>1, <2>3, RuntimeDirAssumption
       DEF RunStart, Goto, TypeOK, VarTypes, StateOK, ConnInv, ConnOK, Served,
           Alive, Controller, Hidden, Listening, ConnStates
  <2>4. QED
    BY <1>9, <2>2, <2>3 DEF RunStart
<1>10. ASSUME NEW p \in Proc, RunStop(p) PROVE VarTypes' /\ StatesOK'
  <2>1. VarTypes'
    BY <1>10, RuntimeDirAssumption
       DEF RunStop, Goto, TypeOK, VarTypes, PcPoints, ConnStates, Controller,
           Hidden, Listening, files, ghosts, ConnInv, ConnOK
  <2>2. StatesOK'
    BY <1>10, RuntimeDirAssumption
       DEF RunStop, Goto, TypeOK, VarTypes, StateOK, ConnInv, ConnOK, Served,
           Alive, Controller, Hidden, Listening, ConnStates
  <2>3. QED
    BY <2>1, <2>2
<1>24. ASSUME NEW p \in Proc, ServerBreak(p) PROVE VarTypes' /\ StatesOK'
  <2>1. VarTypes'
    BY <1>24, RuntimeDirAssumption
       DEF ServerBreak, Goto, TypeOK, VarTypes, PcPoints, ConnStates, Controller,
           Hidden, Listening, files, ghosts, ConnInv, ConnOK
  <2>2. StatesOK'
    BY <1>24, RuntimeDirAssumption
       DEF ServerBreak, Goto, TypeOK, VarTypes, StateOK, ConnInv, ConnOK, Served,
           Alive, Controller, Hidden, Listening, ConnStates
  <2>3. QED
    BY <2>1, <2>2
<1>25. ASSUME NEW p \in Proc, RunDeaf(p) PROVE VarTypes' /\ StatesOK'
  <2>1. VarTypes'
    BY <1>25, RuntimeDirAssumption
       DEF RunDeaf, Goto, TypeOK, VarTypes, PcPoints, ConnStates, Controller,
           Hidden, Listening, files, ghosts, ConnInv, ConnOK
  <2>2. StatesOK'
    BY <1>25, RuntimeDirAssumption
       DEF RunDeaf, Goto, TypeOK, VarTypes, StateOK, ConnInv, ConnOK, Served,
           Alive, Controller, Hidden, Listening, ConnStates
  <2>3. QED
    BY <2>1, <2>2
<1>11. ASSUME NEW p \in Proc, RunClose(p) PROVE VarTypes' /\ StatesOK'
  <2>1. VarTypes'
    BY <1>11, RuntimeDirAssumption
       DEF RunClose, Goto, Reset, TypeOK, VarTypes, PcPoints, ConnStates,
           Controller, Hidden, Listening, files, ghosts, ConnInv, ConnOK
  <2>2. StatesOK'
    BY <1>11, RuntimeDirAssumption
       DEF RunClose, Goto, Reset, TypeOK, VarTypes, StateOK, ConnInv, ConnOK,
           Served, Alive, Controller, Hidden, Listening, ConnStates
  <2>3. QED
    BY <2>1, <2>2
<1>12. ASSUME NEW p \in Proc, RunUnlinkSock(p) PROVE VarTypes' /\ StatesOK'
  <2> DEFINE next == CASE why[p] = "start" -> "unlinkPid"
                       [] why[p] = "poll" -> "deaf"
                       [] OTHER -> "detach"
  <2>1. Alive(p)
    BY <1>12 DEF RunUnlinkSock, Alive, Controller
  <2>2. CASE End(p, "ended")
    BY <1>12, <2>1, <2>2, EndMove DEF RunUnlinkSock, TypeOK, VarTypes, ghosts
  <2>3. CASE Goto(p, next) /\ UNCHANGED <<why, running, conn>>
    <3>1. next \in {"unlinkPid", "deaf", "detach"} /\ (running[p] => next = "deaf")
      BY <1>12 DEF RunUnlinkSock, TypeOK, StateOK
    <3> HIDE DEF next
    <3>2. VarTypes'
      BY <1>12, <2>3, <3>1
         DEF RunUnlinkSock, Goto, TypeOK, VarTypes, PcPoints, Controller,
             Hidden, Listening, files, ghosts
    <3>3. StatesOK'
      BY <1>12, <2>3, <3>1, RuntimeDirAssumption
         DEF RunUnlinkSock, Goto, TypeOK, VarTypes, StateOK, ConnInv, ConnOK,
             Served, Alive, Controller, Hidden, Listening, ConnStates
    <3>4. QED
      BY <3>2, <3>3
  <2>4. QED
    BY <1>12, <2>2, <2>3 DEF RunUnlinkSock
<1>13. ASSUME NEW p \in Proc, RunDetach(p) PROVE VarTypes' /\ StatesOK'
  <2>1. Alive(p)
    BY <1>13 DEF RunDetach, Alive, Controller, Hidden
  <2>2. CASE End(p, "undetached")
    BY <1>13, <2>1, <2>2, EndMove DEF RunDetach, TypeOK, VarTypes, files, ghosts
  <2>3. CASE Goto(p, "unlinkPid") /\ UNCHANGED <<why, running, conn>>
    <3>1. VarTypes'
      BY <1>13, <2>3
         DEF RunDetach, Goto, TypeOK, VarTypes, PcPoints, Controller, Hidden,
             Listening, files, ghosts
    <3>2. StatesOK'
      BY <1>13, <2>3, RuntimeDirAssumption
         DEF RunDetach, Goto, TypeOK, VarTypes, StateOK, ConnInv, ConnOK,
             Served, Alive, Controller, Hidden, Listening, ConnStates
    <3>3. QED
      BY <3>1, <3>2
  <2>4. QED
    BY <1>13, <2>2, <2>3 DEF RunDetach
<1>14. ASSUME NEW p \in Proc, RunUnlinkPid(p) PROVE VarTypes' /\ StatesOK'
  <2>1. Alive(p)
    BY <1>14 DEF RunUnlinkPid, Alive, Controller, Hidden
  <2>2. QED
    BY <1>14, <2>1, EndMove, RuntimeDirAssumption
       DEF RunUnlinkPid, TypeOK, VarTypes, files, ghosts
<1>15. ASSUME NEW p \in Proc, Lookup(p) PROVE VarTypes' /\ StatesOK'
  <2>1. pc' \in [Proc -> PcPoints] /\ StatesOK'
    BY <1>15, QuietMove
       DEF Lookup, Quiet, Served, PcPoints, Controller, Hidden, Listening
  <2>2. cmd' \in [Proc -> Cmds \cup {"none", "serve"}]
    BY <1>15 DEF Lookup, TypeOK, VarTypes
  <2>3. QED
    BY <1>15, <2>1, <2>2 DEF Lookup, TypeOK, VarTypes, files, ghosts
<1>16. ASSUME NEW p \in Proc, Connect(p) PROVE VarTypes' /\ StatesOK'
  <2>1. CASE Goto(p, "ended") /\ UNCHANGED conn
    BY <1>16, <2>1, QuietMove
       DEF Connect, Quiet, Served, PcPoints, Controller, Hidden, Listening,
           TypeOK, VarTypes, files, ghosts
  <2>2. CASE /\ sock # Nobody /\ Goto(p, "wait")
             /\ conn' = [conn EXCEPT ![p] = [to |-> sock, st |-> "pending"]]
    <3>1. VarTypes'
      BY <1>16, <2>2
         DEF Connect, Goto, ConnStates, TypeOK, VarTypes, PcPoints, Controller,
             Hidden, Listening, files, ghosts
    <3>2. StatesOK'
      BY <1>16, <2>2, RuntimeDirAssumption
         DEF Connect, Goto, TypeOK, VarTypes, StateOK, ConnInv, ConnOK, Served,
             Alive, Controller, Hidden, Listening, ConnStates
    <3>3. QED
      BY <3>1, <3>2
  <2>3. QED
    BY <1>16, <2>1, <2>2 DEF Connect
<1>17. ASSUME NEW p \in Proc, Return(p) PROVE VarTypes' /\ StatesOK'
  <2>1. VarTypes'
    BY <1>17, RuntimeDirAssumption
       DEF Return, Goto, NoConn, TypeOK, VarTypes, PcPoints, ConnStates,
           Controller, Hidden, Listening, files, ghosts, ConnInv, ConnOK
  <2>2. StatesOK'
    BY <1>17, RuntimeDirAssumption
       DEF Return, Goto, NoConn, TypeOK, VarTypes, StateOK, ConnInv, ConnOK,
           Served, Alive, Controller, Hidden, Listening, ConnStates
  <2>3. QED
    BY <2>1, <2>2
<1>18. ASSUME NEW p \in Proc, Accept(p) PROVE VarTypes' /\ StatesOK'
  <2>1. VarTypes'
    BY <1>18, RuntimeDirAssumption
       DEF Accept, Goto, TypeOK, VarTypes, PcPoints, ConnStates, Controller,
           Hidden, Listening, files, ghosts, ConnInv, ConnOK
  <2>2. StatesOK'
    BY <1>18, RuntimeDirAssumption
       DEF Accept, Goto, TypeOK, VarTypes, StateOK, ConnInv, ConnOK, Served,
           Alive, Controller, Hidden, Listening, ConnStates
  <2>3. QED
    BY <2>1, <2>2
<1>19. ASSUME NEW p \in Proc, HandlerTest(p) PROVE VarTypes' /\ StatesOK'
  <2>1. VarTypes'
    BY <1>19, RuntimeDirAssumption
       DEF HandlerTest, Goto, TypeOK, VarTypes, PcPoints, ConnStates,
           Controller, Hidden, Listening, files, ghosts, ConnInv, ConnOK
  <2>2. StatesOK'
    BY <1>19, RuntimeDirAssumption
       DEF HandlerTest, Goto, TypeOK, VarTypes, StateOK, ConnInv, ConnOK,
           Served, Alive, Controller, Hidden, Listening, ConnStates
  <2>3. QED
    BY <2>1, <2>2
<1>20. ASSUME NEW p \in Proc, HandleRequest(p) PROVE VarTypes' /\ StatesOK'
  <2>1. VarTypes'
    BY <1>20, RuntimeDirAssumption
       DEF HandleRequest, Goto, TypeOK, VarTypes, PcPoints, ConnStates,
           Controller, Hidden, Listening, files, ghosts, ConnInv, ConnOK
  <2>2. StatesOK'
    BY <1>20, RuntimeDirAssumption
       DEF HandleRequest, Goto, TypeOK, VarTypes, StateOK, ConnInv, ConnOK,
           Served, Alive, Controller, Hidden, Listening, ConnStates
  <2>3. QED
    BY <2>1, <2>2
<1>21. ASSUME NEW p \in Proc, Signal(p) PROVE VarTypes' /\ StatesOK'
  <2>1. VarTypes'
    BY <1>21, RuntimeDirAssumption
       DEF Signal, Goto, TypeOK, VarTypes, PcPoints, ConnStates, Controller,
           Hidden, Listening, files, ghosts, ConnInv, ConnOK
  <2>2. StatesOK'
    BY <1>21, RuntimeDirAssumption
       DEF Signal, Goto, TypeOK, VarTypes, StateOK, ConnInv, ConnOK, Served,
           Alive, Controller, Hidden, Listening, ConnStates
  <2>3. QED
    BY <2>1, <2>2
<1>22. ASSUME NEW p \in Proc, Kill(p) PROVE VarTypes' /\ StatesOK'
  <2>1. Alive(p)
    BY <1>22 DEF Kill, Alive, Controller, Hidden
  <2>2. QED
    BY <1>22, <2>1, EndMove, RuntimeDirAssumption
       DEF Kill, TypeOK, VarTypes, files, ghosts
<1>23. QED
  BY <1>1, <1>2, <1>3, <1>4, <1>5, <1>6, <1>7, <1>8, <1>9, <1>10, <1>11, <1>12,
     <1>13, <1>14, <1>15, <1>16, <1>17, <1>18, <1>19, <1>20, <1>21, <1>22, <1>24,
     <1>25
     DEF Next, ServeStep, ClientStep, HandlerStep

\* A step of p moves p alone.
LEMMA OthersStay ==
    ASSUME TypeOK, NEW p \in Proc, NEW s, Goto(p, s)
    PROVE  /\ pc'[p] = s
           /\ \A d \in Proc \ {p} : pc'[d] = pc[d] /\ (Alive(d)' <=> Alive(d))
BY DEF TypeOK, VarTypes, Goto, Alive

\* Files pass from one owner to the next.
LEMMA OwnerStep ==
    ASSUME TypeOK, OwnerInv, [Next]_vars
    PROVE  OwnerInv'
<1> USE RuntimeDirAssumption, OthersStay
        DEF TypeOK, VarTypes, StateOK, OwnerInv, SockPoints, PidPoints
<1>1. CASE UNCHANGED <<pc, why, sock, pidFile>>
  BY <1>1
<1>2. ASSUME NEW p \in Proc, Invoke(p) PROVE OwnerInv'
  BY <1>2 DEF Invoke, files, ghosts
<1>3. ASSUME NEW p \in Proc, ServeCheck(p) PROVE OwnerInv'
  BY <1>3 DEF ServeCheck, files, ghosts
<1>4. ASSUME NEW p \in Proc, ServeDir(p) PROVE OwnerInv'
  BY <1>4 DEF ServeDir, files, ghosts
<1>5. ASSUME NEW p \in Proc, RunUnlink(p) PROVE OwnerInv'
  BY <1>5 DEF RunUnlink, files, ghosts
<1>6. ASSUME NEW p \in Proc, RunBind(p) PROVE OwnerInv'
  BY <1>6 DEF RunBind, files, ghosts
<1>7. ASSUME NEW p \in Proc, RunListen(p) PROVE OwnerInv'
  BY <1>7 DEF RunListen, files, ghosts
<1>8. ASSUME NEW p \in Proc, RunPid(p) PROVE OwnerInv'
  BY <1>8 DEF RunPid, files, ghosts
<1>9. ASSUME NEW p \in Proc, RunStart(p) PROVE OwnerInv'
  BY <1>9 DEF RunStart, files, ghosts
<1>10. ASSUME NEW p \in Proc, RunStop(p) PROVE OwnerInv'
  BY <1>10 DEF RunStop, files, ghosts
<1>22. ASSUME NEW p \in Proc, ServerBreak(p) PROVE OwnerInv'
  BY <1>22 DEF ServerBreak, files, ghosts
<1>23. ASSUME NEW p \in Proc, RunDeaf(p) PROVE OwnerInv'
  BY <1>23 DEF RunDeaf, files, ghosts
<1>11. ASSUME NEW p \in Proc, RunClose(p) PROVE OwnerInv'
  BY <1>11 DEF RunClose, files, ghosts
<1>12. ASSUME NEW p \in Proc, RunUnlinkSock(p) PROVE OwnerInv'
  BY <1>12 DEF RunUnlinkSock, End, files, ghosts
<1>13. ASSUME NEW p \in Proc, RunDetach(p) PROVE OwnerInv'
  BY <1>13 DEF RunDetach, End, files, ghosts
<1>14. ASSUME NEW p \in Proc, RunUnlinkPid(p) PROVE OwnerInv'
  BY <1>14 DEF RunUnlinkPid, End, files, ghosts
<1>15. ASSUME NEW p \in Proc, Lookup(p) PROVE OwnerInv'
  BY <1>15 DEF Lookup, files, ghosts
<1>16. ASSUME NEW p \in Proc, Connect(p) PROVE OwnerInv'
  BY <1>16 DEF Connect, files, ghosts
<1>17. ASSUME NEW p \in Proc, Return(p) PROVE OwnerInv'
  BY <1>17 DEF Return, files, ghosts
<1>18. ASSUME NEW p \in Proc, Kill(p) PROVE OwnerInv'
  BY <1>18 DEF Kill, End, files, ghosts
<1>19. ASSUME NEW p \in Proc, Accept(p) \/ HandlerTest(p) \/ HandleRequest(p) \/ Signal(p)
       PROVE  UNCHANGED <<pc, why, sock, pidFile>>
  BY <1>19 DEF Accept, HandlerTest, HandleRequest, Signal, files, ghosts
<1>20. CASE UNCHANGED vars
  BY <1>20, <1>1 DEF vars
<1>21. QED
  BY <1>1, <1>2, <1>3, <1>4, <1>5, <1>6, <1>7, <1>8, <1>9, <1>10, <1>11, <1>12,
     <1>13, <1>14, <1>15, <1>16, <1>17, <1>18, <1>19, <1>20, <1>22, <1>23
     DEF Next, ServeStep, ClientStep, HandlerStep

\* While starts and stops do not meet there is one controller.
LEMMA SoleStep ==
    ASSUME TypeOK, OwnerInv, SoleInv, [Next]_vars
    PROVE  SoleInv'
<1> USE RuntimeDirAssumption, OthersStay
        DEF TypeOK, VarTypes, SoleInv, Alive, Controller, Hidden, Listening
<1>1. CASE UNCHANGED <<pc, sock, overlap>>
  BY <1>1
<1>2. ASSUME NEW p \in Proc, Invoke(p) PROVE SoleInv'
  BY <1>2 DEF Invoke, files, ghosts
<1>3. ASSUME NEW p \in Proc, ServeCheck(p) PROVE SoleInv'
  <2>1. CASE sock # Nobody
    BY <1>3, <2>1 DEF ServeCheck, files
  <2>2. CASE sock = Nobody
    <3>1. ASSUME ~overlap' PROVE ~overlap /\ \A d \in Proc \ {p} : pc[d] \notin Hidden
      BY <1>3, <2>2, <3>1 DEF ServeCheck
    <3>2. ASSUME ~overlap' PROVE \A d \in Proc \ {p} : ~Alive(d)
      BY <2>2, <3>1, <3>2
    <3>3. pc' = [pc EXCEPT ![p] = "dir"]
      BY <1>3, <2>2 DEF ServeCheck, Goto
    <3>4. QED
      BY <3>2, <3>3
  <2>3. QED
    BY <2>1, <2>2
<1>4. ASSUME NEW p \in Proc, ServeDir(p) PROVE SoleInv'
  BY <1>4 DEF ServeDir, files, ghosts
<1>5. ASSUME NEW p \in Proc, RunUnlink(p) PROVE SoleInv'
  BY <1>5 DEF RunUnlink, files, ghosts
<1>6. ASSUME NEW p \in Proc, RunBind(p) PROVE SoleInv'
  BY <1>6 DEF RunBind, files, ghosts
<1>7. ASSUME NEW p \in Proc, RunListen(p) PROVE SoleInv'
  BY <1>7 DEF RunListen, files, ghosts
<1>8. ASSUME NEW p \in Proc, RunPid(p) PROVE SoleInv'
  BY <1>8 DEF RunPid, files, ghosts
<1>9. ASSUME NEW p \in Proc, RunStart(p) PROVE SoleInv'
  BY <1>9 DEF RunStart, files, ghosts
<1>10. ASSUME NEW p \in Proc, RunStop(p) PROVE SoleInv'
  BY <1>10 DEF RunStop, files, ghosts
<1>22. ASSUME NEW p \in Proc, ServerBreak(p) PROVE SoleInv'
  BY <1>22 DEF ServerBreak, files, ghosts
<1>23. ASSUME NEW p \in Proc, RunDeaf(p) PROVE SoleInv'
  BY <1>23 DEF RunDeaf, files, ghosts
<1>11. ASSUME NEW p \in Proc, RunClose(p) PROVE SoleInv'
  BY <1>11 DEF RunClose, files, ghosts
<1>12. ASSUME NEW p \in Proc, RunUnlinkSock(p) PROVE SoleInv'
  BY <1>12 DEF RunUnlinkSock, End, files, ghosts
<1>13. ASSUME NEW p \in Proc, RunDetach(p) PROVE SoleInv'
  BY <1>13 DEF RunDetach, End, files, ghosts
<1>14. ASSUME NEW p \in Proc, RunUnlinkPid(p) PROVE SoleInv'
  BY <1>14 DEF RunUnlinkPid, End, files, ghosts
<1>15. ASSUME NEW p \in Proc, Lookup(p) PROVE SoleInv'
  BY <1>15 DEF Lookup, files, ghosts
<1>16. ASSUME NEW p \in Proc, Connect(p) PROVE SoleInv'
  BY <1>16 DEF Connect, files, ghosts
<1>17. ASSUME NEW p \in Proc, Return(p) PROVE SoleInv'
  BY <1>17 DEF Return, files, ghosts
<1>18. ASSUME NEW p \in Proc, Kill(p) PROVE SoleInv'
  BY <1>18 DEF Kill, End, files, ghosts
<1>19. ASSUME NEW p \in Proc, Accept(p) \/ HandlerTest(p) \/ HandleRequest(p) \/ Signal(p)
       PROVE  UNCHANGED <<pc, sock, overlap>>
  BY <1>19 DEF Accept, HandlerTest, HandleRequest, Signal, files, ghosts
<1>20. CASE UNCHANGED vars
  BY <1>20, <1>1 DEF vars
<1>21. QED
  BY <1>1, <1>2, <1>3, <1>4, <1>5, <1>6, <1>7, <1>8, <1>9, <1>10, <1>11, <1>12,
     <1>13, <1>14, <1>15, <1>16, <1>17, <1>18, <1>19, <1>20, <1>22, <1>23
     DEF Next, ServeStep, ClientStep, HandlerStep

-----------------------------------------------------------------------------
\* The invariant holds throughout.
LEMMA Invariance == Spec => []IInv
<1>1. IInv /\ [Next]_vars => IInv'
  BY TypeStep, OwnerStep, SoleStep DEF IInv
<1>2. QED
  BY <1>1, InitInv, PTL DEF Spec

\* However many invocations of guardctl run, fail, stop and are killed, the
\* variables keep their types, running_ is set only in a daemon that serves or
\* whose server thread ended with an error, a
\* client waits exactly while it has a connection, and a handler works only in a
\* process that is alive (cli.cpp, daemon.cpp).
THEOREM TypeCorrect == Spec => []TypeOK
BY Invariance, PTL DEF IInv

\* No sequence of starts, failures and stops leaves a socket file or a pid file
\* of a process that is gone, unless it was killed or could not detach: run_serve
\* and Daemon::run clean up on every path.
THEOREM NoStrayFiles == Spec => []FilesOwned
<1>1. IInv => FilesOwned
  BY DEF IInv, OwnerInv, FilesOwned, Alive, SockPoints, PidPoints, Controller,
         Hidden, Listening
<1>2. QED
  BY <1>1, Invariance, PTL

\* The test for the socket file in run_serve keeps controllers apart for any
\* number of invocations, as long as none passes it while another one starts,
\* stops or has lost its server thread.
THEOREM OneController == Spec => []SoleController
<1>1. IInv => SoleController
  BY DEF IInv, SoleInv, SoleController, Alive, Controller, Hidden, Listening
<1>2. QED
  BY <1>1, Invariance, PTL
=============================================================================

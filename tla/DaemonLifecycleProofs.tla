----------------------- MODULE DaemonLifecycleProofs -----------------------
(***************************************************************************)
(* Theorems about DaemonLifecycle for every value of its constants: any    *)
(* number of processes and handler threads, any bounds.                    *)
(***************************************************************************)
EXTENDS DaemonLifecycle, FiniteSetTheorems, TLAPS

\* The program points the actions go to.
LEMMA PointsArePCs ==
    /\ {"lock", "lockRead", "lockUnlink", "lockAgain", "lockWrite"} \subseteq PCs
    /\ {"checkPid", "probePid", "rmPid", "staleLock", "checkSock", "rmSock"} \subseteq PCs
    /\ {"bindCheck", "bindUnlink", "bind", "bound", "writePid"} \subseteq PCs
    /\ {"new", "serving", "raise", "return", "leaving"} \subseteq PCs
    /\ {"failed", "exited", "crashed"} \subseteq PCs
BY DEF PCs, StartPoints, LockPoints, CleanPoints, BindPoints, EndPoints, DeadPoints

LEMMA InitTypeOK == Init => TypeOK
BY LifecycleAssumption, PointsArePCs DEF Init, TypeOK, StopPCs, CliPCs, Threads

\* A jump keeps the program points typed.
LEMMA GotoTypeOK ==
    ASSUME pc \in [Procs -> PCs], NEW p \in Procs, NEW l \in PCs, Goto(p, l)
    PROVE  pc' \in [Procs -> PCs]
BY DEF Goto

\* Each step of start() goes to a point of PCs and keeps the rest typed.
LEMMA StartTypeOK ==
    ASSUME TypeOK, NEW p \in Procs, Start(p) \/ StartStep(p)
    PROVE  TypeOK'
<1> USE PointsArePCs, GotoTypeOK DEF TypeOK, files, proc, stops, clis
<1>1. CASE Start(p)
  BY <1>1 DEF Start
<1>2. CASE LockCreate(p)
  BY <1>2 DEF LockCreate, TryCreate
<1>3. CASE LockRead(p)
  BY <1>3 DEF LockRead
<1>4. CASE LockUnlink(p)
  BY <1>4 DEF LockUnlink
<1>5. CASE LockWrite(p)
  BY <1>5 DEF LockWrite
<1>6. CASE CheckPid(p)
  BY <1>6 DEF CheckPid
<1>7. CASE ProbePid(p)
  BY <1>7 DEF ProbePid
<1>8. CASE RemovePid(p)
  BY <1>8 DEF RemovePid
<1>9. CASE RemoveStaleLock(p)
  BY <1>9 DEF RemoveStaleLock
<1>10. CASE CheckSock(p)
  BY <1>10 DEF CheckSock
<1>11. CASE RemoveSock(p)
  BY <1>11 DEF RemoveSock
<1>12. CASE BindCheck(p)
  BY <1>12 DEF BindCheck
<1>13. CASE Bind(p)
  BY <1>13 DEF Bind
<1>14. CASE SetRunning(p)
  BY <1>14 DEF SetRunning
<1>15. CASE WritePid(p)
  BY <1>15 DEF WritePid
<1>16. CASE AcceptLoopEnds(p)
  BY <1>16 DEF AcceptLoopEnds
<1>17. CASE Finally(p)
  BY <1>17 DEF Finally, ReleaseLock
<1>18. CASE Exit(p)
  BY <1>18 DEF Exit, Threadless, StopPCs
<1> QED
  BY <1>1, <1>2, <1>3, <1>4, <1>5, <1>6, <1>7, <1>8, <1>9, <1>10, <1>11,
     <1>12, <1>13, <1>14, <1>15, <1>16, <1>17, <1>18 DEF StartStep

\* So does a step of a thread in stop(), for its own program points.
LEMMA StopPcTypeOK ==
    ASSUME stopPc \in [Procs -> [Threads -> StopPCs]],
           NEW p \in Procs, NEW t \in Threads, NEW l \in StopPCs,
           stopPc' = [stopPc EXCEPT ![p][t] = l]
    PROVE  stopPc' \in [Procs -> [Threads -> StopPCs]]
<1>1. [stopPc[p] EXCEPT ![t] = l] \in [Threads -> StopPCs]
  OBVIOUS
<1> QED
  BY <1>1

LEMMA StopTypeOK ==
    ASSUME TypeOK, NEW p \in Procs, StopStep(p)
    PROVE  TypeOK'
<1> USE DEF TypeOK, files, proc, stops, clis
<1> USE StopPcTypeOK
<1>0. {"wait", "locked", "flush", "rmPid", "rmSock", "rmLock", "done"} \subseteq StopPCs
  BY DEF StopPCs
<1> PICK t \in Threads : StopCall(p, t) \/ InsideStop(p, t)
  BY DEF StopStep
<1>1. CASE StopSection(p, t)
  <2>1. CASE p \in running
    BY <1>0, <1>1, <2>1 DEF StopSection
  <2>2. CASE p \notin running
    BY <1>0, <1>1, <2>2 DEF StopSection
  <2> QED BY <2>1, <2>2
<1>2. CASE StopFlush(p, t)
  BY <1>0, <1>2 DEF StopFlush
<1>3. CASE StopCleanup(p, t)
  <2>1. CASE stopPc[p][t] = "rmPid"
    BY <1>0, <1>3, <2>1 DEF StopCleanup
  <2>2. CASE stopPc[p][t] = "rmSock"
    BY <1>0, <1>3, <2>2 DEF StopCleanup
  <2>3. CASE stopPc[p][t] = "rmLock"
    BY <1>0, <1>3, <2>3 DEF StopCleanup, ReleaseLock
  <2> QED BY <1>3, <2>1, <2>2, <2>3 DEF StopCleanup
<1>4. CASE StopCall(p, t)
  <2>1. CASE stopLock[p] = NoFile
    BY <1>0, <1>4, <2>1 DEF StopCall
  <2>2. CASE stopLock[p] # NoFile
    BY <1>0, <1>4, <2>2 DEF StopCall
  <2> QED BY <2>1, <2>2
<1>5. CASE StopEnter(p, t)
  BY <1>0, <1>5 DEF StopEnter
<1> QED
  BY <1>1, <1>2, <1>3, <1>4, <1>5 DEF InsideStop

LEMMA DieTypeOK ==
    ASSUME TypeOK, NEW p \in Procs, Die(p)
    PROVE  /\ pc' \in [Procs -> PCs]
           /\ open' \subseteq Procs /\ running' \subseteq Procs /\ holds' \subseteq Procs
           /\ stopPc' \in [Procs -> [Threads -> StopPCs]]
           /\ stopLock' \in [Procs -> Threads \cup {NoFile}]
BY PointsArePCs, GotoTypeOK DEF TypeOK, Die, Threadless, StopPCs

LEMMA OtherTypeOK ==
    ASSUME TypeOK, CliStep \/ (\E p \in Procs : Crash(p)) \/ UNCHANGED vars
    PROVE  TypeOK'
<1> USE DEF TypeOK, CliPCs, files, proc, stops, clis
<1>1. ASSUME NEW p \in Procs, Crash(p)
      PROVE  TypeOK'
  BY <1>1, DieTypeOK DEF Crash
<1>2. CASE CliStop
  BY <1>2 DEF CliStop
<1>3. CASE CliStopUnlink
  BY <1>3 DEF CliStopUnlink
<1>4. CASE CliReset
  BY <1>4 DEF CliReset
<1>5. CASE CliKill
  <2>1. CASE cliPid # NoFile /\ Alive(cliPid)
    BY <1>5, <2>1, DieTypeOK DEF CliKill
  <2>2. CASE ~(cliPid # NoFile /\ Alive(cliPid))
    BY <1>5, <2>2 DEF CliKill
  <2> QED BY <2>1, <2>2
<1>6. CASE CliRemove
  BY <1>6 DEF CliRemove
<1>7. CASE UNCHANGED vars
  BY <1>7 DEF vars
<1> QED
  BY <1>1, <1>2, <1>3, <1>4, <1>5, <1>6, <1>7 DEF CliStep

\* The type invariant: every program point, file owner and thread state the
\* actions of start(), stop() and the CLI produce is one the model names.
THEOREM TypeCorrect == Spec => []TypeOK
<1>1. Init => TypeOK
  BY InitTypeOK
<1>2. TypeOK /\ [Next]_vars => TypeOK'
  BY StartTypeOK, StopTypeOK, OtherTypeOK DEF Next
<1> QED
  BY <1>1, <1>2, PTL DEF Spec
-----------------------------------------------------------------------------
(***************************************************************************)
(* NoLockLeftBehind is not inductive: that a process at its end has no     *)
(* lock depends on what it knew before.  LockOwnership adds that           *)
(* _lock_path is set exactly from the write of the PID to the release, so  *)
(* that whoever's PID is in the file either can still release it or has    *)
(* crashed.                                                                *)
(***************************************************************************)
BeforeLock == {"new", "lock", "lockRead", "lockUnlink", "lockAgain", "lockWrite"}
AfterRelease == {"leaving", "failed", "exited", "crashed"}

LockOwnership ==
    /\ \A p \in Procs : lockFile = p /\ p \in wrote => p \in holds \/ pc[p] = "crashed"
    /\ \A p \in Procs : pc[p] \in BeforeLock => p \notin wrote /\ p \notin holds
    /\ \A p \in Procs : pc[p] \in AfterRelease => p \notin holds

\* Steps that leave the lock file and _lock_path alone and neither start nor
\* end a process.
LEMMA QuietStep ==
    ASSUME TypeOK, LockOwnership, NEW p \in Procs, NEW l \in PCs, Goto(p, l),
           pc[p] \notin BeforeLock, pc[p] \notin AfterRelease,
           l \notin BeforeLock, l \notin AfterRelease,
           UNCHANGED <<lockFile, wrote, holds>>
    PROVE  LockOwnership'
BY DEF TypeOK, LockOwnership, Goto, AfterRelease

LEMMA StartLockOwnership ==
    ASSUME TypeOK, LockOwnership, NEW p \in Procs, Start(p) \/ StartStep(p)
    PROVE  LockOwnership'
<1> USE DEF At, MainFree, Runs, files, proc, stops, clis
<1>1. CASE Start(p)
  BY <1>1 DEF Start, Goto, TypeOK, LockOwnership, BeforeLock, AfterRelease
<1>2. CASE LockCreate(p)
  BY <1>2, LifecycleAssumption
     DEF LockCreate, TryCreate, Goto, TypeOK, LockOwnership, BeforeLock, AfterRelease
<1>3. CASE LockRead(p)
  BY <1>3 DEF LockRead, Goto, TypeOK, LockOwnership, BeforeLock, AfterRelease
<1>4. CASE LockUnlink(p)
  BY <1>4, LifecycleAssumption
     DEF LockUnlink, Goto, TypeOK, LockOwnership, BeforeLock, AfterRelease
<1>5. CASE LockWrite(p)
  BY <1>5 DEF LockWrite, Goto, TypeOK, LockOwnership, BeforeLock, AfterRelease
<1>6. CASE RemoveStaleLock(p)
  BY <1>6, LifecycleAssumption
     DEF RemoveStaleLock, Goto, TypeOK, LockOwnership, BeforeLock, AfterRelease
<1>7. CASE Finally(p)
  BY <1>7, LifecycleAssumption
     DEF Finally, ReleaseLock, Goto, TypeOK, LockOwnership, BeforeLock, AfterRelease
<1>8. CASE Exit(p)
  BY <1>8 DEF Exit, Goto, TypeOK, LockOwnership, BeforeLock, AfterRelease
<1>9. CASE \/ CheckPid(p) \/ ProbePid(p) \/ RemovePid(p) \/ CheckSock(p)
           \/ RemoveSock(p) \/ BindCheck(p) \/ Bind(p) \/ SetRunning(p)
           \/ WritePid(p) \/ AcceptLoopEnds(p)
  <2>1. UNCHANGED <<lockFile, wrote, holds>>
    BY <1>9 DEF CheckPid, ProbePid, RemovePid, CheckSock, RemoveSock, BindCheck,
                Bind, SetRunning, WritePid, AcceptLoopEnds
  <2>2. /\ pc[p] \notin BeforeLock /\ pc[p] \notin AfterRelease
        /\ \E l \in PCs : /\ l \notin BeforeLock /\ l \notin AfterRelease
                          /\ Goto(p, l)
    BY <1>9, PointsArePCs
       DEF CheckPid, ProbePid, RemovePid, CheckSock, RemoveSock, BindCheck,
           Bind, SetRunning, WritePid, AcceptLoopEnds, BeforeLock, AfterRelease
  <2> QED
    BY <2>1, <2>2, QuietStep
<1> QED
  BY <1>1, <1>2, <1>3, <1>4, <1>5, <1>6, <1>7, <1>8, <1>9 DEF StartStep

LEMMA StopLockOwnership ==
    ASSUME TypeOK, LockOwnership, NEW p \in Procs, StopStep(p)
    PROVE  LockOwnership'
<1> USE LifecycleAssumption DEF TypeOK, LockOwnership, files, proc, stops, clis
<1> PICK t \in Threads : StopCall(p, t) \/ InsideStop(p, t)
  BY DEF StopStep
<1>1. CASE StopCall(p, t) \/ StopEnter(p, t) \/ StopSection(p, t)
  BY <1>1 DEF StopCall, StopEnter, StopSection
<1>2. CASE StopFlush(p, t)
  BY <1>2 DEF StopFlush
<1>3. CASE StopCleanup(p, t)
  BY <1>3 DEF StopCleanup, ReleaseLock
<1> QED
  BY <1>1, <1>2, <1>3 DEF InsideStop

LEMMA OtherLockOwnership ==
    ASSUME TypeOK, LockOwnership,
           CliStep \/ (\E p \in Procs : Crash(p)) \/ UNCHANGED vars
    PROVE  LockOwnership'
<1> USE LifecycleAssumption DEF TypeOK, LockOwnership, files, proc, stops, clis
<1>1. ASSUME NEW p \in Procs, Die(p), UNCHANGED <<lockFile, wrote>>
      PROVE  LockOwnership'
  BY <1>1 DEF Die, Goto, BeforeLock, AfterRelease
<1>2. ASSUME NEW p \in Procs, Crash(p)
      PROVE  LockOwnership'
  BY <1>1, <1>2 DEF Crash
<1>3. CASE CliStop \/ CliReset \/ UNCHANGED vars
  BY <1>3 DEF CliStop, CliReset, vars
<1>4. CASE CliStopUnlink \/ CliRemove
  BY <1>4 DEF CliStopUnlink, CliRemove
<1>5. CASE CliKill
  BY <1>1, <1>5 DEF CliKill
<1> QED
  BY <1>2, <1>3, <1>4, <1>5 DEF CliStep

\* An orderly end leaves no lock: every path out of start() and stop(), in any
\* interleaving of starters, stopping threads, crashes and CLI commands,
\* releases the lock this process holds before the process is gone.
THEOREM NoLockLeft == Spec => []NoLockLeftBehind
<1>1. Init => LockOwnership
  BY LifecycleAssumption DEF Init, LockOwnership, BeforeLock, AfterRelease
<1>2. TypeOK /\ LockOwnership /\ [Next]_vars => LockOwnership'
  BY StartLockOwnership, StopLockOwnership, OtherLockOwnership DEF Next
<1>3. LockOwnership => NoLockLeftBehind
  BY DEF LockOwnership, NoLockLeftBehind, AfterRelease
<1> QED
  BY <1>1, <1>2, <1>3, TypeCorrect, PTL DEF Spec

-----------------------------------------------------------------------------
(***************************************************************************)
(* A start that has the state directory to itself.  LoneStartSucceeds is   *)
(* not inductive: that the start meets no refusal depends on what it has   *)
(* found before, and on what a dead process cannot have left.  A file may  *)
(* carry anybody's PID; but nobody else is alive, so no PID in a file is   *)
(* active but perhaps its own, and no socket answers.                      *)
(***************************************************************************)
\* A process that has not begun owns nothing, one that has not bound or is at
\* its end has no socket open.
Unborn ==
    \A p \in Procs : pc[p] = "new" =>
        /\ pidFile # p /\ p \notin wrote
        /\ \A t \in Threads : stopPc[p][t] = "idle"

SocketClosed ==
    \A p \in Procs : pc[p] \in DeadPoints \cup LockPoints \cup {"new", "leaving"}
        => p \notin open

BeforeBind == LockPoints \cup CleanPoints \cup {"bindCheck", "bindUnlink", "bind"}

\* The way of a lone start: the points it can reach, and what it knows there.
LoneWay(p) ==
    /\ pc[p] \in (StartPoints \ {"probePid"}) \cup {"serving", "raise"}
    /\ \A t \in Threads : stopPc[p][t] = "idle"
    /\ pc[p] \in LockPoints => p \notin wrote
    /\ pc[p] \in {"lockRead", "lockUnlink"} => lockFile # NoFile
    /\ pc[p] = "lockAgain" => lockFile = NoFile
    /\ pc[p] \in BeforeBind => pidFile # p /\ p \notin open
    /\ pc[p] \in {"rmSock", "bindUnlink"} => sockFile # NoFile
    /\ pc[p] = "bind" => sockFile = NoFile
    /\ pc[p] \notin BeforeBind => p \in open
    /\ pc[p] \in {"writePid", "serving", "raise"} => p \in running

Lone(p) ==
    /\ cli = "idle"
    /\ \A q \in Procs : q # p => ~Alive(q)
    /\ pc[p] = "crashed" \/ LoneWay(p)

LoneInv == \A p \in alone : Lone(p)

LEMMA LoneStartInit == Init => Unborn /\ SocketClosed /\ LoneInv
BY LifecycleAssumption DEF Init, Unborn, SocketClosed, LoneInv

\* What dead and unborn processes have is nothing that a step can change.
LEMMA ClosedStep ==
    ASSUME TypeOK, Unborn, SocketClosed, [Next]_vars
    PROVE  Unborn' /\ SocketClosed'
<1> USE LifecycleAssumption
    DEF Unborn, SocketClosed, TypeOK, Alive, At, MainFree, Runs, Goto, files, proc, stops, clis,
        StartPoints, LockPoints, CleanPoints, BindPoints, EndPoints, DeadPoints
<1>1. ASSUME NEW p \in Procs, Start(p)
      PROVE  Unborn' /\ SocketClosed'
  BY <1>1 DEF Start
<1>2. ASSUME NEW p \in Procs, StartStep(p)
      PROVE  Unborn' /\ SocketClosed'
  <2>1. CASE LockCreate(p)
    BY <2>1 DEF LockCreate, TryCreate
  <2>2. CASE LockRead(p)
    BY <2>2 DEF LockRead
  <2>3. CASE LockUnlink(p)
    BY <2>3 DEF LockUnlink
  <2>4. CASE LockWrite(p)
    BY <2>4 DEF LockWrite
  <2>5. CASE CheckPid(p)
    BY <2>5 DEF CheckPid
  <2>6. CASE ProbePid(p)
    BY <2>6 DEF ProbePid
  <2>7. CASE RemovePid(p)
    BY <2>7 DEF RemovePid
  <2>8. CASE RemoveStaleLock(p)
    BY <2>8 DEF RemoveStaleLock
  <2>9. CASE CheckSock(p)
    BY <2>9 DEF CheckSock
  <2>10. CASE RemoveSock(p)
    BY <2>10 DEF RemoveSock
  <2>11. CASE BindCheck(p)
    BY <2>11 DEF BindCheck
  <2>12. CASE Bind(p)
    <3>1. pc[p] = "bind" /\ pc' \in {[pc EXCEPT ![p] = "bound"], [pc EXCEPT ![p] = "raise"]}
      BY <2>12 DEF Bind
    <3>2. open' \subseteq open \cup {p} /\ UNCHANGED <<pidFile, wrote, stopPc>>
      BY <2>12 DEF Bind
    <3>3. Unborn'
      BY <3>1, <3>2
    <3>4. SocketClosed'
      <4>1. CASE pc' = [pc EXCEPT ![p] = "bound"]
        BY <3>2, <4>1
      <4>2. CASE pc' = [pc EXCEPT ![p] = "raise"]
        BY <3>1, <3>2, <4>2
      <4> QED  BY <3>1, <4>1, <4>2
    <3> QED  BY <3>3, <3>4
  <2>13. CASE SetRunning(p)
    BY <2>13 DEF SetRunning
  <2>14. CASE WritePid(p)
    BY <2>14 DEF WritePid
  <2>15. CASE AcceptLoopEnds(p)
    BY <2>15 DEF AcceptLoopEnds
  <2>16. CASE Finally(p)
    BY <2>16 DEF Finally, ReleaseLock
  <2>17. CASE Exit(p)
    BY <2>17 DEF Exit, Threadless
  <2> QED
    BY <1>2, <2>1, <2>2, <2>3, <2>4, <2>5, <2>6, <2>7, <2>8, <2>9, <2>10,
       <2>11, <2>12, <2>13, <2>14, <2>15, <2>16, <2>17 DEF StartStep
<1>3. ASSUME NEW p \in Procs, StopStep(p)
      PROVE  Unborn' /\ SocketClosed'
  <2> PICK t \in Threads : StopCall(p, t) \/ InsideStop(p, t)
    BY <1>3 DEF StopStep
  <2>1. CASE StopCall(p, t) \/ StopEnter(p, t) \/ StopSection(p, t)
    <3>1. pc[p] # "new" /\ UNCHANGED <<pidFile, wrote, pc, open>>
      BY <2>1 DEF StopCall, StopEnter, StopSection, Runs
    <3>2. \A q \in Procs : q # p => stopPc'[q] = stopPc[q]
      BY <2>1 DEF StopCall, StopEnter, StopSection
    <3> QED  BY <3>1, <3>2
  <2>2. CASE StopFlush(p, t)
    BY <2>2 DEF StopFlush
  <2>3. CASE StopCleanup(p, t)
    BY <2>3 DEF StopCleanup, ReleaseLock
  <2> QED  BY <2>1, <2>2, <2>3 DEF InsideStop
<1>4. ASSUME NEW p \in Procs, Die(p), Alive(p), UNCHANGED <<pidFile, wrote>>
      PROVE  Unborn' /\ SocketClosed'
  BY <1>4 DEF Die, Threadless
<1>5. ASSUME NEW p \in Procs, Crash(p)
      PROVE  Unborn' /\ SocketClosed'
  BY <1>4, <1>5 DEF Crash
<1>6. CASE CliStep
  <2>1. CASE CliKill
    BY <1>4, <2>1 DEF CliKill
  <2>2. CASE CliStop \/ CliStopUnlink \/ CliReset \/ CliRemove
    BY <2>2 DEF CliStop, CliStopUnlink, CliReset, CliRemove
  <2> QED  BY <1>6, <2>1, <2>2 DEF CliStep
<1>7. CASE UNCHANGED vars
  BY <1>7 DEF vars
<1> QED
  BY <1>1, <1>2, <1>3, <1>5, <1>6, <1>7 DEF Next

\* Of another process nothing stirs while one is alone.
LEMMA OthersAreStill ==
    ASSUME LoneInv, NEW p \in alone, NEW q \in Procs, StartStep(q) \/ StopStep(q) \/ Crash(q)
    PROVE  q = p
BY DEF LoneInv, Lone, StartStep, StopStep, Crash, LockCreate, TryCreate, LockRead, LockUnlink,
       LockWrite, CheckPid, ProbePid, RemovePid, RemoveStaleLock, CheckSock, RemoveSock,
       BindCheck, Bind, SetRunning, WritePid, AcceptLoopEnds, Finally, Exit, At, MainFree, Runs,
       StopCall, InsideStop, StopEnter, StopSection, StopFlush, StopCleanup

\* Nobody else is alive, so no ping is answered before the start has bound.
LEMMA NoAnswer ==
    ASSUME TypeOK, SocketClosed, LoneInv, NEW p \in alone, p \notin open
    PROVE  ~MayAnswer /\ MayTimeOut
<1>1. \A q \in Procs : q # p => q \notin open
  BY DEF LoneInv, Lone, SocketClosed, Alive
<1> QED  BY <1>1 DEF MayAnswer, MayTimeOut, TypeOK

\* Neither is the PID in the lock file that of a living process.
LEMMA LockIsLeftOver ==
    ASSUME TypeOK, LoneInv, NEW p \in alone, p \notin wrote
    PROVE  LockIsStale
BY DEF LoneInv, Lone, LockIsStale, TypeOK

\* Each step of the lone start leads further on its way.
LEMMA LoneStep ==
    ASSUME TypeOK, SocketClosed, LoneInv, NEW p \in alone, p \in Procs, StartStep(p)
    PROVE  LoneWay(p)'
<1>0. LoneWay(p)
  BY DEF LoneInv, Lone, StartStep, LockCreate, TryCreate, LockRead, LockUnlink,
       LockWrite, CheckPid, ProbePid, RemovePid, RemoveStaleLock, CheckSock, RemoveSock,
       BindCheck, Bind, SetRunning, WritePid, AcceptLoopEnds, Finally, Exit, At, MainFree, Runs,
       Alive, DeadPoints
<1> USE <1>0, LifecycleAssumption
    DEF LoneWay, TypeOK, At, MainFree, Runs, Goto, files, proc, stops, clis, BeforeBind,
        StartPoints, LockPoints, CleanPoints, BindPoints
<1>1. CASE LockCreate(p)
  BY <1>1 DEF LockCreate, TryCreate
<1>2. CASE LockRead(p)
  BY <1>2, LockIsLeftOver DEF LockRead
<1>3. CASE LockUnlink(p)
  BY <1>3 DEF LockUnlink
<1>4. CASE LockWrite(p)
  BY <1>4 DEF LockWrite
<1>5. CASE CheckPid(p)
  BY <1>5 DEF CheckPid, LoneInv, Lone, Alive, DeadPoints
<1>6. CASE RemovePid(p)
  BY <1>6, NoAnswer DEF RemovePid
<1>7. CASE RemoveStaleLock(p)
  BY <1>7 DEF RemoveStaleLock
<1>8. CASE CheckSock(p)
  BY <1>8, NoAnswer DEF CheckSock
<1>9. CASE RemoveSock(p)
  BY <1>9 DEF RemoveSock
<1>10. CASE BindCheck(p)
  BY <1>10, NoAnswer DEF BindCheck
<1>11. CASE Bind(p)
  BY <1>11 DEF Bind
<1>12. CASE SetRunning(p)
  BY <1>12 DEF SetRunning
<1>13. CASE WritePid(p)
  BY <1>13 DEF WritePid
<1>14. CASE ProbePid(p) \/ AcceptLoopEnds(p) \/ Finally(p) \/ Exit(p)
  BY <1>14 DEF ProbePid, AcceptLoopEnds, Finally, Exit
<1> QED
  BY <1>1, <1>2, <1>3, <1>4, <1>5, <1>6, <1>7, <1>8, <1>9, <1>10, <1>11, <1>12,
     <1>13, <1>14 DEF StartStep

LEMMA LoneInvStep ==
    ASSUME TypeOK, Unborn, SocketClosed, LoneInv, [Next]_vars
    PROVE  LoneInv'
<1> SUFFICES ASSUME NEW q \in alone' PROVE Lone(q)'
  BY DEF LoneInv
<1> USE DEF files, proc, stops, clis
<1>1. ASSUME NEW p \in Procs, Start(p)
      PROVE  Lone(q)'
  <2>1. q = p /\ cli' = "idle" /\ \A r \in Procs : ~Alive(r)
    BY <1>1 DEF Start
  <2>2. \A r \in Procs : r # p => ~Alive(r)'
    BY <1>1, <2>1 DEF Start, Goto, Alive, TypeOK
  <2>3. p \notin open /\ pidFile # p /\ p \notin wrote
    BY <1>1 DEF Start, Unborn, SocketClosed
  <2>4. LoneWay(p)'
    BY <1>1, <2>3 DEF Start, Goto, TypeOK, LoneWay, Unborn, BeforeBind, StartPoints,
                      LockPoints, CleanPoints, BindPoints
  <2> QED  BY <2>1, <2>2, <2>4 DEF Lone
<1>2. ASSUME NEW p \in Procs, StartStep(p)
      PROVE  Lone(q)'
  <2>1. UNCHANGED <<alone, cli>> /\ \E l \in PCs : Goto(p, l)
    BY <1>2, PointsArePCs
       DEF StartStep, LockCreate, TryCreate, LockRead, LockUnlink, LockWrite, CheckPid,
           ProbePid, RemovePid, RemoveStaleLock, CheckSock, RemoveSock, BindCheck, Bind,
           SetRunning, WritePid, AcceptLoopEnds, Finally, Exit
  <2>2. q = p
    BY <1>2, <2>1, OthersAreStill
  <2>3. \A r \in Procs : r # q => ~Alive(r)'
    BY <2>1, <2>2 DEF LoneInv, Lone, Goto, Alive, TypeOK
  <2> QED  BY <1>2, <2>1, <2>2, <2>3, LoneStep DEF Lone, LoneInv
<1>3. ASSUME NEW p \in Procs, StopStep(p)
      PROVE  Lone(q)'
  <2> PICK t \in Threads : StopCall(p, t) \/ InsideStop(p, t)
    BY <1>3 DEF StopStep
  <2>1. q \in alone /\ q = p
    BY <1>3, OthersAreStill
       DEF StopCall, InsideStop, StopEnter, StopSection, StopFlush, StopCleanup
  <2>2. ~StopCall(p, t)
    BY <2>1 DEF StopCall
  <2>3. stopPc[p][t] # "idle" /\ pc[p] # "crashed"
    BY <2>2 DEF InsideStop, StopEnter, StopSection, StopFlush, StopCleanup, Runs, Alive,
                DeadPoints
  <2> QED  BY <2>1, <2>3 DEF LoneInv, Lone, LoneWay
<1>4. ASSUME NEW p \in Procs, Crash(p)
      PROVE  Lone(q)'
  <2>1. q \in alone /\ q = p
    BY <1>4, OthersAreStill DEF Crash
  <2> QED  BY <1>4, <2>1 DEF Crash, Die, Goto, Lone, LoneInv, Alive, TypeOK
<1>5. CASE CliStep
  <2>1. CASE CliStop \/ CliReset
    BY <2>1 DEF CliStop, CliReset
  <2>2. CASE CliStopUnlink \/ CliKill \/ CliRemove
    BY <2>2 DEF CliStopUnlink, CliKill, CliRemove, LoneInv, Lone
  <2> QED  BY <1>5, <2>1, <2>2 DEF CliStep
<1>6. CASE UNCHANGED vars
  BY <1>6 DEF vars, LoneInv, Lone, LoneWay, Alive
<1> QED
  BY <1>1, <1>2, <1>3, <1>4, <1>5, <1>6 DEF Next

\* Whatever a crash has left, and in whatever combination, a start that has the
\* state directory to itself never ends in a refusal: for any processes that
\* start, stop, crash or are reset before it or cut into it.
THEOREM LoneStartRuns == Spec => []LoneStartSucceeds
<1>1. Init => Unborn /\ SocketClosed /\ LoneInv
  BY LoneStartInit
<1>2. TypeOK /\ Unborn /\ SocketClosed /\ LoneInv /\ [Next]_vars
        => Unborn' /\ SocketClosed' /\ LoneInv'
  BY ClosedStep, LoneInvStep
<1>3. LoneInv => LoneStartSucceeds
  BY DEF LoneInv, Lone, LoneWay, LoneStartSucceeds, StartPoints, LockPoints, CleanPoints, BindPoints
<1> QED
  BY <1>1, <1>2, <1>3, TypeCorrect, PTL DEF Spec

-----------------------------------------------------------------------------
(***************************************************************************)
(* What the lock, the PID file and the socket guarantee when starts do not *)
(* overlap one another and a daemon is stopped by one signal while it      *)
(* serves: for any number of processes, any number of crashes at any       *)
(* point, and a socket that answers or not.                                *)
(***************************************************************************)

Sequential ==
    /\ MaxStarting = 1
    /\ Handlers = {} /\ SignalInStop = FALSE
    /\ SignalPoints \subseteq {"serving"}
    /\ MaxCli = 0

\* Where a process relies on the lock: LockCoversLife with one thread.
Guarded == CleanPoints \cup BindPoints \cup {"writePid"}
Critical(p) ==
    \/ pc[p] \in Guarded
    \/ p \in running
    \/ Alive(p) /\ stopPc[p][Main] \notin {"idle", "done"}

\* LockCoversLife and ServingReachable are not inductive.  SeqInv adds why no
\* other process can be between the lock and the files: one starter at a time,
\* a lock about to be unlinked is stale, and the states of start() and stop()
\* in which _running, the socket and the lock go together.
CriticalHasLock == \A p \in Procs : Critical(p) => lockFile = p /\ p \in wrote
ServerHasFiles ==
    \A p \in Procs : pc[p] = "serving" /\ p \in running => sockFile = p /\ pidFile = p
OneStarting == \A p, q \in Procs : pc[p] \in StartPoints /\ pc[q] \in StartPoints => p = q
LockSteps ==
    /\ \A p \in Procs : pc[p] \in BeforeLock => p \notin wrote
    /\ \A p \in Procs : pc[p] = "lockWrite" => lockFile = p
    /\ \A p \in Procs : pc[p] = "lockUnlink" /\ lockFile # NoFile => LockIsStale
BoundHasSocket == \A p \in Procs : pc[p] \in {"bound", "writePid"} => sockFile = p
StopBegins == {"idle", "wait", "locked"}    \* before _running is cleared
StopSteps ==
    /\ \A p \in Procs : p \in running =>
            /\ pc[p] \in {"writePid", "serving", "raise", "return"}
            /\ stopPc[p][Main] \in StopBegins
    /\ \A p \in Procs : stopPc[p][Main] # "idle" =>
            /\ pc[p] \in {"serving"} \cup EndPoints \cup DeadPoints
            /\ stopPc[p][Main] \in StopBegins => p \in running
    /\ \A p \in Procs : pc[p] \in {"writePid", "serving"} /\ stopPc[p][Main] = "idle"
            => p \in running
    /\ \A p \in Procs : stopPc[p][Again] = "idle"

SeqInv ==
    /\ CriticalHasLock /\ ServerHasFiles /\ OneStarting /\ LockSteps
    /\ BoundHasSocket /\ StopSteps
    /\ cli = "idle"

LEMMA SeqInit == Init => SeqInv
BY LifecycleAssumption
   DEF Init, SeqInv, CriticalHasLock, ServerHasFiles, OneStarting,
       LockSteps, BoundHasSocket, StopSteps, StopBegins, Critical, Guarded, Alive, StartPoints, LockPoints, CleanPoints,
       BindPoints, BeforeLock, Threads, DeadPoints

\* With the bound at 1, a process starts only when no other one is starting.
LEMMA OneStarter ==
    ASSUME MaxStarting = 1, NEW p \in Procs, Start(p)
    PROVE  \A q \in Procs : pc[q] \notin StartPoints
<1>1. IsFiniteSet(Starting)
  BY LifecycleAssumption, FS_Subset DEF Starting
<1>2. Cardinality(Starting) \in Nat /\ Cardinality(Starting) < 1
  BY <1>1, FS_CardinalityType DEF Start
<1>3. Starting = {}
  BY <1>1, <1>2, FS_EmptySet
<1> QED
  BY <1>3 DEF Starting

LEMMA SeqStart ==
    ASSUME Sequential, TypeOK, SeqInv, NEW p \in Procs, Start(p)
    PROVE  SeqInv'
<1>1. OneStarting'
  <2>1. pc' = [pc EXCEPT ![p] = "lock"]
    BY DEF Start, Goto
  <2> QED
    BY <2>1, OneStarter DEF OneStarting, TypeOK, Sequential
<1> USE DEF Start, Goto, SeqInv, CriticalHasLock, ServerHasFiles, OneStarting,
        LockSteps, BoundHasSocket, StopSteps, StopBegins, Critical, Guarded, Alive, LockIsStale, TypeOK,
   StartPoints, LockPoints, CleanPoints, BindPoints, EndPoints, BeforeLock, DeadPoints,
   files, proc, stops, clis, Threads
<1>2. CriticalHasLock'
  OBVIOUS
<1>3. ServerHasFiles' /\ BoundHasSocket' /\ (cli = "idle")'
  OBVIOUS
<1>4. LockSteps'
  OBVIOUS
<1>5. StopSteps'
  OBVIOUS
<1> QED
  BY <1>1, <1>2, <1>3, <1>4, <1>5

LEMMA SeqStartStep ==
    ASSUME Sequential, TypeOK, SeqInv, NEW p \in Procs, StartStep(p)
    PROVE  SeqInv'
<1> USE LifecycleAssumption
    DEF At, MainFree, Runs, Goto, SeqInv, CriticalHasLock, ServerHasFiles, OneStarting,
        LockSteps, BoundHasSocket, StopSteps, StopBegins, Critical, Guarded, Alive, LockIsStale, TypeOK,
        StartPoints, LockPoints, CleanPoints, BindPoints, EndPoints, BeforeLock,
        DeadPoints, files, proc, stops, clis, Threads
<1>2. CASE LockCreate(p)
  <2>1. CriticalHasLock'
    BY <1>2 DEF LockCreate, TryCreate
  <2>2. ServerHasFiles' /\ BoundHasSocket' /\ (cli = "idle")'
    BY <1>2 DEF LockCreate, TryCreate
  <2>3. OneStarting'
    BY <1>2 DEF LockCreate, TryCreate
  <2>4. LockSteps'
    BY <1>2 DEF LockCreate, TryCreate
  <2>5. StopSteps'
    BY <1>2 DEF LockCreate, TryCreate
  <2> QED
    BY <2>1, <2>2, <2>3, <2>4, <2>5
<1>3. CASE LockRead(p)
  BY <1>3 DEF LockRead
<1>4. CASE LockUnlink(p)
  BY <1>4 DEF LockUnlink
<1>5. CASE LockWrite(p)
  BY <1>5 DEF LockWrite
<1>6. CASE CheckPid(p)
  BY <1>6 DEF CheckPid
<1>7. CASE ProbePid(p)
  BY <1>7 DEF ProbePid
<1>8. CASE RemovePid(p)
  BY <1>8 DEF RemovePid
<1>9. CASE RemoveStaleLock(p)
  BY <1>9 DEF RemoveStaleLock
<1>10. CASE CheckSock(p)
  BY <1>10 DEF CheckSock
<1>11. CASE RemoveSock(p)
  <2>1. CASE pc[p] = "rmSock"
    BY <1>11, <2>1 DEF RemoveSock
  <2>2. CASE pc[p] = "bindUnlink"
    BY <1>11, <2>2 DEF RemoveSock
  <2> QED
    BY <1>11, <2>1, <2>2 DEF RemoveSock
<1>12. CASE BindCheck(p)
  BY <1>12 DEF BindCheck
<1>13. CASE Bind(p)
  <2>1. CriticalHasLock'
    BY <1>13 DEF Bind
  <2>2. ServerHasFiles' /\ BoundHasSocket' /\ (cli = "idle")'
    BY <1>13 DEF Bind
  <2>3. OneStarting'
    BY <1>13 DEF Bind
  <2>4. LockSteps'
    BY <1>13 DEF Bind
  <2>5. StopSteps'
    BY <1>13 DEF Bind
  <2> QED
    BY <2>1, <2>2, <2>3, <2>4, <2>5
<1>14. CASE SetRunning(p)
  BY <1>14 DEF SetRunning
<1>15. CASE WritePid(p)
  <2>1. CriticalHasLock'
    BY <1>15 DEF WritePid
  <2>2. ServerHasFiles' /\ BoundHasSocket' /\ (cli = "idle")'
    BY <1>15 DEF WritePid
  <2>3. OneStarting'
    BY <1>15 DEF WritePid
  <2>4. LockSteps'
    BY <1>15 DEF WritePid
  <2>5. StopSteps'
    <3>1. CASE pc' = [pc EXCEPT ![p] = "serving"]
      BY <1>15, <3>1 DEF WritePid
    <3>2. CASE pc' = [pc EXCEPT ![p] = "raise"]
      BY <1>15, <3>2 DEF WritePid
    <3> QED
      BY <1>15, <3>1, <3>2 DEF WritePid
  <2> QED
    BY <2>1, <2>2, <2>3, <2>4, <2>5
<1>16. CASE AcceptLoopEnds(p)
  BY <1>16 DEF AcceptLoopEnds
<1>17. CASE Finally(p)
  BY <1>17 DEF Finally, ReleaseLock
<1>18. CASE Exit(p)
  BY <1>18 DEF Exit, Threadless
<1> QED
  BY <1>2, <1>3, <1>4, <1>5, <1>6, <1>7, <1>8, <1>9, <1>10, <1>11,
     <1>12, <1>13, <1>14, <1>15, <1>16, <1>17, <1>18 DEF StartStep

LEMMA SeqStopStep ==
    ASSUME Sequential, TypeOK, SeqInv, NEW p \in Procs, StopStep(p)
    PROVE  SeqInv'
<1> USE LifecycleAssumption
    DEF SeqInv, CriticalHasLock, ServerHasFiles, OneStarting, LockSteps,
        BoundHasSocket, StopSteps, StopBegins, Critical, Guarded, Alive, LockIsStale, TypeOK,
        StartPoints, LockPoints, CleanPoints, BindPoints, EndPoints, BeforeLock,
        DeadPoints, files, proc, stops, clis, Threads, Main, Again
<1>0. StopCall(p, Main) \/ InsideStop(p, Main)
  <2>1. stopPc[p][Again] = "idle" /\ ~MayCallStop(p, Again)
    BY DEF MayCallStop, Sequential
  <2>2. ~StopCall(p, Again) /\ ~InsideStop(p, Again)
    BY <2>1 DEF StopCall, InsideStop, StopEnter, StopSection, StopFlush, StopCleanup
  <2> QED
    BY <2>2 DEF StopStep, Sequential
<1>1. CASE StopCall(p, Main)
  <2>1. pc[p] \in {"serving", "raise", "return"} /\ p \in running
    BY <1>1 DEF StopCall, MayCallStop, Sequential
  <2>2. \E l \in {"wait", "locked"} : stopPc' = [stopPc EXCEPT ![p][Main] = l]
    BY <1>1 DEF StopCall
  <2>3. UNCHANGED <<lockFile, sockFile, pidFile, wrote, pc, running, cli>>
    BY <1>1 DEF StopCall
  <2> QED
    BY <2>1, <2>2, <2>3
<1>4. CASE StopEnter(p, Main)
  BY <1>4 DEF StopEnter
<1>5. CASE StopSection(p, Main)
  <2>1. /\ p \in running /\ stopPc[p][Main] = "locked"
        /\ pc[p] \in {"serving", "raise", "return"}
    BY <1>5 DEF StopSection
  <2>2. running' = running \ {p} /\ stopPc' = [stopPc EXCEPT ![p][Main] = "flush"]
    BY <1>5, <2>1 DEF StopSection
  <2>3. UNCHANGED <<lockFile, sockFile, pidFile, wrote, pc, cli>>
    BY <1>5 DEF StopSection
  <2>4. StopSteps'
    BY <2>1, <2>2, <2>3
  <2>5. CriticalHasLock'
    BY <2>1, <2>2, <2>3
  <2> QED
    BY <2>2, <2>3, <2>4, <2>5
<1>2. CASE StopFlush(p, Main)
  <2>1. p \notin running /\ stopPc[p][Main] = "flush"
    BY <1>2 DEF StopFlush
  <2>2. stopPc' = [stopPc EXCEPT ![p][Main] = "rmPid"]
    BY <1>2 DEF StopFlush
  <2>3. UNCHANGED <<lockFile, sockFile, pidFile, wrote, pc, running, cli>>
    BY <1>2 DEF StopFlush
  <2> QED
    BY <2>1, <2>2, <2>3
<1>3. CASE StopCleanup(p, Main)
  <2>1. /\ p \notin running /\ stopPc[p][Main] \in {"rmPid", "rmSock", "rmLock"}
        /\ pc[p] \in {"serving"} \cup EndPoints
        /\ lockFile = p /\ p \in wrote
    BY <1>3 DEF StopCleanup, Runs
  <2>2. UNCHANGED <<wrote, pc, running, cli>>
    BY <1>3 DEF StopCleanup
  <2>3. \A q \in Procs : q # p => q \notin running /\ pc[q] \notin Guarded
    BY <2>1
  <2>4. PICK l \in {"rmSock", "rmLock", "done"} :
            /\ stopPc' = [stopPc EXCEPT ![p][Main] = l]
            /\ l # "done" => lockFile' = lockFile
            /\ lockFile' \in {lockFile, NoFile}
    BY <1>3 DEF StopCleanup, ReleaseLock
  <2>5. CriticalHasLock'
    BY <2>1, <2>2, <2>3, <2>4
  <2>6. ServerHasFiles' /\ BoundHasSocket' /\ (cli = "idle")'
    BY <2>1, <2>2, <2>3
  <2>7. OneStarting' /\ LockSteps'
    BY <2>1, <2>2, <2>4
  <2>8. StopSteps'
    BY <2>1, <2>2, <2>4
  <2> QED
    BY <2>5, <2>6, <2>7, <2>8
<1> QED
  BY <1>0, <1>1, <1>2, <1>3, <1>4, <1>5 DEF InsideStop

LEMMA SeqOther ==
    ASSUME Sequential, TypeOK, SeqInv,
           CliStep \/ (\E p \in Procs : Crash(p)) \/ UNCHANGED vars
    PROVE  SeqInv'
<1> USE LifecycleAssumption
    DEF SeqInv, CriticalHasLock, ServerHasFiles, OneStarting, LockSteps,
        BoundHasSocket, StopSteps, StopBegins, Critical, Guarded, Alive, LockIsStale, TypeOK,
        StartPoints, LockPoints, CleanPoints, BindPoints, EndPoints, BeforeLock,
        DeadPoints, files, proc, stops, clis, Threads
<1>1. ASSUME NEW p \in Procs, Crash(p)
      PROVE  SeqInv'
  BY <1>1 DEF Crash, Die, Goto, Threadless
<1>2. ~CliStep
  BY DEF Sequential, CliStep, CliStop, CliStopUnlink, CliReset, CliKill, CliRemove
<1>3. CASE UNCHANGED vars
  BY <1>3 DEF vars
<1> QED
  BY <1>1, <1>2, <1>3

LEMMA SeqInvariant ==
    ASSUME Sequential
    PROVE  Spec => []SeqInv
<1>1. Init => SeqInv
  BY SeqInit
<1>2. TypeOK /\ SeqInv /\ [Next]_vars => SeqInv'
  BY SeqStart, SeqStartStep, SeqStopStep, SeqOther DEF Next
<1> QED
  BY <1>1, <1>2, TypeCorrect, PTL DEF Spec

\* In the sequential environment the start-up lock is a daemon's own from
\* before it touches the shared files until the last of them is unlinked.
THEOREM SequentialDaemon ==
    ASSUME Sequential
    PROVE  Spec => []LockCoversLife
<1>1. SeqInv => LockCoversLife
  BY DEF Sequential, SeqInv, CriticalHasLock, StopSteps, LockCoversLife,
         Critical, Guarded, InStop, Threads
<1> QED
  BY <1>1, SeqInvariant, PTL

\* And a daemon that serves is the one that daemon.sock and daemon.pid lead to.
THEOREM ServersAreFound ==
    ASSUME Sequential
    PROVE  Spec => []ServingReachable
<1>1. SeqInv => ServingReachable
  BY DEF SeqInv, ServerHasFiles, ServingReachable
<1> QED
  BY <1>1, SeqInvariant, PTL

-----------------------------------------------------------------------------
(***************************************************************************)
(* What is left of this when several threads stop a daemon: a client's     *)
(* shutdown message, the idle checker and a signal, in any number.  A      *)
(* second stop() may release the lock while the first one is still at its  *)
(* clean-up, and the first then unlinks the files of a successor; but the  *)
(* lock still keeps two daemons from running at the same time.             *)
(***************************************************************************)
OneStartAtATime ==
    /\ MaxStarting = 1
    /\ SignalPoints \subseteq {"serving"}
    /\ MaxCli = 0

ServiceHasLock ==
    \A p \in Procs : pc[p] \in Guarded \/ p \in running => lockFile = p /\ p \in wrote

\* A thread reaches stop() when start() has ended in service, and past the
\* section under _stop_lock _running is cleared for good.
StoppedForGood ==
    /\ \A p \in running : pc[p] \in {"writePid", "serving", "raise", "return"}
    /\ \A p \in Procs : \A t \in Threads :
           stopPc[p][t] # "idle" =>
               /\ pc[p] \in {"serving"} \cup EndPoints \cup DeadPoints
               /\ stopPc[p][t] \notin {"wait", "locked"} => p \notin running

ServiceInv ==
    /\ ServiceHasLock /\ OneStarting /\ LockSteps /\ StoppedForGood
    /\ cli = "idle"

LEMMA ServiceInit == Init => ServiceInv
BY LifecycleAssumption
   DEF Init, ServiceInv, ServiceHasLock, OneStarting, LockSteps, StoppedForGood, Guarded,
       StartPoints, LockPoints, CleanPoints, BindPoints, BeforeLock, Threads

LEMMA ServiceStart ==
    ASSUME OneStartAtATime, TypeOK, ServiceInv, NEW p \in Procs, Start(p)
    PROVE  ServiceInv'
<1>1. pc' = [pc EXCEPT ![p] = "lock"]
  BY DEF Start, Goto
<1>2. OneStarting'
  BY <1>1, OneStarter DEF OneStarting, TypeOK, OneStartAtATime
<1> USE DEF Start, Goto, ServiceInv, ServiceHasLock, LockSteps, StoppedForGood, Guarded,
        Alive, LockIsStale, TypeOK, StartPoints, LockPoints, CleanPoints, BindPoints,
        EndPoints, BeforeLock, DeadPoints, files, stops, clis
<1>3. ServiceHasLock' /\ (cli = "idle")'
  OBVIOUS
<1>4. LockSteps'
  BY LifecycleAssumption
<1>5. StoppedForGood'
  OBVIOUS
<1> QED
  BY <1>2, <1>3, <1>4, <1>5

\* A step of a starter that holds the lock and changes neither lock nor stop().
LEMMA GuardedStep ==
    ASSUME TypeOK, ServiceInv, NEW p \in Procs,
           pc[p] \in Guarded, pc[p] \notin {"bound", "writePid"},
           NEW l \in Guarded \cup {"raise"}, pc' = [pc EXCEPT ![p] = l],
           UNCHANGED <<lockFile, wrote, running, stopPc, cli>>
    PROVE  ServiceInv'
<1> USE LifecycleAssumption
    DEF ServiceInv, Guarded, Alive, LockIsStale, TypeOK, StartPoints, LockPoints,
        CleanPoints, BindPoints, EndPoints, BeforeLock, DeadPoints
<1>1. ServiceHasLock' /\ (cli = "idle")'
  BY DEF ServiceHasLock
<1>2. OneStarting'
  BY DEF OneStarting
<1>3. LockSteps'
  BY DEF LockSteps
<1>4. StoppedForGood'
  BY DEF StoppedForGood
<1> QED
  BY <1>1, <1>2, <1>3, <1>4

LEMMA ServiceStartStep ==
    ASSUME OneStartAtATime, TypeOK, ServiceInv, NEW p \in Procs, StartStep(p)
    PROVE  ServiceInv'
<1>6. CASE ProbePid(p) \/ RemovePid(p) \/ CheckSock(p) \/ RemoveSock(p) \/ BindCheck(p) \/ Bind(p)
  <2> USE DEF ProbePid, RemovePid, CheckSock, RemoveSock, BindCheck, Bind
  <2>1. pc[p] \in Guarded /\ pc[p] \notin {"bound", "writePid"}
    BY <1>6 DEF At, Guarded, CleanPoints, BindPoints
  <2>2. PICK l \in Guarded \cup {"raise"} : pc' = [pc EXCEPT ![p] = l]
    BY <1>6 DEF Goto, Guarded, CleanPoints, BindPoints
  <2>3. UNCHANGED <<lockFile, wrote, running, stopPc, cli>>
    BY <1>6 DEF files, stops, clis
  <2> QED
    BY <2>1, <2>2, <2>3, GuardedStep
<1> USE LifecycleAssumption
    DEF At, MainFree, Runs, Goto, ServiceInv, ServiceHasLock, OneStarting, LockSteps,
        StoppedForGood, Guarded, Alive, LockIsStale, TypeOK, StartPoints, LockPoints,
        CleanPoints, BindPoints, EndPoints, BeforeLock, DeadPoints, files, stops, clis
<1>1. CASE LockCreate(p)
  <2>0. pc[p] \in {"lock", "lockAgain"} /\ p \notin running
    BY <1>1 DEF LockCreate, TryCreate
  <2>1. ServiceHasLock' /\ (cli = "idle")'
    BY <1>1, <2>0 DEF LockCreate, TryCreate
  <2>2. OneStarting'
    BY <1>1 DEF LockCreate, TryCreate
  <2>3. LockSteps'
    <3>1. PICK l \in {"lockWrite", "lockRead", "failed"} :
              /\ pc' = [pc EXCEPT ![p] = l]
              /\ l = "lockWrite" => lockFile' = p
              /\ l # "lockWrite" => lockFile' = lockFile
      BY <1>1 DEF LockCreate, TryCreate
    <3>2. wrote' = wrote
      BY <1>1 DEF LockCreate, TryCreate
    <3>3. \A q \in Procs : pc'[q] \in {"lockUnlink", "lockWrite"} => q = p
      BY <2>0, <3>1
    <3>4. \A q \in Procs : pc'[q] \in BeforeLock => q \notin wrote
      BY <2>0, <3>1
    <3>5. \A q \in Procs : pc'[q] = "lockWrite" => lockFile' = q
      BY <3>1, <3>3
    <3>6. \A q \in Procs : pc'[q] # "lockUnlink"
      BY <3>1, <3>3
    <3> QED
      BY <3>2, <3>4, <3>5, <3>6
  <2>4. StoppedForGood'
    <3>1. UNCHANGED <<running, stopPc>> /\ \E l \in PCs : pc' = [pc EXCEPT ![p] = l]
      BY <1>1 DEF LockCreate, TryCreate, PCs
    <3>2. \A t \in Threads : stopPc[p][t] = "idle"
      BY <2>0
    <3> QED
      BY <2>0, <3>1, <3>2
  <2> QED
    BY <2>1, <2>2, <2>3, <2>4
<1>2. CASE LockRead(p)
  BY <1>2 DEF LockRead
<1>3. CASE LockUnlink(p)
  BY <1>3 DEF LockUnlink
<1>4. CASE LockWrite(p)
  BY <1>4 DEF LockWrite
<1>5. CASE CheckPid(p)
  BY <1>5 DEF CheckPid
<1>8. CASE RemoveStaleLock(p)
  BY <1>8 DEF RemoveStaleLock
<1>13. CASE SetRunning(p)
  BY <1>13 DEF SetRunning
<1>14. CASE WritePid(p)
  <2>1. pc[p] = "writePid"
    BY <1>14 DEF WritePid
  <2>2. \E l \in {"serving", "raise"} : pc' = [pc EXCEPT ![p] = l]
    BY <1>14 DEF WritePid
  <2>3. UNCHANGED <<lockFile, wrote, running, stopPc, cli>>
    BY <1>14 DEF WritePid
  <2> QED
    BY <2>1, <2>2, <2>3
<1>15. CASE AcceptLoopEnds(p)
  BY <1>15 DEF AcceptLoopEnds
<1>16. CASE Finally(p)
  <2>1. pc[p] \in {"raise", "return"} /\ p \notin running
    BY <1>16 DEF Finally
  <2>2. \E l \in {"failed", "leaving"} : pc' = [pc EXCEPT ![p] = l]
    BY <1>16 DEF Finally
  <2>3. lockFile' \in {lockFile, NoFile} /\ (lockFile' # lockFile => lockFile = p)
    BY <1>16 DEF Finally, ReleaseLock
  <2>4. UNCHANGED <<wrote, running, stopPc, cli>>
    BY <1>16 DEF Finally
  <2> QED
    BY <2>1, <2>2, <2>3, <2>4
<1>17. CASE Exit(p)
  BY <1>17 DEF Exit, Threadless
<1> QED
  BY <1>1, <1>2, <1>3, <1>4, <1>5, <1>6, <1>8, <1>13, <1>14, <1>15, <1>16,
     <1>17 DEF StartStep

LEMMA ServiceStopStep ==
    ASSUME OneStartAtATime, TypeOK, ServiceInv, NEW p \in Procs, StopStep(p)
    PROVE  ServiceInv'
<1>0. PICK t \in Threads : StopCall(p, t) \/ InsideStop(p, t)
  BY DEF StopStep
<1> USE LifecycleAssumption
    DEF ServiceInv, ServiceHasLock, OneStarting, LockSteps, StoppedForGood, Guarded, Alive,
        LockIsStale, TypeOK, StartPoints, LockPoints, CleanPoints, BindPoints, EndPoints,
        BeforeLock, DeadPoints, files, proc, clis
<1>1. CASE StopCall(p, t)
  <2>1. pc[p] \in {"serving", "raise", "return", "leaving"}
    BY <1>1 DEF StopCall, MayCallStop, OneStartAtATime, Runs, Threads
  <2>2. \E l \in {"wait", "locked"} : stopPc' = [stopPc EXCEPT ![p][t] = l]
    BY <1>1 DEF StopCall
  <2>3. UNCHANGED <<lockFile, wrote, pc, running, cli>>
    BY <1>1 DEF StopCall
  <2> QED
    BY <2>1, <2>2, <2>3
<1>4. CASE StopEnter(p, t)
  BY <1>4 DEF StopEnter
<1>5. CASE StopSection(p, t)
  BY <1>5 DEF StopSection
<1>2. CASE StopFlush(p, t)
  BY <1>2 DEF StopFlush
<1>3. CASE StopCleanup(p, t)
  <2>1. stopPc[p][t] # "idle" /\ p \notin running /\ pc[p] \notin Guarded
    BY <1>3 DEF StopCleanup
  <2>2. \A q \in Procs, u \in Threads : stopPc'[q][u] # "idle" =>
            stopPc[q][u] # "idle" /\ (q = p \/ stopPc'[q][u] = stopPc[q][u])
    BY <1>3, <2>1 DEF StopCleanup
  <2>3. lockFile' \in {lockFile, NoFile} /\ (lockFile' # lockFile => lockFile = p)
    BY <1>3 DEF StopCleanup, ReleaseLock
  <2>4. UNCHANGED <<wrote, pc, running, cli>>
    BY <1>3 DEF StopCleanup
  <2>5. ServiceHasLock'
    BY <2>1, <2>3, <2>4
  <2>6. LockSteps'
    BY <2>1, <2>3, <2>4
  <2>7. StoppedForGood'
    BY <2>1, <2>2, <2>4
  <2> QED
    BY <2>4, <2>5, <2>6, <2>7
<1> QED
  BY <1>0, <1>1, <1>2, <1>3, <1>4, <1>5 DEF InsideStop

LEMMA ServiceOther ==
    ASSUME OneStartAtATime, TypeOK, ServiceInv,
           CliStep \/ (\E p \in Procs : Crash(p)) \/ UNCHANGED vars
    PROVE  ServiceInv'
<1> USE LifecycleAssumption
    DEF ServiceInv, ServiceHasLock, OneStarting, LockSteps, StoppedForGood, Guarded, Alive,
        LockIsStale, TypeOK, StartPoints, LockPoints, CleanPoints, BindPoints, EndPoints,
        BeforeLock, DeadPoints, files, proc, stops, clis
<1>1. ASSUME NEW p \in Procs, Crash(p)
      PROVE  ServiceInv'
  BY <1>1 DEF Crash, Die, Goto, Threadless
<1>2. ~CliStep
  BY DEF OneStartAtATime, CliStep, CliStop, CliStopUnlink, CliReset, CliKill, CliRemove
<1>3. CASE UNCHANGED vars
  BY <1>3 DEF vars
<1> QED
  BY <1>1, <1>2, <1>3

\* At most one process of a user serves hooks (_running is set) at any time,
\* and the lock is its own, whatever threads stop it and whoever crashes: the
\* only condition is that starts do not overlap.
THEOREM OneDaemon ==
    ASSUME OneStartAtATime
    PROVE  Spec => [](\A p, q \in running : p = q /\ lockFile = p)
<1>1. Init => ServiceInv
  BY ServiceInit
<1>2. TypeOK /\ ServiceInv /\ [Next]_vars => ServiceInv'
  BY ServiceStart, ServiceStartStep, ServiceStopStep, ServiceOther DEF Next
<1>3. TypeOK /\ ServiceInv => \A p, q \in running : p = q /\ lockFile = p
  BY DEF TypeOK, ServiceInv, ServiceHasLock
<1> QED
  BY <1>1, <1>2, <1>3, TypeCorrect, PTL DEF Spec
=============================================================================

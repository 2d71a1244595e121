-------------------------- MODULE DaemonLifecycle --------------------------
(***************************************************************************)
(* Processes of the ai-guardian daemon over the state directory they       *)
(* share: the start-up lock (daemon.pid.lock), the PID file (daemon.pid)   *)
(* and the Unix socket (daemon.sock).  DaemonServer.start() and stop(),    *)
(* the threads that may call stop(), crashes at any point, and the CLI     *)
(* commands `daemon stop` and `daemon reset` that unlink the same files.   *)
(*                                                                         *)
(* A process is one PID and is started once: PID reuse is not modelled.    *)
(* One action is one system call on a shared file, with the local code     *)
(* that follows it up to the next one.                                     *)
(***************************************************************************)
EXTENDS Naturals, FiniteSets

CONSTANTS
    Procs,         \* PIDs, each the process of one `daemon start`
    NoFile,        \* no such file; also "no process" and "no thread"
    Handlers,      \* threads of a daemon that may call stop(): client handlers
                   \* that got a shutdown message, and the idle checker
    SignalPoints,  \* program points of start() at which SIGTERM/SIGINT may come
    SignalInStop,  \* TRUE: another one may come when the main thread is in stop()
    Stopped,       \* bound: processes that are sent a signal or a shutdown message
    SlowPing,      \* TRUE: a serving daemon may miss the 1 s ping deadline
    PidWriteFails, \* TRUE: writing the PID file may raise OSError
    MaxStarting,   \* bound: processes inside start() at the same time
    MaxCrashes,    \* bound: processes that die at an arbitrary point
    MaxCli         \* bound: `daemon stop` / `daemon reset` commands

Main == "main"
Again == "again"    \* the frame of a second signal's handler, on the main thread
Threads == Handlers \cup {Main, Again}

\* Program points of start(): up to the lock, then _cleanup_stale, then
\* _setup_socket, then the daemon proper.
LockPoints == {"lock", "lockRead", "lockUnlink", "lockAgain", "lockWrite"}
CleanPoints == {"checkPid", "probePid", "rmPid", "staleLock", "checkSock", "rmSock"}
BindPoints == {"bindCheck", "bindUnlink", "bind", "bound"}
StartPoints == LockPoints \cup CleanPoints \cup BindPoints \cup {"writePid"}
EndPoints == {"raise", "return", "leaving"}
DeadPoints == {"failed", "exited", "crashed"}
PCs == StartPoints \cup EndPoints \cup DeadPoints \cup {"new", "serving"}

StopPCs == {"idle", "wait", "locked", "flush", "rmPid", "rmSock", "rmLock", "done"}
CliPCs == {"idle", "stopUnlink", "resetKill", "resetPid", "resetLock", "resetSock"}

ASSUME LifecycleAssumption ==
    /\ NoFile \notin Procs
    /\ NoFile \notin Threads
    /\ Main \notin Handlers /\ Again \notin Handlers
    /\ IsFiniteSet(Procs)
    /\ SignalPoints \subseteq BindPoints \cup {"writePid", "serving"}
    /\ Stopped \subseteq Procs
    /\ SignalInStop \in BOOLEAN /\ SlowPing \in BOOLEAN
    /\ PidWriteFails \in BOOLEAN
    /\ {MaxStarting, MaxCrashes, MaxCli} \subseteq Nat

VARIABLES
    lockFile,  \* the process that created the inode at daemon.pid.lock
    wrote,     \* processes whose PID is written in the lock inode they created
    pidFile,   \* the PID in daemon.pid (replaced atomically, never torn)
    sockFile,  \* the process whose socket is bound at daemon.sock
    pc,        \* where the main thread of each process is
    holds,     \* processes whose _lock_path is set
    running,   \* processes whose _running is True
    open,      \* processes whose server socket is open
    stopPc,    \* where each thread is in stop()
    stopLock,  \* which thread of a process holds _stop_lock
    crashes,   \* processes that crashed so far
    cli,       \* where the CLI command is
    cliPid,    \* the PID `daemon reset` kills
    cliRuns,   \* CLI commands so far
    alone      \* history: starts that have had the state directory to themselves

files == <<lockFile, pidFile, sockFile>>
proc == <<wrote, pc, holds, running, open>>
stops == <<stopPc, stopLock>>
clis == <<cli, cliPid, cliRuns>>
vars == <<files, proc, stops, crashes, clis, alone>>

Alive(p) == pc[p] \notin DeadPoints \cup {"new"}
Starting == {p \in Procs : pc[p] \in StartPoints}

\* A second signal's handler runs on the main thread, whose own frame waits.
Runs(p, t) == Alive(p) /\ (t = Main => stopPc[p][Again] \in {"idle", "done"})

\* The main thread runs start() unless a signal handler has taken it to stop().
MainFree(p) == Runs(p, Main) /\ stopPc[p][Main] \in {"idle", "done"}
At(p, l) == pc[p] = l /\ MainFree(p)
Goto(p, l) == pc' = [pc EXCEPT ![p] = l]

\* Mutant: an empty lock file is a start in progress, not a crashed one.
LockIsStale_EmptyHeld == lockFile \in wrote /\ ~Alive(lockFile)

\* is_pid_active on what the lock file holds: an empty file reads as PID 0.
LockIsStale == lockFile \notin wrote \/ ~Alive(lockFile)

(***************************************************************************)
(* A ping on daemon.sock.  A socket that is bound but not yet accepting    *)
(* keeps the connection in its backlog, so the pong may or may not come    *)
(* within the deadline; so may that of a daemon that is closing down.      *)
(***************************************************************************)
MayAnswer == sockFile \in open
MayTimeOut ==
    MayAnswer => SlowPing \/ sockFile \notin running \/ pc[sockFile] # "serving"

Init ==
    /\ lockFile = NoFile /\ pidFile = NoFile /\ sockFile = NoFile
    /\ pc = [p \in Procs |-> "new"]
    /\ wrote = {} /\ holds = {} /\ running = {} /\ open = {}
    /\ stopPc = [p \in Procs |-> [t \in Threads |-> "idle"]]
    /\ stopLock = [p \in Procs |-> NoFile]
    /\ crashes = 0
    /\ cli = "idle" /\ cliPid = NoFile /\ cliRuns = 0
    /\ alone = {}

-----------------------------------------------------------------------------
(* start(): _acquire_pid_lock                                              *)

\* A process calls start(); it is alone while no other process is alive and
\* no CLI command is at work.
Start(p) ==
    /\ pc[p] = "new"
    /\ Cardinality(Starting) < MaxStarting
    /\ Goto(p, "lock")
    /\ alone' = IF cli = "idle" /\ (\A q \in Procs : ~Alive(q)) THEN {p} ELSE {}
    /\ UNCHANGED <<files, wrote, holds, running, open, stops, crashes, clis>>

\* O_CREAT|O_EXCL creates an empty file; the PID is written by a later call.
\* The first attempt falls back on reading the lock, the second one fails.
TryCreate(p, from, busy) ==
    /\ At(p, from)
    /\ IF lockFile = NoFile
       THEN lockFile' = p /\ Goto(p, "lockWrite")
       ELSE lockFile' = lockFile /\ Goto(p, busy)
    /\ UNCHANGED <<pidFile, sockFile, wrote, holds, running, open, stops, crashes, clis, alone>>

LockCreate(p) ==
    TryCreate(p, "lock", "lockRead") \/ TryCreate(p, "lockAgain", "failed")

\* Mutant: an existing lock is taken over whoever holds it.
LockRead_TakeOver(p) ==
    /\ At(p, "lockRead")
    /\ Goto(p, IF lockFile # NoFile THEN "lockUnlink" ELSE "failed")
    /\ UNCHANGED <<files, wrote, holds, running, open, stops, crashes, clis, alone>>

\* Reads the PID in the existing lock: 0 or a dead PID may be taken over.
LockRead(p) ==
    /\ At(p, "lockRead")
    /\ Goto(p, IF lockFile # NoFile /\ LockIsStale THEN "lockUnlink" ELSE "failed")
    /\ UNCHANGED <<files, wrote, holds, running, open, stops, crashes, clis, alone>>

\* Unlinks by path, whatever file is there now.
LockUnlink(p) ==
    /\ At(p, "lockUnlink")
    /\ Goto(p, IF lockFile # NoFile THEN "lockAgain" ELSE "failed")
    /\ lockFile' = NoFile
    /\ UNCHANGED <<pidFile, sockFile, wrote, holds, running, open, stops, crashes, clis, alone>>

\* os.write goes to the inode this process created, linked or not.
LockWrite(p) ==
    /\ At(p, "lockWrite")
    /\ Goto(p, "checkPid")
    /\ wrote' = wrote \cup {p}
    /\ holds' = holds \cup {p}
    /\ UNCHANGED <<files, running, open, stops, crashes, clis, alone>>

-----------------------------------------------------------------------------
(* start(): _cleanup_stale                                                 *)

CheckPid(p) ==
    /\ At(p, "checkPid")
    /\ Goto(p, IF pidFile = NoFile THEN "staleLock"
               ELSE IF Alive(pidFile) THEN "probePid" ELSE "rmPid")
    /\ UNCHANGED <<files, wrote, holds, running, open, stops, crashes, clis, alone>>

\* A live PID: a pong, or a socket without a pong, refuses the start; without
\* a socket the PID is taken for a recycled one.
ProbePid(p) ==
    /\ At(p, "probePid")
    /\ \/ MayAnswer /\ Goto(p, "raise")
       \/ MayTimeOut /\ Goto(p, IF sockFile # NoFile THEN "raise" ELSE "rmPid")
    /\ UNCHANGED <<files, wrote, holds, running, open, stops, crashes, clis, alone>>

\* pid_path.unlink(); if the file is gone by now the OSError branch pings again.
RemovePid(p) ==
    /\ At(p, "rmPid")
    /\ \/ pidFile' = NoFile /\ Goto(p, "staleLock")
          /\ (pidFile = NoFile => MayTimeOut)
       \/ pidFile = NoFile /\ MayAnswer /\ Goto(p, "raise") /\ UNCHANGED pidFile
    /\ UNCHANGED <<lockFile, sockFile, wrote, holds, running, open, stops, crashes, clis, alone>>

\* Mutant: the lock is removed without asking whose it is.
RemoveStaleLock_Own(p) ==
    /\ At(p, "staleLock")
    /\ lockFile' = NoFile
    /\ Goto(p, "checkSock")
    /\ UNCHANGED <<pidFile, sockFile, wrote, holds, running, open, stops, crashes, clis, alone>>

\* Reads daemon.pid.lock (normally this process's own) and drops a stale one.
RemoveStaleLock(p) ==
    /\ At(p, "staleLock")
    /\ lockFile' = IF lockFile # NoFile /\ LockIsStale THEN NoFile ELSE lockFile
    /\ Goto(p, "checkSock")
    /\ UNCHANGED <<pidFile, sockFile, wrote, holds, running, open, stops, crashes, clis, alone>>

\* A socket without a PID file is removed after a ping that is not answered.
CheckSock(p) ==
    /\ At(p, "checkSock")
    /\ IF sockFile # NoFile /\ pidFile = NoFile
       THEN \/ MayAnswer /\ Goto(p, "raise")
            \/ MayTimeOut /\ Goto(p, "rmSock")
       ELSE Goto(p, "bindCheck")
    /\ UNCHANGED <<files, wrote, holds, running, open, stops, crashes, clis, alone>>

\* sock_path.unlink() without missing_ok, here and before bind.
RemoveSock(p) ==
    /\ \/ At(p, "rmSock") /\ Goto(p, IF sockFile # NoFile THEN "bindCheck" ELSE "raise")
       \/ At(p, "bindUnlink") /\ Goto(p, IF sockFile # NoFile THEN "bind" ELSE "raise")
    /\ sockFile' = NoFile
    /\ UNCHANGED <<lockFile, pidFile, wrote, holds, running, open, stops, crashes, clis, alone>>

-----------------------------------------------------------------------------
(* start(): _setup_unix_socket, _write_pid_file, _accept_loop, finally     *)

BindCheck(p) ==
    /\ At(p, "bindCheck")
    /\ IF sockFile = NoFile
       THEN Goto(p, "bind")
       ELSE \/ MayAnswer /\ Goto(p, "raise")
            \/ MayTimeOut /\ Goto(p, "bindUnlink")
    /\ UNCHANGED <<files, wrote, holds, running, open, stops, crashes, clis, alone>>

\* bind() fails with EADDRINUSE when the path exists.
Bind(p) ==
    /\ At(p, "bind")
    /\ \/ /\ sockFile = NoFile
          /\ sockFile' = p
          /\ open' = open \cup {p}
          /\ Goto(p, "bound")
       \/ /\ sockFile # NoFile
          /\ Goto(p, "raise")
          /\ UNCHANGED <<sockFile, open>>
    /\ UNCHANGED <<lockFile, pidFile, wrote, holds, running, stops, crashes, clis, alone>>

\* _running = True; the REST API comes up (or not) before the PID is written.
SetRunning(p) ==
    /\ At(p, "bound")
    /\ running' = running \cup {p}
    /\ Goto(p, "writePid")
    /\ UNCHANGED <<files, wrote, holds, open, stops, crashes, clis, alone>>

\* Mutant: the PID file is written in place and may be left torn.
WritePid_Torn(p) ==
    /\ At(p, "writePid")
    /\ pidFile' \in {p, "torn"}
    /\ Goto(p, "serving")
    /\ UNCHANGED <<lockFile, sockFile, wrote, holds, running, open, stops, crashes, clis, alone>>

\* The PID file is replaced atomically; the write may fail before that.
WritePid(p) ==
    /\ At(p, "writePid")
    /\ \/ pidFile' = p /\ Goto(p, "serving")
       \/ PidWriteFails /\ Goto(p, "raise") /\ UNCHANGED pidFile
    /\ UNCHANGED <<lockFile, sockFile, wrote, holds, running, open, stops, crashes, clis, alone>>

\* The accept loop ends when _running is cleared or the socket is closed.
AcceptLoopEnds(p) ==
    /\ At(p, "serving")
    /\ p \notin running \/ p \notin open
    /\ Goto(p, "return")
    /\ UNCHANGED <<files, wrote, holds, running, open, stops, crashes, clis, alone>>

\* _release_pid_lock: unlink the lock only if it holds this process's PID.
ReleaseLock(p) ==
    /\ lockFile' = IF p \in holds /\ lockFile = p /\ p \in wrote THEN NoFile ELSE lockFile
    /\ holds' = holds \ {p}

\* Mutant: the finally block leaves the lock alone.
Finally_KeepLock(p) ==
    /\ \/ At(p, "raise") /\ Goto(p, "failed")
       \/ At(p, "return") /\ Goto(p, "leaving")
    /\ p \notin running
    /\ open' = open \ {p}
    /\ UNCHANGED <<files, wrote, holds, running, stops, crashes, clis, alone>>

\* The finally block of start() when _running is False.
Finally(p) ==
    /\ \/ At(p, "raise") /\ Goto(p, "failed")
       \/ At(p, "return") /\ Goto(p, "leaving")
    /\ p \notin running
    /\ ReleaseLock(p)
    /\ open' = open \ {p}
    /\ UNCHANGED <<pidFile, sockFile, wrote, running, stops, crashes, clis, alone>>

\* A process that ends takes its threads with it: the handlers are daemon
\* threads, nobody waits for the stop() they may be in.
Threadless(p) ==
    /\ stopPc' = [stopPc EXCEPT ![p] = [t \in Threads |-> "idle"]]
    /\ stopLock' = [stopLock EXCEPT ![p] = NoFile]

Exit(p) ==
    /\ At(p, "leaving")
    /\ Goto(p, "exited")
    /\ Threadless(p)
    /\ UNCHANGED <<files, wrote, holds, running, open, crashes, clis, alone>>

-----------------------------------------------------------------------------
(* stop()                                                                  *)

\* Who calls stop(): the finally block of start() while _running, a signal
\* handler in the main thread, that of a second signal which interrupts the
\* first stop() or the finally block's, or a handler thread of a daemon.
MayCallStop(p, t) ==
    \/ t = Main /\ pc[p] \in EndPoints /\ p \in running
    \/ /\ p \in Stopped
       /\ \/ t = Main /\ pc[p] \in SignalPoints
          \/ t = Again /\ SignalInStop /\ stopPc[p][Main] \notin {"idle", "done"}
          \/ t \in Handlers /\ pc[p] \in {"serving", "return", "leaving"}

\* The first step of stop(), with self._stop_lock: the lock is free, or the
\* caller waits for it.
StopCall(p, t) ==
    /\ Runs(p, t)
    /\ stopPc[p][t] = "idle"
    /\ MayCallStop(p, t)
    /\ IF stopLock[p] = NoFile
       THEN /\ stopPc' = [stopPc EXCEPT ![p][t] = "locked"]
            /\ stopLock' = [stopLock EXCEPT ![p] = t]
       ELSE stopPc' = [stopPc EXCEPT ![p][t] = "wait"] /\ UNCHANGED stopLock
    /\ alone' = alone \ {p}
    /\ UNCHANGED <<files, proc, crashes, clis>>

\* The lock is not reentrant: a signal's handler waits for ever for a lock
\* that the frame it has interrupted holds.
StopEnter(p, t) ==
    /\ Runs(p, t)
    /\ stopPc[p][t] = "wait"
    /\ stopLock[p] = NoFile
    /\ stopLock' = [stopLock EXCEPT ![p] = t]
    /\ stopPc' = [stopPc EXCEPT ![p][t] = "locked"]
    /\ UNCHANGED <<files, proc, crashes, clis, alone>>

\* Mutant: stop() forgets to clear _running.
StopSection_StillRunning(p, t) ==
    /\ Runs(p, t)
    /\ stopPc[p][t] = "locked"
    /\ stopPc' = [stopPc EXCEPT ![p][t] = "flush"]
    /\ stopLock' = [stopLock EXCEPT ![p] = NoFile]
    /\ UNCHANGED <<files, proc, crashes, clis, alone>>

\* The section under _stop_lock: the first caller clears _running and leaves
\* the lock; a caller that finds it cleared keeps the lock for its clean-up.
StopSection(p, t) ==
    /\ Runs(p, t)
    /\ stopPc[p][t] = "locked"
    /\ IF p \in running
       THEN /\ running' = running \ {p}
            /\ stopPc' = [stopPc EXCEPT ![p][t] = "flush"]
            /\ stopLock' = [stopLock EXCEPT ![p] = NoFile]
       ELSE /\ stopPc' = [stopPc EXCEPT ![p][t] = "rmPid"]
            /\ UNCHANGED <<running, stopLock>>
    /\ UNCHANGED <<files, wrote, pc, holds, open, crashes, clis, alone>>

\* Sessions flushed, subscribers and the server socket closed, REST stopped.
StopFlush(p, t) ==
    /\ Runs(p, t)
    /\ stopPc[p][t] = "flush"
    /\ open' = open \ {p}
    /\ stopPc' = [stopPc EXCEPT ![p][t] = "rmPid"]
    /\ UNCHANGED <<files, wrote, pc, holds, running, stopLock, crashes, clis, alone>>

\* _cleanup_state_files: PID file, socket, lock, in this order, by path.
StopCleanup(p, t) ==
    /\ Runs(p, t)
    /\ \/ /\ stopPc[p][t] = "rmPid"
          /\ pidFile' = NoFile
          /\ stopPc' = [stopPc EXCEPT ![p][t] = "rmSock"]
          /\ UNCHANGED <<lockFile, sockFile, holds, stopLock>>
       \/ /\ stopPc[p][t] = "rmSock"
          /\ sockFile' = NoFile
          /\ stopPc' = [stopPc EXCEPT ![p][t] = "rmLock"]
          /\ UNCHANGED <<lockFile, pidFile, holds, stopLock>>
       \/ /\ stopPc[p][t] = "rmLock"
          /\ ReleaseLock(p)
          /\ stopPc' = [stopPc EXCEPT ![p][t] = "done"]
          /\ stopLock' = [stopLock EXCEPT ![p] = IF @ = t THEN NoFile ELSE @]
          /\ UNCHANGED <<pidFile, sockFile>>
    /\ UNCHANGED <<wrote, pc, running, open, crashes, clis, alone>>

-----------------------------------------------------------------------------
(* Crashes and the CLI                                                     *)

\* The process dies: its threads stop, its socket closes and its files stay.
Die(p) ==
    /\ Goto(p, "crashed")
    /\ open' = open \ {p}
    /\ running' = running \ {p}
    /\ holds' = holds \ {p}
    /\ Threadless(p)

Crash(p) ==
    /\ Alive(p)
    /\ crashes < MaxCrashes
    /\ crashes' = crashes + 1
    /\ Die(p)
    /\ UNCHANGED <<files, wrote, clis, alone>>

\* `daemon stop` that finds no answering daemon unlinks the lock file; a
\* daemon that answers is sent a shutdown message (a handler's stop()).
CliStop ==
    /\ cli = "idle"
    /\ cliRuns < MaxCli
    /\ pidFile = NoFile \/ MayTimeOut
    /\ cli' = "stopUnlink"
    /\ cliRuns' = cliRuns + 1
    /\ alone' = {}
    /\ UNCHANGED <<files, proc, stops, crashes, cliPid>>

CliStopUnlink ==
    /\ cli = "stopUnlink"
    /\ lockFile' = NoFile
    /\ cli' = "idle"
    /\ UNCHANGED <<pidFile, sockFile, proc, stops, crashes, cliPid, cliRuns, alone>>

\* `daemon reset` takes the PID of the PID file or else of the lock file,
CliReset ==
    /\ cli = "idle"
    /\ cliRuns < MaxCli
    /\ cliPid' = IF pidFile # NoFile THEN pidFile
                 ELSE IF lockFile # NoFile /\ ~LockIsStale THEN lockFile ELSE NoFile
    /\ cli' = "resetKill"
    /\ cliRuns' = cliRuns + 1
    /\ alone' = {}
    /\ UNCHANGED <<files, proc, stops, crashes>>

\* kills it (SIGKILL when SIGTERM has not ended it in 3 s),
CliKill ==
    /\ cli = "resetKill"
    /\ cli' = "resetPid"
    /\ IF cliPid # NoFile /\ Alive(cliPid)
       THEN Die(cliPid)
       ELSE UNCHANGED <<pc, open, running, holds, stops>>
    /\ cliPid' = NoFile
    /\ UNCHANGED <<files, wrote, crashes, cliRuns, alone>>

\* and unlinks daemon.pid, daemon.pid.lock and daemon.sock.
CliRemove ==
    /\ \/ cli = "resetPid" /\ cli' = "resetLock"
          /\ pidFile' = NoFile /\ UNCHANGED <<lockFile, sockFile>>
       \/ cli = "resetLock" /\ cli' = "resetSock"
          /\ lockFile' = NoFile /\ UNCHANGED <<pidFile, sockFile>>
       \/ cli = "resetSock" /\ cli' = "idle"
          /\ sockFile' = NoFile /\ UNCHANGED <<pidFile, lockFile>>
    /\ UNCHANGED <<proc, stops, crashes, cliPid, cliRuns, alone>>

-----------------------------------------------------------------------------
StartStep(p) ==
    \/ LockCreate(p) \/ LockRead(p) \/ LockUnlink(p) \/ LockWrite(p)
    \/ CheckPid(p) \/ ProbePid(p) \/ RemovePid(p) \/ RemoveStaleLock(p)
    \/ CheckSock(p) \/ RemoveSock(p) \/ BindCheck(p) \/ Bind(p)
    \/ SetRunning(p) \/ WritePid(p) \/ AcceptLoopEnds(p) \/ Finally(p) \/ Exit(p)

InStop(p, t) == Alive(p) /\ stopPc[p][t] \notin {"idle", "done"}

InsideStop(p, t) ==
    StopEnter(p, t) \/ StopSection(p, t) \/ StopFlush(p, t) \/ StopCleanup(p, t)

StopStep(p) == \E t \in Threads : StopCall(p, t) \/ InsideStop(p, t)

CliStep == CliStop \/ CliStopUnlink \/ CliReset \/ CliKill \/ CliRemove

Next ==
    \/ \E p \in Procs : Start(p) \/ StartStep(p) \/ StopStep(p) \/ Crash(p)
    \/ CliStep

Spec == Init /\ [][Next]_vars

\* A live process runs on: its main thread, and a stop() once entered.  That
\* stop() is called, that a process starts or that it crashes is not promised,
\* except the stop() of the finally block.
Progress(p) ==
    \/ MainFree(p) /\ StartStep(p)
    \/ \E t \in Threads : InStop(p, t) /\ InsideStop(p, t)
    \/ pc[p] \in EndPoints /\ StopCall(p, Main)

FairSpec == Spec /\ \A p \in Procs : WF_vars(Progress(p))

-----------------------------------------------------------------------------
TypeOK ==
    /\ lockFile \in Procs \cup {NoFile}
    /\ pidFile \in Procs \cup {NoFile}
    /\ sockFile \in Procs \cup {NoFile}
    /\ cliPid \in Procs \cup {NoFile}
    /\ pc \in [Procs -> PCs]
    /\ wrote \subseteq Procs /\ holds \subseteq Procs
    /\ running \subseteq Procs /\ open \subseteq Procs /\ alone \subseteq Procs
    /\ stopPc \in [Procs -> [Threads -> StopPCs]]
    /\ stopLock \in [Procs -> Threads \cup {NoFile}]
    /\ cli \in CliPCs
    /\ crashes \in Nat /\ cliRuns \in Nat

(* A daemon that serves can be found: daemon.sock is its socket and        *)
(* daemon.pid names it, whatever other processes started, failed, stopped  *)
(* or crashed meanwhile (clients use both to decide it is running).        *)
ServingReachable ==
    \A p \in Procs :
        pc[p] = "serving" /\ p \in running => sockFile = p /\ pidFile = p

(* The start-up lock covers the whole life of a daemon, from the moment it *)
(* may touch the shared files to the last unlink of its stop(): nobody     *)
(* else can be past _acquire_pid_lock in between.                          *)
LockCoversLife ==
    \A p \in Procs :
        \/ Alive(p) /\ pc[p] \in CleanPoints \cup BindPoints \cup {"writePid"}
        \/ Alive(p) /\ p \in running
        \/ \E t \in Threads : InStop(p, t)
        => lockFile = p /\ p \in wrote

(* Whatever a crash left behind - an empty or foreign lock, a PID file, a  *)
(* dead socket, in any combination - a start that has the state directory  *)
(* to itself does not refuse to run.                                       *)
LoneStartSucceeds ==
    \A p \in alone : pc[p] # "failed"

(* A process that ends in an orderly way, started or not and stopped by    *)
(* whatever thread, leaves no lock file with its PID behind: only a crash  *)
(* does.                                                                   *)
NoLockLeftBehind ==
    \A p \in Procs :
        lockFile = p /\ p \in wrote => pc[p] \notin {"failed", "exited"}

(* A second signal has come while the main thread held _stop_lock, and its *)
(* handler waits there for the lock that only the frame beneath releases.  *)
SelfLocked(p) == stopPc[p][Again] = "wait" /\ stopLock[p] = Main

(* Once any thread is in stop(), whoever else enters it, the process comes *)
(* to its end: the one way in which it hangs is the one above.             *)
StopEnds ==
    \A p \in Procs :
        (pc[p] = "serving" /\ \E t \in Threads : InStop(p, t))
            ~> (~Alive(p) \/ SelfLocked(p))

(* A start that has the state directory to itself becomes the daemon,      *)
(* unless it crashes or is disturbed.                                      *)
LoneStartServes ==
    \A p \in Procs :
        (p \in alone /\ pc[p] = "lock") ~>
            (p \in running \/ pc[p] = "crashed" \/ p \notin alone)

=============================================================================

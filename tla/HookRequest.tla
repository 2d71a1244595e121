---------------------------- MODULE HookRequest ----------------------------
(* How an agent's hook gets its answer (cli.py, main; daemon/client.py;        *)
(* daemon/server.py, _handle_hook_request).  The hook's process asks the       *)
(* daemon, starts one if none answers and the user has not stopped it, and     *)
(* decides by itself, the direct mode, when no answer comes in time.  Users    *)
(* start and stop the daemon and pause and resume scanning meanwhile.  How one *)
(* process becomes the daemon is DaemonLifecycle's, deadlines of pauses are    *)
(* PauseControl's; here there is one daemon and one pause.                     *)
EXTENDS Naturals

CONSTANTS
    Hooks,        \* hook processes
    User,         \* the `daemon start` that a user runs
    MaxCommands,  \* bound: commands of users
    MaxCrashes,   \* bound: daemons that end by themselves
    Overlap       \* may a command overlap the start of a daemon?

ASSUME RequestAssumption ==
    /\ User \notin Hooks
    /\ MaxCommands \in Nat /\ MaxCrashes \in Nat
    /\ Overlap \in BOOLEAN

Starters == Hooks \cup {User}    \* `daemon start` processes, by who runs them
Answers == {"scanned", "skip"}    \* the scan's verdict, or let through without one
Pending == {"queued", "scanning"}

VARIABLES
    at,         \* where each hook's process is
    answer,     \* what it told its agent
    task,       \* its request in the daemon: waiting, being scanned, answered, lost
    starter,    \* the `daemon start` processes
    loaded,     \* the pause file as each of them read it
    daemon,     \* "down", "up" or "stopping"
    marker,     \* does daemon.stop-requested exist?
    paused,     \* the daemon's pause, FALSE while there is none
    pauseFile,  \* daemon.paused
    user,       \* the user's command under way
    commands, crashes,  \* bounded counters
    stopped,    \* history: has the last stop said that it succeeded, and no start been asked for?
    missed,     \* history: did it leave no marker, or not reach a daemon that was up?
    want,       \* history: what the last pause or resume asked for, if the file has it
    seen, kept  \* history: of each hook, was a pause wanted at some time, all the time?

client == <<at, answer>>
starts == <<starter, loaded>>
pause == <<paused, pauseFile, want, seen, kept>>
counts == <<commands, crashes>>
stops == <<stopped, missed>>
vars == <<at, answer, task, starter, loaded, daemon, marker, paused, pauseFile, user,
          commands, crashes, stopped, missed, want, seen, kept>>

(* A user may have stopped the daemon, or paused scanning, before.             *)
Init ==
    /\ at = [h \in Hooks |-> "idle"]
    /\ answer = [h \in Hooks |-> "none"]
    /\ task = [h \in Hooks |-> "none"]
    /\ starter = [s \in Starters |-> "none"]
    /\ loaded = [s \in Starters |-> FALSE]
    /\ daemon \in {"down", "up"}
    /\ marker \in BOOLEAN /\ (marker => daemon = "down")
    /\ pauseFile \in BOOLEAN
    /\ paused = (pauseFile /\ daemon = "up")
    /\ user = "idle"
    /\ commands = 0 /\ crashes = 0
    /\ stopped = marker /\ missed = FALSE
    /\ want = IF pauseFile THEN "on" ELSE "off"
    /\ seen = [h \in Hooks |-> FALSE]
    /\ kept = [h \in Hooks |-> FALSE]

-----------------------------------------------------------------------------
(* The hook's process.                                                         *)
Go(h, from, to) == at[h] = from /\ at' = [at EXCEPT ![h] = to]

Reply(h, a) ==
    /\ at' = [at EXCEPT ![h] = "answered"]
    /\ answer' = [answer EXCEPT ![h] = a]

(* It reads its input.                                                         *)
Begin(h) ==
    /\ Go(h, "idle", "check")
    /\ seen' = [seen EXCEPT ![h] = want # "off"]
    /\ kept' = [kept EXCEPT ![h] = want = "on"]
    /\ UNCHANGED <<answer, task, starts, daemon, marker, paused, pauseFile, user, counts,
                   stops, want>>

(* Input that is no JSON object is answered as a failure.                      *)
Reject(h) ==
    /\ at[h] = "check"
    /\ Reply(h, "failed")
    /\ UNCHANGED <<task, starts, daemon, marker, pause, user, counts, stops>>

(* is_daemon_running: a daemon that is up may also be too slow.                *)
FindRunning(h) ==
    /\ daemon = "up"
    /\ Go(h, "check", "send")
    /\ UNCHANGED <<answer, task, starts, daemon, marker, pause, user, counts, stops>>

(* Otherwise main, and start_daemon_background again, look for the marker,     *)
(* and the latter for a daemon once more.                                      *)
FindNone(h) ==
    /\ Go(h, "check", IF marker THEN "fallback" ELSE "start")
    /\ UNCHANGED <<answer, task, starts, daemon, marker, pause, user, counts, stops>>

Refuse(h) ==
    /\ daemon = "up"
    /\ Go(h, "start", "fallback")
    /\ UNCHANGED <<answer, task, starts, daemon, marker, pause, user, counts, stops>>

Spawn(h) ==
    /\ Go(h, "start", "await")
    /\ starter' = [starter EXCEPT ![h] = "spawned"]
    /\ UNCHANGED <<answer, task, loaded, daemon, marker, pause, user, counts, stops>>

FindStarted(h) ==
    /\ daemon = "up"
    /\ Go(h, "await", "send")
    /\ UNCHANGED <<answer, task, starts, daemon, marker, pause, user, counts, stops>>

AwaitTimesOut(h) ==
    /\ Go(h, "await", "fallback")
    /\ UNCHANGED <<answer, task, starts, daemon, marker, pause, user, counts, stops>>

Send(h) ==
    /\ daemon = "up"
    /\ Go(h, "send", "wait")
    /\ task' = [task EXCEPT ![h] = "queued"]
    /\ UNCHANGED <<answer, starts, daemon, marker, pause, user, counts, stops>>

(* No connection.                                                              *)
SendFails(h) ==
    /\ Go(h, "send", "fallback")
    /\ UNCHANGED <<answer, task, starts, daemon, marker, pause, user, counts, stops>>

Receive(h) ==
    /\ at[h] = "wait"
    /\ task[h] \in Answers
    /\ Reply(h, task[h])
    /\ UNCHANGED <<task, starts, daemon, marker, pause, user, counts, stops>>

GiveUp_OnlyLost(h) ==    \* mutant: without the client's timeout
    /\ task[h] = "lost"
    /\ Go(h, "wait", "fallback")
    /\ UNCHANGED <<answer, task, starts, daemon, marker, pause, user, counts, stops>>

(* The connection ends or the timeout does; the daemon goes on with the        *)
(* request all the same.                                                       *)
GiveUp(h) ==
    /\ Go(h, "wait", "fallback")
    /\ UNCHANGED <<answer, task, starts, daemon, marker, pause, user, counts, stops>>

(* The direct mode reads the pause file, then scans.                           *)
Fallback(h) ==
    /\ at[h] = "fallback"
    /\ \E a \in Answers : (a = "skip" <=> pauseFile) /\ Reply(h, a)
    /\ UNCHANGED <<task, starts, daemon, marker, pause, user, counts, stops>>

-----------------------------------------------------------------------------
(* The daemon's handler threads, which go on while it stops.                   *)
Handle(h, from, to) ==
    /\ daemon # "down"
    /\ task[h] \in from
    /\ task' = [task EXCEPT ![h] = to]

HandleStart(h) ==
    /\ Handle(h, {"queued"}, IF paused THEN "skip" ELSE "scanning")
    /\ UNCHANGED <<client, starts, daemon, marker, pause, user, counts, stops>>

HandleScan(h) ==
    /\ Handle(h, {"scanning"}, "scanned")
    /\ UNCHANGED <<client, starts, daemon, marker, pause, user, counts, stops>>

(* An exception: the connection is closed without an answer.                   *)
HandlerFails(h) ==
    /\ Handle(h, {"queued", "scanning"}, "lost")
    /\ UNCHANGED <<client, starts, daemon, marker, pause, user, counts, stops>>

Lost_None == task    \* mutant: requests outlive their daemon

Lost == [h \in Hooks |-> IF task[h] \in Pending THEN "lost" ELSE task[h]]

(* The daemon is gone: a command that waits for its answer has failed.         *)
Ends ==
    /\ daemon' = "down"
    /\ paused' = FALSE
    /\ task' = Lost
    /\ user' = IF user = "pauseFile" THEN "idle" ELSE user

Crash ==
    /\ daemon = "up" /\ crashes < MaxCrashes
    /\ crashes' = crashes + 1
    /\ Ends
    /\ UNCHANGED <<client, starts, marker, pauseFile, commands, stops, want, seen, kept>>

DaemonStops ==
    /\ daemon = "stopping"
    /\ Ends
    /\ UNCHANGED <<client, starts, marker, pauseFile, counts, stops, want, seen, kept>>

-----------------------------------------------------------------------------
(* `daemon start`, run by a hook or by a user: it removes the marker, if it    *)
(* can, builds its state, which reads the pause file, and only then takes the  *)
(* lock.                                                                       *)
StarterClears(s) ==
    /\ starter[s] = "spawned"
    /\ starter' = [starter EXCEPT ![s] = "cleared"]
    /\ marker' = FALSE \/ UNCHANGED marker
    /\ UNCHANGED <<client, task, loaded, daemon, pause, user, counts, stops>>

StarterLoads_Nothing(s) ==    \* mutant: starts without the pause file
    /\ starter[s] = "cleared"
    /\ Overlap \/ user # "pauseFile"
    /\ starter' = [starter EXCEPT ![s] = "loaded"]
    /\ loaded' = [loaded EXCEPT ![s] = FALSE]
    /\ UNCHANGED <<client, task, daemon, marker, pause, user, counts, stops>>

StarterLoads(s) ==
    /\ starter[s] = "cleared"
    /\ Overlap \/ user # "pauseFile"
    /\ starter' = [starter EXCEPT ![s] = "loaded"]
    /\ loaded' = [loaded EXCEPT ![s] = pauseFile]
    /\ UNCHANGED <<client, task, daemon, marker, pause, user, counts, stops>>

(* It becomes the daemon, or ends because there is one.                        *)
StarterServes(s) ==
    /\ starter[s] = "loaded"
    /\ starter' = [starter EXCEPT ![s] = "done"]
    /\ loaded' = [loaded EXCEPT ![s] = FALSE]
    /\ IF daemon = "down"
       THEN daemon' = "up" /\ paused' = loaded[s]
       ELSE UNCHANGED <<daemon, paused>>
    /\ UNCHANGED <<client, task, marker, pauseFile, user, counts, stops, want, seen, kept>>

-----------------------------------------------------------------------------
(* Users: one command at a time.                                               *)
NoStartUnderWay ==
    /\ \A h \in Hooks : at[h] # "start"
    /\ \A s \in Starters : starter[s] \in {"none", "done"}

Command ==
    /\ user = "idle" /\ commands < MaxCommands
    /\ Overlap \/ NoStartUnderWay
    /\ commands' = commands + 1
    /\ UNCHANGED crashes

Start ==
    /\ Command
    /\ starter[User] \in {"none", "done"}
    /\ starter' = [starter EXCEPT ![User] = "spawned"]
    /\ stopped' = FALSE /\ missed' = FALSE
    /\ UNCHANGED <<client, task, loaded, daemon, marker, pause, user>>

Stop_MarkIfUp ==    \* mutant: nothing to mark when no daemon runs
    /\ Command
    /\ marker' = (marker \/ daemon = "up")
    /\ stopped' = FALSE /\ missed' = FALSE
    /\ user' = "stop"
    /\ UNCHANGED <<client, task, starts, daemon, pause>>

(* The marker first; that it cannot be written is ignored.                     *)
Stop ==
    /\ Command
    /\ \/ marker' = TRUE /\ missed' = FALSE
       \/ UNCHANGED marker /\ missed' = ~marker
    /\ stopped' = FALSE
    /\ user' = "stop"
    /\ UNCHANGED <<client, task, starts, daemon, pause>>

(* The daemon answers, then stops; the answer may come too late.               *)
StopShutsDown ==
    /\ user = "stop" /\ daemon = "up"
    /\ daemon' = "stopping"
    /\ user' \in {"stopWait", "idle"}
    /\ UNCHANGED <<client, task, starts, marker, pause, counts, stops>>

(* is_daemon_running says no, and the command that it is not running: no       *)
(* daemon is there, or it is slow.                                             *)
StopFindsNone ==
    /\ user = "stop"
    /\ user' = "idle"
    /\ stopped' = TRUE /\ missed' = (missed \/ daemon = "up")
    /\ UNCHANGED <<client, task, starts, daemon, marker, pause, counts>>

(* It did answer the ping, but not the shutdown: the command fails.            *)
StopFails ==
    /\ user = "stop"
    /\ user' = "idle"
    /\ UNCHANGED <<client, task, starts, daemon, marker, pause, counts, stops>>

(* wait_for_process_death: the daemon is gone, or had left no PID to wait for; *)
(* otherwise the command gives up, and fails.                                  *)
StopReturns ==
    /\ user = "stopWait"
    /\ user' = "idle"
    /\ stopped' \in BOOLEAN /\ (daemon = "down" => stopped')
    /\ UNCHANGED <<client, task, starts, daemon, marker, pause, counts, missed>>

(* pause() and resume(): memory first, then the file, then the answer.         *)
Pause(p) ==
    /\ Command
    /\ daemon = "up"
    /\ paused' = p
    /\ user' = "pauseFile"
    /\ want' = "doubt"
    /\ seen' = [h \in Hooks |-> seen[h] \/ at[h] \notin {"idle", "answered"}]
    /\ kept' = [h \in Hooks |-> kept[h] /\ at[h] = "answered"]
    /\ UNCHANGED <<client, task, starts, daemon, marker, pauseFile, stops>>

(* What a command has asked for once the file says f: in doubt until the file  *)
(* agrees with the memory.                                                     *)
Wanted(f) == IF f # paused THEN "doubt" ELSE IF paused THEN "on" ELSE "off"

PauseSaved_OnlyPauses ==    \* mutant: a resume leaves the file
    /\ user = "pauseFile"
    /\ pauseFile' = (pauseFile \/ paused)
    /\ want' = Wanted(paused)
    /\ user' = "idle"
    /\ UNCHANGED <<client, task, starts, daemon, marker, paused, counts, stops, seen, kept>>

(* The write may fail: the old file stays, and the command says all the same   *)
(* that it has succeeded.                                                      *)
PauseSaved ==
    /\ user = "pauseFile"
    /\ \E f \in {paused, pauseFile} : pauseFile' = f /\ want' = Wanted(f)
    /\ user' = "idle"
    /\ UNCHANGED <<client, task, starts, daemon, marker, paused, counts, stops, seen, kept>>

-----------------------------------------------------------------------------
Hook(h) ==
    \/ Reject(h) \/ FindRunning(h) \/ FindNone(h)
    \/ Refuse(h) \/ Spawn(h) \/ FindStarted(h) \/ AwaitTimesOut(h)
    \/ Send(h) \/ SendFails(h) \/ Receive(h) \/ GiveUp(h)
    \/ Fallback(h)

Next ==
    \/ \E h \in Hooks :
          Begin(h) \/ Hook(h) \/ HandleStart(h) \/ HandleScan(h) \/ HandlerFails(h)
    \/ \E s \in Starters : StarterClears(s) \/ StarterLoads(s) \/ StarterServes(s)
    \/ Crash \/ DaemonStops
    \/ Start \/ Stop \/ StopShutsDown \/ StopFindsNone \/ StopFails \/ StopReturns
    \/ \E p \in BOOLEAN : Pause(p)
    \/ PauseSaved

Spec == Init /\ [][Next]_vars

(* A hook's process goes on: each of its waits has a timeout.  Nothing is      *)
(* assumed of the daemon, of the processes that start one or of users.         *)
FairSpec == Spec /\ \A h \in Hooks : WF_vars(Hook(h))

-----------------------------------------------------------------------------
PC == {"idle", "check", "start", "await", "send", "wait", "fallback", "answered"}

TypeOK ==
    /\ at \in [Hooks -> PC]
    /\ answer \in [Hooks -> Answers \cup {"none", "failed"}]
    /\ \A h \in Hooks : answer[h] # "none" <=> at[h] = "answered"
    /\ task \in [Hooks -> {"none", "lost"} \cup Pending \cup Answers]
    /\ starter \in [Starters -> {"none", "spawned", "cleared", "loaded", "done"}]
    /\ loaded \in [Starters -> BOOLEAN]
    /\ daemon \in {"down", "up", "stopping"}
    /\ daemon = "down" => \A h \in Hooks : task[h] \notin Pending
    /\ marker \in BOOLEAN
    /\ paused \in BOOLEAN /\ pauseFile \in BOOLEAN
    /\ user \in {"idle", "stop", "stopWait", "pauseFile"}
    /\ commands \in 0..MaxCommands /\ crashes \in 0..MaxCrashes
    /\ stopped \in BOOLEAN /\ missed \in BOOLEAN
    /\ want \in {"on", "off", "doubt"}
    /\ seen \in [Hooks -> BOOLEAN] /\ kept \in [Hooks -> BOOLEAN]

(* A hook lets something through unscanned only if a pause was wanted, or in   *)
(* doubt, at some time while it ran: whether the daemon or the direct mode     *)
(* answers, and through daemons that end and start, no pause outlives the      *)
(* resume that has reached the file.  (A resume whose write failed answers as  *)
(* if it had not, and leaves it in doubt whether scanning is paused.)          *)
SkippedOnlyWhenPaused == \A h \in Hooks : answer[h] = "skip" => seen[h]

(* Nothing is scanned, and so nothing blocked, in a hook that began and ended  *)
(* while a pause was in the memory and in the file, whoever answered it.       *)
PauseHonoured == \A h \in Hooks : answer[h] = "scanned" => ~kept[h]

(* When `daemon stop` has said that the daemon is stopped, or not running, no  *)
(* daemon serves until a user starts one: hooks that find none respect the     *)
(* marker.  Unless the marker could not be written, or a daemon that was up    *)
(* was too slow to be found: then the command says so all the same.            *)
StopIsKept == stopped /\ ~missed => daemon # "up"

(* Every hook is answered, whatever becomes of the daemon: no agent waits for  *)
(* ever.                                                                       *)
HookIsAnswered == \A h \in Hooks : at[h] = "check" ~> at[h] = "answered"
=============================================================================

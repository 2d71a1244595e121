------------------------- MODULE HookRequestProofs -------------------------
(* Proofs about HookRequest, for any number of hooks and any bounds.           *)
EXTENDS HookRequest, TLAPS

(* Every variable keeps its type; a hook has an answer when it has ended and   *)
(* only then, and a daemon that is gone has left no request under way          *)
(* (cli.py, daemon/client.py, daemon/server.py).                               *)
THEOREM TypeCorrect == Spec => []TypeOK
<1>1. Init => TypeOK
  <2> SUFFICES ASSUME Init
               PROVE  TypeOK
    OBVIOUS
  <2>1. at \in [Hooks -> PC] /\ answer \in [Hooks -> Answers \cup {"none", "failed"}]
        /\ \A h \in Hooks : answer[h] # "none" <=> at[h] = "answered"
    BY DEF Init, PC, Answers
  <2>2. task \in [Hooks -> {"none", "lost"} \cup Pending \cup Answers]
        /\ \A h \in Hooks : task[h] \notin Pending
    BY DEF Init, Pending, Answers
  <2>3. marker \in BOOLEAN /\ paused \in BOOLEAN /\ pauseFile \in BOOLEAN
        /\ stopped \in BOOLEAN /\ missed \in BOOLEAN
    BY DEF Init
  <2>4. want \in {"on", "off", "doubt"}
    BY DEF Init
  <2>5. commands \in 0..MaxCommands /\ crashes \in 0..MaxCrashes
    BY RequestAssumption DEF Init
  <2>6. starter \in [Starters -> {"none", "spawned", "cleared", "loaded", "done"}]
        /\ loaded \in [Starters -> BOOLEAN]
    BY DEF Init
  <2> QED  BY <2>1, <2>2, <2>3, <2>4, <2>5, <2>6 DEF Init, TypeOK
<1>2. TypeOK /\ [Next]_vars => TypeOK'
  <2> SUFFICES ASSUME TypeOK, [Next]_vars
               PROVE  TypeOK'
    OBVIOUS
  <2> USE DEF TypeOK, PC, Answers, Pending, Starters, client, starts, pause, counts, stops, Go, Reply, Handle
  <2>1. ASSUME NEW h \in Hooks, Begin(h) \/ Reject(h) \/ FindRunning(h) \/ FindNone(h) \/ Refuse(h)
        PROVE  TypeOK'
    <3>1. CASE Begin(h)
      BY <3>1 DEF Begin
    <3>2. CASE Reject(h)
      BY <3>2 DEF Reject
    <3>3. CASE FindRunning(h) \/ FindNone(h) \/ Refuse(h)
      BY <3>3 DEF FindRunning, FindNone, Refuse
    <3> QED  BY <2>1, <3>1, <3>2, <3>3
  <2>2. ASSUME NEW h \in Hooks, Spawn(h) \/ FindStarted(h) \/ AwaitTimesOut(h)
        PROVE  TypeOK'
    BY <2>2 DEF Spawn, FindStarted, AwaitTimesOut
  <2>3. ASSUME NEW h \in Hooks, Send(h) \/ SendFails(h) \/ GiveUp(h)
        PROVE  TypeOK'
    BY <2>3 DEF Send, SendFails, GiveUp
  <2>4. ASSUME NEW h \in Hooks, Receive(h) \/ Fallback(h)
        PROVE  TypeOK'
    BY <2>4 DEF Receive, Fallback
  <2>5. ASSUME NEW h \in Hooks, HandleStart(h) \/ HandleScan(h) \/ HandlerFails(h)
        PROVE  TypeOK'
    BY <2>5 DEF HandleStart, HandleScan, HandlerFails
  <2>6. ASSUME NEW s \in Starters, StarterClears(s) \/ StarterLoads(s) \/ StarterServes(s)
        PROVE  TypeOK'
    <3>1. CASE StarterClears(s)
      BY <3>1 DEF StarterClears
    <3>2. CASE StarterLoads(s)
      BY <3>2 DEF StarterLoads
    <3>3. CASE StarterServes(s)
      BY <3>3 DEF StarterServes
    <3> QED  BY <2>6, <3>1, <3>2, <3>3
  <2>7. CASE Crash
    <3>1. task' \in [Hooks -> {"none", "lost"} \cup Pending \cup Answers]
          /\ \A h \in Hooks : task'[h] \notin Pending
      BY <2>7 DEF Crash, Ends, Lost
    <3>2. crashes' \in 0..MaxCrashes
      BY <2>7, RequestAssumption DEF Crash
    <3> QED  BY <2>7, <3>1, <3>2 DEF Crash, Ends
  <2>8. CASE DaemonStops
    <3>1. task' \in [Hooks -> {"none", "lost"} \cup Pending \cup Answers]
          /\ \A h \in Hooks : task'[h] \notin Pending
      BY <2>8 DEF DaemonStops, Ends, Lost
    <3> QED  BY <2>8, <3>1 DEF DaemonStops, Ends
  <2>9. CASE Start \/ Stop
    <3>1. commands' \in 0..MaxCommands
      BY <2>9, RequestAssumption DEF Start, Stop, Command
    <3>2. CASE Start
      BY <3>1, <3>2 DEF Start, Command
    <3>3. CASE Stop
      BY <3>1, <3>3 DEF Stop, Command
    <3> QED  BY <2>9, <3>2, <3>3
  <2>10. CASE StopShutsDown \/ StopFindsNone \/ StopFails \/ StopReturns
    BY <2>10 DEF StopShutsDown, StopFindsNone, StopFails, StopReturns
  <2>11. ASSUME NEW p \in BOOLEAN, Pause(p)
         PROVE  TypeOK'
    <3>1. commands' \in 0..MaxCommands
      BY <2>11, RequestAssumption DEF Pause, Command
    <3> QED  BY <2>11, <3>1 DEF Pause, Command
  <2>12. CASE PauseSaved
    BY <2>12 DEF PauseSaved, Wanted
  <2>13. CASE UNCHANGED vars
    BY <2>13 DEF vars
  <2> QED  BY <2>1, <2>2, <2>3, <2>4, <2>5, <2>6, <2>7, <2>8, <2>9, <2>10, <2>11, <2>12, <2>13
           DEF Next, Hook
<1> QED  BY <1>1, <1>2, PTL DEF Spec

-----------------------------------------------------------------------------
(* What keeps a stop that has written its marker: from then until a user       *)
(* starts the daemon again, the marker is there and no start is under way; and *)
(* once it has reached the daemon, or found none, none serves.                 *)
StopHolds ==
    /\ ~missed /\ (stopped \/ user \in {"stop", "stopWait"}) => marker /\ NoStartUnderWay
    /\ ~missed /\ (stopped \/ user = "stopWait") => daemon # "up"

(* When no command overlaps the start of a daemon and `daemon stop` says that  *)
(* the daemon is stopped, or not running, none serves until a user starts one: *)
(* no hook undoes it.  It takes that the marker was written, and that a daemon *)
(* that was up was found (cli_handlers.py, daemon stop; client.py,             *)
(* is_daemon_running, start_daemon_background).                                *)
THEOREM StopLasts ==
    ASSUME ~Overlap
    PROVE  Spec => []StopIsKept
<1>1. Init => StopHolds
  BY DEF Init, StopHolds, NoStartUnderWay
<1>2. TypeOK /\ StopHolds /\ [Next]_vars => StopHolds'
  <2> SUFFICES ASSUME TypeOK, StopHolds, [Next]_vars
               PROVE  StopHolds'
    OBVIOUS
  <2> USE DEF StopHolds, NoStartUnderWay, client, starts, pause, counts, stops, Go, Reply, Handle
  <2>1. ASSUME NEW h \in Hooks, Begin(h) \/ Reject(h) \/ FindRunning(h) \/ FindNone(h) \/ Refuse(h)
        PROVE  StopHolds'
    BY <2>1 DEF Begin, Reject, FindRunning, FindNone, Refuse, TypeOK
  <2>2. ASSUME NEW h \in Hooks, Spawn(h) \/ FindStarted(h) \/ AwaitTimesOut(h)
        PROVE  StopHolds'
    BY <2>2 DEF Spawn, FindStarted, AwaitTimesOut, TypeOK
  <2>3. ASSUME NEW h \in Hooks, Send(h) \/ SendFails(h) \/ GiveUp(h) \/ Receive(h) \/ Fallback(h)
        PROVE  StopHolds'
    BY <2>3 DEF Send, SendFails, GiveUp, Receive, Fallback, TypeOK
  <2>4. ASSUME NEW h \in Hooks, HandleStart(h) \/ HandleScan(h) \/ HandlerFails(h)
        PROVE  StopHolds'
    BY <2>4 DEF HandleStart, HandleScan, HandlerFails
  <2>5. ASSUME NEW s \in Starters, StarterClears(s) \/ StarterLoads(s) \/ StarterServes(s)
        PROVE  StopHolds'
    <3>1. ~NoStartUnderWay
      BY <2>5 DEF StarterClears, StarterLoads, StarterServes
    <3>2. ~missed => ~stopped /\ user \notin {"stop", "stopWait"}
      <4> HIDE DEF NoStartUnderWay
      <4> QED  BY <3>1
    <3>3. UNCHANGED <<stopped, missed, user>>
      BY <2>5 DEF StarterClears, StarterLoads, StarterServes
    <3> QED  BY <3>2, <3>3
  <2>6. CASE Crash \/ DaemonStops
    BY <2>6 DEF Crash, DaemonStops, Ends
  <2>7. CASE Start
    BY <2>7 DEF Start, Command
  <2>8. CASE Stop
    <3>1. ~missed' => marker' = TRUE
      BY <2>8 DEF Stop, TypeOK
    <3>2. ~Overlap => NoStartUnderWay'
      BY <2>8 DEF Stop, Command
    <3>3. stopped' = FALSE /\ user' = "stop"
      BY <2>8 DEF Stop
    <3> QED  BY <3>1, <3>2, <3>3
  <2>9. CASE StopShutsDown \/ StopFindsNone \/ StopFails \/ StopReturns
    BY <2>9 DEF StopShutsDown, StopFindsNone, StopFails, StopReturns, TypeOK
  <2>10. ASSUME NEW p \in BOOLEAN, Pause(p)
         PROVE  StopHolds'
    BY <2>10 DEF Pause, Command
  <2>11. CASE PauseSaved
    BY <2>11 DEF PauseSaved, Wanted
  <2>12. CASE UNCHANGED vars
    BY <2>12 DEF vars
  <2> QED  BY <2>1, <2>2, <2>3, <2>4, <2>5, <2>6, <2>7, <2>8, <2>9, <2>10, <2>11, <2>12
           DEF Next, Hook
<1>3. StopHolds => StopIsKept
  BY DEF StopHolds, StopIsKept
<1> QED  BY <1>1, <1>2, <1>3, TypeCorrect, PTL DEF Spec

-----------------------------------------------------------------------------
Active == {h \in Hooks : at[h] \notin {"idle", "answered"}}

(* Once a resume has succeeded, no copy of the pause is left: not in the       *)
(* daemon, not in the file, not in a process that is about to become the       *)
(* daemon; and until another is asked for, only hooks that saw the old one     *)
(* carry it.                                                                   *)
NoneLeft ==
    /\ want = "off" => ~pauseFile /\ ~paused /\ \A s \in Starters : ~loaded[s]
    /\ want # "off" => \A h \in Active : seen[h]

(* Once a pause has succeeded, every copy has it.                              *)
AllHaveIt ==
    /\ want = "on" =>
          /\ pauseFile
          /\ daemon # "down" => paused
          /\ \A s \in Starters : starter[s] = "loaded" => loaded[s]
    /\ \A h \in Active : kept[h] => want = "on"

(* No process reads the file while it is being changed, and a hook starts a    *)
(* daemon once.                                                                *)
FileIsRead ==
    /\ user = "pauseFile" => want = "doubt" /\ \A s \in Starters : starter[s] # "loaded"
    /\ \A s \in Starters : loaded[s] => starter[s] = "loaded"
    /\ \A h \in Hooks : at[h] \in {"idle", "check", "start"} => starter[h] = "none"

(* What the daemon has made of a request whose hook still waits.               *)
Handled ==
    \A h \in Hooks : at[h] = "wait" =>
       /\ task[h] = "skip" => seen[h]
       /\ task[h] \in {"scanning", "scanned"} => ~kept[h]

PausesHold == NoneLeft /\ AllHaveIt /\ FileIsRead /\ Handled /\ SkippedOnlyWhenPaused /\ PauseHonoured

(* The invariant is established and kept by every step when no command         *)
(* overlaps the start of a daemon.                                             *)
LEMMA PausesInductive ==
    ASSUME ~Overlap
    PROVE  Spec => []PausesHold
<1> USE DEF Active
<1>1. Init => PausesHold
  <2> SUFFICES ASSUME Init
               PROVE  PausesHold
    OBVIOUS
  <2>1. NoneLeft
    BY DEF Init, NoneLeft
  <2>2. AllHaveIt /\ FileIsRead
    BY DEF Init, Starters, AllHaveIt, FileIsRead
  <2>3. Handled /\ SkippedOnlyWhenPaused /\ PauseHonoured
    BY DEF Init, Handled, SkippedOnlyWhenPaused, PauseHonoured
  <2> QED  BY <2>1, <2>2, <2>3 DEF PausesHold
<1>2. TypeOK /\ PausesHold /\ [Next]_vars => PausesHold'
  <2> SUFFICES ASSUME TypeOK, PausesHold, [Next]_vars
               PROVE  PausesHold'
    OBVIOUS
  <2> USE DEF PausesHold, NoneLeft, AllHaveIt, FileIsRead, Handled, SkippedOnlyWhenPaused, PauseHonoured,
              client, starts, pause, counts, stops, Go, Reply, Handle, Answers, Starters
  <2>1. ASSUME NEW h \in Hooks, Begin(h)
        PROVE  PausesHold'
    BY <2>1 DEF Begin, TypeOK
  <2>2. ASSUME NEW h \in Hooks, Reject(h)
        PROVE  PausesHold'
    BY <2>2 DEF Reject, TypeOK
  <2>3. ASSUME NEW h \in Hooks, FindRunning(h) \/ FindNone(h) \/ Refuse(h)
        PROVE  PausesHold'
    <3>1. PICK to \in {"send", "fallback", "start"} : at' = [at EXCEPT ![h] = to]
      BY <2>3 DEF FindRunning, FindNone, Refuse
    <3>2. at[h] \in {"check", "start"}
      BY <2>3 DEF FindRunning, FindNone, Refuse
    <3>3. UNCHANGED <<answer, task, starter, loaded, daemon, paused, pauseFile, user, want, seen, kept>>
      BY <2>3 DEF FindRunning, FindNone, Refuse
    <3> QED  BY <3>1, <3>2, <3>3 DEF TypeOK
  <2>4. ASSUME NEW h \in Hooks, Spawn(h)
        PROVE  PausesHold'
    BY <2>4 DEF Spawn, TypeOK
  <2>5. ASSUME NEW h \in Hooks, FindStarted(h) \/ AwaitTimesOut(h)
        PROVE  PausesHold'
    BY <2>5 DEF FindStarted, AwaitTimesOut, TypeOK
  <2>6. ASSUME NEW h \in Hooks, Send(h)
        PROVE  PausesHold'
    BY <2>6 DEF Send, TypeOK
  <2>7. ASSUME NEW h \in Hooks, SendFails(h) \/ GiveUp(h)
        PROVE  PausesHold'
    BY <2>7 DEF SendFails, GiveUp, TypeOK
  <2>8. ASSUME NEW h \in Hooks, Receive(h)
        PROVE  PausesHold'
    BY <2>8 DEF Receive, TypeOK
  <2>9. ASSUME NEW h \in Hooks, Fallback(h)
        PROVE  PausesHold'
    <3>1. PICK a \in Answers : (a = "skip" <=> pauseFile) /\ answer' = [answer EXCEPT ![h] = a]
      BY <2>9 DEF Fallback
    <3> QED  BY <2>9, <3>1 DEF Fallback, TypeOK
  <2>10. ASSUME NEW h \in Hooks, HandleStart(h)
         PROVE  PausesHold'
    BY <2>10 DEF HandleStart, TypeOK
  <2>11. ASSUME NEW h \in Hooks, HandleScan(h) \/ HandlerFails(h)
         PROVE  PausesHold'
    BY <2>11 DEF HandleScan, HandlerFails, TypeOK
  <2>12. ASSUME NEW s \in Starters, StarterClears(s)
         PROVE  PausesHold'
    BY <2>12 DEF StarterClears, TypeOK
  <2>13. ASSUME NEW s \in Starters, StarterLoads(s)
         PROVE  PausesHold'
    BY <2>13 DEF StarterLoads, TypeOK
  <2>14. ASSUME NEW s \in Starters, StarterServes(s)
         PROVE  PausesHold'
    BY <2>14 DEF StarterServes, TypeOK
  <2>15. CASE Crash \/ DaemonStops
    BY <2>15 DEF Crash, DaemonStops, Ends, Lost, Pending, TypeOK
  <2>16. CASE Start
    BY <2>16, RequestAssumption DEF Start, Command, TypeOK
  <2>17. CASE Stop \/ StopShutsDown \/ StopFindsNone \/ StopFails \/ StopReturns
    BY <2>17 DEF Stop, Command, StopShutsDown, StopFindsNone, StopFails, StopReturns, TypeOK
  <2>18. ASSUME NEW p \in BOOLEAN, Pause(p)
         PROVE  PausesHold'
    BY <2>18 DEF Pause, Command, NoStartUnderWay, TypeOK
  <2>19. CASE PauseSaved
    BY <2>19 DEF PauseSaved, Wanted, TypeOK
  <2>20. CASE UNCHANGED vars
    BY <2>20 DEF vars
  <2> QED  BY <2>1, <2>2, <2>3, <2>4, <2>5, <2>6, <2>7, <2>8, <2>9, <2>10, <2>11, <2>12, <2>13,
              <2>14, <2>15, <2>16, <2>17, <2>18, <2>19, <2>20
           DEF Next, Hook
<1> QED  BY <1>1, <1>2, TypeCorrect, PTL DEF Spec

(* When no command overlaps the start of a daemon, no hook is let through      *)
(* unscanned by a pause that was withdrawn before it began (state.py, resume   *)
(* and is_paused_on_disk; cli.py, main).                                       *)
THEOREM NoPauseSurvives ==
    ASSUME ~Overlap
    PROVE  Spec => []SkippedOnlyWhenPaused
BY PausesInductive, PTL DEF PausesHold

(* When no command overlaps the start of a daemon, a pause that lasts          *)
(* throughout a hook keeps it from being scanned, whoever answers (state.py,   *)
(* pause; cli.py, main).                                                       *)
THEOREM NoPauseIsMissed ==
    ASSUME ~Overlap
    PROVE  Spec => []PauseHonoured
BY PausesInductive, PTL DEF PausesHold
=============================================================================

----------------------- MODULE SecurityInjectionProofs -----------------------
(* Proofs about SecurityInjection, for any numbers of sessions, handlers and   *)
(* Timer threads.                                                              *)
EXTENDS SecurityInjection, TLAPS

LEMMA ContentType ==
    ASSUME injected \in SUBSET Sessions, reinject \in SUBSET Sessions
    PROVE  Content \in Record /\ Empty \in Record
BY DEF Content, Empty, Record

(* Every variable keeps its type, and a hook under way has a session.          *)
THEOREM TypeCorrect == Spec => []TypeOK
<1>1. Init => TypeOK
  <2> SUFFICES ASSUME Init
               PROVE  TypeOK
    OBVIOUS
  <2>1. Empty \in Record
    BY DEF Empty, Record
  <2>2. copy \in [Timers \cup {"main"} -> Record] /\ file \in Record
    BY <2>1 DEF Init
  <2>3. at \in [Hooks -> HookPC] /\ on \in [Hooks -> Sessions \cup {NoSession}]
    BY DEF Init, HookPC
  <2>4. timer \in [Timers -> {"free", "waiting", "fired", "write"}]
    BY DEF Init
  <2> QED  BY <2>2, <2>3, <2>4 DEF Init, TypeOK
<1>2. TypeOK /\ [Next]_vars => TypeOK'
  <2> SUFFICES ASSUME TypeOK, [Next]_vars
               PROVE  TypeOK'
    OBVIOUS
  <2> USE DEF process, rules
  <2> DEFINE HooksOK == /\ at' \in [Hooks -> HookPC]
                        /\ on' \in [Hooks -> Sessions \cup {NoSession}]
                        /\ \A h \in Hooks : at'[h] # "idle" => on'[h] \in Sessions
             TimersOK == /\ timer' \in [Timers -> {"free", "waiting", "fired", "write"}]
                         /\ copy' \in [Timers \cup {"main"} -> Record]
  <2>m. ASSUME NEW h \in Hooks, NEW p \in HookPC, NEW s \in Sessions \cup {NoSession},
               MoveHook(h, p, s), p # "idle" => s \in Sessions
        PROVE  HooksOK
    BY <2>m DEF MoveHook, TypeOK
  <2>h. ASSUME UNCHANGED hooks
        PROVE  HooksOK
    BY <2>h DEF hooks, TypeOK
  <2>t. ASSUME UNCHANGED <<timer, copy>>
        PROVE  TimersOK
    BY <2>t DEF TypeOK
  <2>c. Content \in Record /\ Empty \in Record
    BY ContentType DEF TypeOK
  <2>x. Cancelled \in [Timers -> {"free", "waiting", "fired", "write"}]
    BY DEF Cancelled, TypeOK
  <2>p. {"idle", "mark", "schedule", "scheduleRules", "reply"} = HookPC
    BY DEF HookPC
  <2>o. \A h \in Hooks : on[h] \in Sessions \cup {NoSession} /\ (at[h] # "idle" => on[h] \in Sessions)
    BY DEF TypeOK
  <2>f. file \in Record /\ file.injected \in SUBSET Sessions /\ file.reinject \in SUBSET Sessions
    BY DEF TypeOK, Record
  <2> HIDE DEF HooksOK, TimersOK
  <2>q. ASSUME HooksOK, TimersOK, injected' \in SUBSET Sessions, reinject' \in SUBSET Sessions,
               old' \in SUBSET Sessions, owed' \in SUBSET Sessions, lost' \in SUBSET owed', dirty' \in BOOLEAN,
               clean' \in BOOLEAN, failed' \in BOOLEAN, file' \in Record,
               main' \in {"off", "run", "stop", "flush", "flushed"}, stopper' \in {"main", "thread"}
        PROVE  TypeOK'
    BY <2>q DEF TypeOK, HooksOK, TimersOK
  <2>1. CASE StartDaemon
    BY <2>1, <2>f, <2>h, <2>t, <2>q DEF StartDaemon, TypeOK, saving
  <2>e. ASSUME Ends
        PROVE  HooksOK /\ TimersOK /\ main' \in {"off", "run", "stop", "flush", "flushed"}
               /\ stopper' \in {"main", "thread"} /\ dirty' \in BOOLEAN
    BY <2>e, <2>p, <2>c DEF Ends, HooksOK, TimersOK
  <2>u. Unsaved \in SUBSET owed
    BY DEF Unsaved
  <2>2. CASE Crash
    BY <2>2, <2>e, <2>u, <2>q DEF Crash, TypeOK, memory
  <2>3. CASE \E s \in Sessions : GrowOld(s)
    BY <2>3, <2>h, <2>t, <2>q DEF GrowOld, TypeOK, memory, saving
  <2>4. ASSUME NEW h \in Hooks, NEW s \in Sessions, Prompt(h, s)
        PROVE  TypeOK'
    <3>1. HooksOK
      BY <2>4, <2>m, <2>p DEF Prompt
    <3> QED  BY <2>4, <3>1, <2>t, <2>q DEF Prompt, TypeOK, memory, saving
  <2>5. ASSUME NEW h \in Hooks, MarkInjected(h)
        PROVE  TypeOK'
    <3>1. on[h] \in Sessions
      BY <2>5, <2>o DEF MarkInjected
    <3>2. HooksOK
      BY <2>5, <2>m, <2>p, <3>1 DEF MarkInjected
    <3> QED  BY <2>5, <3>1, <3>2, <2>t, <2>q DEF MarkInjected, TypeOK, saving
  <2>6. ASSUME NEW h \in Hooks, NEW s \in Sessions, MarkReinject(h, s)
        PROVE  TypeOK'
    <3>1. HooksOK
      BY <2>6, <2>m, <2>p DEF MarkReinject
    <3> QED  BY <2>6, <3>1, <2>t, <2>q DEF MarkReinject, TypeOK, saving
  <2>7. ASSUME NEW h \in Hooks, NEW s \in Sessions, EndSession(h, s)
        PROVE  TypeOK'
    <3>1. HooksOK
      BY <2>7, <2>m, <2>p DEF EndSession
    <3> QED  BY <2>7, <3>1, <2>t, <2>q DEF EndSession, TypeOK, saving
  <2>8. ASSUME NEW h \in Hooks, NEW w \in Timers, Schedule(h, w)
        PROVE  TypeOK'
    <3>1. HooksOK
      <4>1. CASE at[h] = "scheduleRules"
        <5>1. MoveHook(h, "reply", on[h]) /\ on[h] \in Sessions
          BY <2>8, <2>o, <4>1 DEF Schedule
        <5> QED  BY <5>1, <2>m, <2>p
      <4>2. CASE at[h] # "scheduleRules"
        <5>1. MoveHook(h, "idle", NoSession)
          BY <2>8, <4>2 DEF Schedule
        <5> QED  BY <5>1, <2>m, <2>p
      <4> QED  BY <4>1, <4>2
    <3>2. TimersOK
      BY <2>8, <2>x DEF Schedule, TimersOK, TypeOK
    <3> QED  BY <2>8, <3>1, <3>2, <2>q DEF Schedule, TypeOK, memory
  <2>9. ASSUME NEW h \in Hooks, Reply(h)
        PROVE  TypeOK'
    <3>1. HooksOK
      BY <2>9, <2>m, <2>p DEF Reply
    <3> QED  BY <2>9, <3>1, <2>t, <2>q DEF Reply, TypeOK, memory, saving
  <2>10. ASSUME NEW w \in Timers, Fire(w)
         PROVE  TypeOK'
    <3>1. TimersOK
      BY <2>10 DEF Fire, TimersOK, TypeOK
    <3> QED  BY <2>10, <3>1, <2>h, <2>q DEF Fire, TypeOK, memory
  <2>11. ASSUME NEW w \in Timers, PersistSessions(w)
         PROVE  TypeOK'
    <3>1. TimersOK
      BY <2>11, <2>c DEF PersistSessions, TimersOK, TypeOK
    <3> QED  BY <2>11, <3>1, <2>h, <2>q DEF PersistSessions, TypeOK, memory
  <2>12. ASSUME NEW w \in Timers, WriteCopy(w)
         PROVE  TypeOK'
    <3>1. TimersOK
      BY <2>12, <2>c DEF WriteCopy, TimersOK, TypeOK
    <3>2. file' \in Record /\ failed' \in BOOLEAN
      BY <2>12 DEF WriteCopy, Written, TypeOK
    <3> QED  BY <2>12, <3>1, <3>2, <2>h, <2>q DEF WriteCopy, TypeOK, memory
  <2>17. ASSUME NEW h \in Hooks, ReplyLost(h)
         PROVE  TypeOK'
    <3>1. HooksOK
      BY <2>17, <2>m, <2>p DEF ReplyLost
    <3> QED  BY <2>17, <3>1, <2>t, <2>q DEF ReplyLost, TypeOK, memory, saving
  <2>18. ASSUME NEW x \in {"main", "thread"}, Stop(x)
         PROVE  TypeOK'
    BY <2>18, <2>h, <2>t, <2>q DEF Stop, TypeOK, memory, saving
  <2>13. CASE Flush
    <3>1. TimersOK
      BY <2>13, <2>c, <2>x DEF Flush, TimersOK, TypeOK
    <3>2. main' \in {"off", "run", "stop", "flush", "flushed"} /\ clean' \in BOOLEAN
      BY <2>13 DEF Flush, Undisturbed
    <3> QED  BY <2>13, <3>1, <3>2, <2>h, <2>q DEF Flush, TypeOK, memory
  <2>14. CASE FlushWrite
    <3>1. TimersOK
      BY <2>14, <2>c DEF FlushWrite, TimersOK, TypeOK
    <3>2. file' \in Record /\ failed' \in BOOLEAN /\ clean' \in BOOLEAN
      BY <2>14 DEF FlushWrite, Written, TypeOK
    <3> QED  BY <2>14, <3>1, <3>2, <2>h, <2>q DEF FlushWrite, TypeOK, memory
  <2>15. CASE Exit
    BY <2>15, <2>e, <2>u, <2>q DEF Exit, TypeOK, memory
  <2>16. CASE UNCHANGED vars
    BY <2>16, <2>h, <2>t, <2>q DEF vars, TypeOK, hooks
  <2> QED  BY <2>1, <2>2, <2>3, <2>4, <2>5, <2>6, <2>7, <2>8, <2>9, <2>10, <2>11, <2>12, <2>13, <2>14, <2>15, <2>16, <2>17, <2>18
           DEF Next
<1> QED  BY <1>1, <1>2, PTL DEF Spec

-----------------------------------------------------------------------------
(* A write is done before the next timer fires.                                *)
PromptWrites == ~SlowWrites

SameContent(c) == c.injected \ old = injected \ old /\ c.reinject \ old = reinject \ old

Saving == main \in {"run", "stop"}

Scheduling == \E h \in Hooks : at[h] \in {"schedule", "scheduleRules"}

(* While a change is not in the file, a hook is about to schedule its save, a  *)
(* timer is waiting or has fired, or the one timer that writes has a copy that *)
(* holds it.                                                                   *)
SaveInv ==
    /\ \A v, w \in Timers : Busy(v) /\ Busy(w) => v = w
    /\ main = "off" => ~dirty /\ \A w \in Timers : timer[w] = "free"
    /\ Saving /\ dirty => \E w \in Timers : timer[w] \in {"waiting", "fired"}
    /\ Saving /\ ~dirty /\ ~Scheduling =>
          /\ \A w \in Timers : timer[w] = "write" => SameContent(copy[w])
          /\ (\A w \in Timers : timer[w] # "write") => SameContent(file) \/ failed

(* With prompt writes that is always so.                                       *)
LEMMA SaveInvHolds ==
    ASSUME PromptWrites
    PROVE  Spec => []SaveInv
<1>1. Init => SaveInv
  BY DEF Init, SaveInv, Saving, Busy
<1>2. TypeOK /\ TypeOK' /\ SaveInv /\ [Next]_vars => SaveInv'
  <2> SUFFICES ASSUME TypeOK, TypeOK', SaveInv, [Next]_vars
               PROVE  SaveInv'
    OBVIOUS
  <2> USE DEF process, rules, Saving
  <2>k. ASSUME UNCHANGED <<injected, reinject, dirty, timer, copy, file, failed>>, old \subseteq old',
               Saving' => Saving, main' = "off" => main = "off",
               Scheduling => Scheduling'
        PROVE  SaveInv'
    <3>1. \A c : SameContent(c) => SameContent(c)'
      BY <2>k DEF SameContent
    <3> QED  BY <2>k, <3>1 DEF SaveInv, Busy
  <2>s. ASSUME Scheduling', UNCHANGED <<dirty, timer, main>>
        PROVE  SaveInv'
    BY <2>s DEF SaveInv, Busy
  <2>m. ASSUME NEW h \in Hooks, NEW p, NEW u, MoveHook(h, p, u)
        PROVE  at'[h] = p /\ \A g \in Hooks : g # h => at'[g] = at[g]
    BY <2>m DEF MoveHook, TypeOK
  <2>n. ASSUME NEW h \in Hooks, NEW p, NEW u, MoveHook(h, p, u), at[h] \in {"idle", "reply"}
        PROVE  Scheduling => Scheduling'
    BY <2>n, <2>m DEF Scheduling
  <2>1. CASE StartDaemon
    <3>1. SameContent(file)'
      BY <2>1 DEF StartDaemon, SameContent, saving
    <3> QED  BY <2>1, <3>1 DEF StartDaemon, SaveInv, Busy, saving
  <2>2. CASE Crash \/ Exit
    BY <2>2 DEF Crash, Exit, Ends, SaveInv, Busy
  <2>3. CASE \E s \in Sessions : GrowOld(s)
    <3>1. Scheduling => Scheduling'
      BY <2>3 DEF GrowOld, hooks, Scheduling
    <3> QED  BY <2>3, <2>k, <3>1 DEF GrowOld, memory, saving
  <2>4. ASSUME NEW h \in Hooks, NEW s \in Sessions, Prompt(h, s)
        PROVE  SaveInv'
    BY <2>4, <2>k, <2>n DEF Prompt, Idle, memory, saving
  <2>5. ASSUME NEW h \in Hooks, MarkInjected(h)
        PROVE  SaveInv'
    <3>1. Scheduling'
      BY <2>5, <2>m DEF MarkInjected, Scheduling
    <3> QED  BY <2>5, <2>s, <3>1 DEF MarkInjected, saving
  <2>6. ASSUME NEW h \in Hooks, NEW s \in Sessions, MarkReinject(h, s) \/ EndSession(h, s)
        PROVE  SaveInv'
    <3>1. Scheduling'
      BY <2>6, <2>m DEF MarkReinject, EndSession, Scheduling
    <3> QED  BY <2>6, <2>s, <3>1 DEF MarkReinject, EndSession, saving
  <2>7. ASSUME NEW h \in Hooks, NEW w \in Timers, Schedule(h, w)
        PROVE  SaveInv'
    <3>1. timer'[w] = "waiting" /\ dirty' /\ main' # "off"
      BY <2>7 DEF Schedule, Cancelled, TypeOK
    <3>2. \A v \in Timers : Busy(v)' => Busy(v)
      BY <2>7 DEF Schedule, Cancelled, Busy, TypeOK
    <3> QED  BY <3>1, <3>2 DEF SaveInv
  <2>8. ASSUME NEW h \in Hooks, Reply(h) \/ ReplyLost(h)
        PROVE  SaveInv'
    BY <2>8, <2>k, <2>n DEF Reply, ReplyLost, memory, saving
  <2>9. ASSUME NEW w \in Timers, Fire(w)
        PROVE  SaveInv'
    <3>1. timer'[w] = "fired" /\ \A v \in Timers : v # w => timer'[v] = timer[v] /\ ~Busy(v)
      BY <2>9 DEF Fire, PromptWrites, TypeOK
    <3>2. \A v \in Timers : Busy(v)' => v = w
      BY <3>1 DEF Busy
    <3>3. \A v \in Timers : timer'[v] # "write" /\ timer[v] # "write"
      BY <2>9, <3>1 DEF Fire, Busy
    <3>4. UNCHANGED <<injected, reinject, old, dirty, copy, file, main, failed>> /\ main # "off" /\ (Scheduling => Scheduling')
      BY <2>9 DEF Fire, memory, hooks, Scheduling
    <3> QED  BY <3>1, <3>2, <3>3, <3>4 DEF SaveInv, SameContent
  <2>10. ASSUME NEW w \in Timers, PersistSessions(w)
         PROVE  SaveInv'
    <3>1. UNCHANGED <<injected, reinject, old, file, main, failed>> /\ main # "off" /\ dirty' = FALSE /\ (Scheduling => Scheduling')
      BY <2>10 DEF PersistSessions, memory, hooks, Scheduling
    <3>2. \A v \in Timers : v # w => timer'[v] = timer[v] /\ ~Busy(v)
      BY <2>10 DEF PersistSessions, SaveInv, Busy, TypeOK
    <3>3. \A v \in Timers : Busy(v)' => v = w
      BY <3>2 DEF Busy
    <3>4. CASE dirty
      <4>1. timer'[w] = "write" /\ copy'[w] = Content
        BY <2>10, <3>4 DEF PersistSessions, TypeOK
      <4>2. SameContent(copy[w])'
        BY <3>1, <4>1 DEF SameContent, Content
      <4>3. \A v \in Timers : timer'[v] = "write" => v = w
        BY <3>3 DEF Busy
      <4> QED  BY <3>1, <3>3, <4>1, <4>2, <4>3 DEF SaveInv
    <3>5. CASE ~dirty
      <4>1. \A v \in Timers : timer'[v] # "write" /\ timer[v] # "write"
        BY <2>10, <3>2, <3>5 DEF PersistSessions, Busy, TypeOK
      <4> QED  BY <3>1, <3>3, <3>5, <4>1 DEF SaveInv, SameContent
    <3> QED  BY <3>4, <3>5
  <2>11. ASSUME NEW w \in Timers, WriteCopy(w)
         PROVE  SaveInv'
    <3>1. UNCHANGED <<injected, reinject, old, dirty, main>> /\ main # "off" /\ (Scheduling => Scheduling')
      BY <2>11 DEF WriteCopy, memory, hooks, Scheduling
    <3>2. file' = copy[w] \/ failed'
      BY <2>11 DEF WriteCopy, Written, PromptWrites
    <3>3. timer'[w] = "free" /\ \A v \in Timers : v # w => timer'[v] = timer[v] /\ ~Busy(v)
      BY <2>11 DEF WriteCopy, SaveInv, Busy, TypeOK
    <3>4. \A v \in Timers : ~Busy(v)' /\ timer'[v] # "write"
      BY <3>3 DEF Busy
    <3>5. dirty /\ Saving => \E v \in Timers : timer'[v] \in {"waiting", "fired"}
      BY <2>11, <3>3 DEF SaveInv, WriteCopy
    <3>6. Saving /\ ~dirty /\ ~Scheduling => SameContent(copy[w])
      BY <2>11 DEF SaveInv, WriteCopy
    <3> QED  BY <3>1, <3>2, <3>4, <3>5, <3>6 DEF SaveInv, SameContent
  <2>15. ASSUME NEW t \in {"main", "thread"}, Stop(t)
         PROVE  SaveInv'
    <3>1. Scheduling => Scheduling'
      BY <2>15 DEF Stop, hooks, Scheduling
    <3> QED  BY <2>15, <2>k, <3>1 DEF Stop, memory, saving
  <2>12. CASE Flush
    <3>1. main' \notin {"run", "stop", "off"} /\ \A v \in Timers : Busy(v)' => Busy(v)
      BY <2>12 DEF Flush, Cancelled, Busy, TypeOK
    <3> QED  BY <3>1 DEF SaveInv
  <2>13. CASE FlushWrite
    BY <2>13 DEF FlushWrite, SaveInv, Busy
  <2>14. CASE UNCHANGED vars
    <3>1. Scheduling => Scheduling'
      BY <2>14 DEF vars, Scheduling
    <3> QED  BY <2>14, <2>k, <3>1 DEF vars
  <2> QED  BY <2>1, <2>2, <2>3, <2>4, <2>5, <2>6, <2>7, <2>8, <2>9, <2>10, <2>11, <2>12, <2>13, <2>14, <2>15 DEF Next
<1> QED  BY <1>1, <1>2, TypeCorrect, PTL DEF Spec

(* No change of the sessions is forgotten by the debounce: with prompt writes, *)
(* once no timer is left and no hook is about to start one, the file is right  *)
(* (_schedule_persist and _persist_sessions).                                  *)
THEOREM NothingForgotten ==
    ASSUME PromptWrites
    PROVE  Spec => []QuietIsSaved
<1>1. SaveInv => QuietIsSaved
  BY DEF SaveInv, Saving, QuietIsSaved, Scheduling, SameContent, Saved
<1> QED  BY <1>1, SaveInvHolds, PTL

-----------------------------------------------------------------------------
(* While an undisturbed flush goes on nothing is left to save but its copy.    *)
FlushInv ==
    clean =>
        /\ main \notin {"run", "stop"}
        /\ main = "flush" => SameContent(copy["main"])
        /\ main \in {"flushed", "off"} => SameContent(file)
        /\ main # "off" => ~dirty /\ ~Scheduling /\ \A w \in Timers : timer[w] # "write"

LEMMA FlushInvHolds ==
    ASSUME PromptWrites
    PROVE  Spec => []FlushInv
<1>1. Init => FlushInv
  BY DEF Init, FlushInv
<1>2. TypeOK /\ SaveInv /\ FlushInv /\ [Next]_vars => FlushInv'
  <2> SUFFICES ASSUME TypeOK, SaveInv, FlushInv, [Next]_vars
               PROVE  FlushInv'
    OBVIOUS
  <2> USE DEF process, rules
  <2>k. ASSUME UNCHANGED <<injected, reinject, dirty, copy, file, failed, main, clean>>, old \subseteq old',
               \A w \in Timers : timer'[w] = "write" => timer[w] = "write",
               Scheduling' => Scheduling
        PROVE  FlushInv'
    <3>1. \A c : SameContent(c) => SameContent(c)'
      BY <2>k DEF SameContent
    <3> QED  BY <2>k, <3>1 DEF FlushInv
  <2>c. ASSUME clean' = FALSE
        PROVE  FlushInv'
    BY <2>c DEF FlushInv
  <2>m. ASSUME NEW h \in Hooks, NEW p \in {"mark", "idle", "reply"}, NEW u, MoveHook(h, p, u)
        PROVE  Scheduling' => Scheduling
    BY <2>m DEF MoveHook, Scheduling, TypeOK
  <2>1. CASE StartDaemon \/ Crash
    BY <2>1, <2>c DEF StartDaemon, Crash
  <2>2. CASE \E s \in Sessions : GrowOld(s)
    <3>1. Scheduling' => Scheduling
      BY <2>2 DEF GrowOld, hooks, Scheduling
    <3> QED  BY <2>2, <2>k, <3>1 DEF GrowOld, memory, saving
  <2>3. ASSUME NEW h \in Hooks, NEW s \in Sessions, Prompt(h, s)
        PROVE  FlushInv'
    BY <2>3, <2>k, <2>m DEF Prompt, memory, saving
  <2>4. ASSUME NEW h \in Hooks, MarkInjected(h)
        PROVE  FlushInv'
    BY <2>4, <2>c DEF MarkInjected
  <2>5. ASSUME NEW h \in Hooks, NEW s \in Sessions, MarkReinject(h, s) \/ EndSession(h, s)
        PROVE  FlushInv'
    BY <2>5, <2>c DEF MarkReinject, EndSession
  <2>6. ASSUME NEW h \in Hooks, NEW w \in Timers, Schedule(h, w)
        PROVE  FlushInv'
    <3>1. Scheduling /\ main # "off" /\ clean' = clean
      BY <2>6 DEF Schedule, Scheduling
    <3> QED  BY <3>1 DEF FlushInv
  <2>7. ASSUME NEW h \in Hooks, Reply(h) \/ ReplyLost(h)
        PROVE  FlushInv'
    BY <2>7, <2>k, <2>m DEF Reply, ReplyLost, memory, saving
  <2>8. ASSUME NEW w \in Timers, Fire(w)
        PROVE  FlushInv'
    <3>1. \A v \in Timers : timer'[v] = "write" => timer[v] = "write"
      BY <2>8 DEF Fire, TypeOK
    <3>2. Scheduling' => Scheduling
      BY <2>8 DEF Fire, hooks, Scheduling
    <3> QED  BY <2>8, <2>k, <3>1, <3>2 DEF Fire, memory
  <2>9. ASSUME NEW w \in Timers, PersistSessions(w)
        PROVE  FlushInv'
    <3>1. CASE clean
      <4>1. ~dirty
        BY <2>9, <3>1 DEF PersistSessions, FlushInv
      <4>2. \A v \in Timers : timer'[v] = "write" => timer[v] = "write"
        BY <2>9, <4>1 DEF PersistSessions, TypeOK
      <4>3. Scheduling' => Scheduling
        BY <2>9 DEF PersistSessions, hooks, Scheduling
      <4>4. UNCHANGED <<dirty, copy>>
        BY <2>9, <4>1 DEF PersistSessions, TypeOK
      <4> QED  BY <2>9, <2>k, <4>2, <4>3, <4>4 DEF PersistSessions, memory
    <3>2. CASE ~clean
      BY <2>9, <3>2 DEF PersistSessions, FlushInv
    <3> QED  BY <3>1, <3>2
  <2>10. ASSUME NEW w \in Timers, WriteCopy(w)
         PROVE  FlushInv'
    BY <2>10 DEF WriteCopy, FlushInv
  <2>15. ASSUME NEW t \in {"main", "thread"}, Stop(t)
         PROVE  FlushInv'
    BY <2>15 DEF Stop, FlushInv
  <2>11. CASE Flush
    <3> SUFFICES ASSUME clean'
                 PROVE  FlushInv'
      BY DEF FlushInv
    <3>1. Undisturbed /\ ~failed /\ main = "stop" /\ ~dirty'
      BY <2>11 DEF Flush
    <3>2. ~Scheduling /\ ~Scheduling'
      BY <2>11, <3>1 DEF Flush, Undisturbed, Scheduling, hooks
    <3>3. \A w \in Timers : timer[w] # "write" /\ timer'[w] # "write"
      BY <2>11, <3>1 DEF Flush, Undisturbed, Cancelled
    <3>4. UNCHANGED <<injected, reinject, old, file, failed>>
      BY <2>11 DEF Flush, memory
    <3>5. CASE dirty
      <4>1. main' = "flush" /\ copy'["main"] = Content
        BY <2>11, <3>5 DEF Flush, TypeOK
      <4>2. SameContent(copy["main"])'
        BY <3>4, <4>1 DEF SameContent, Content
      <4> QED  BY <3>1, <3>2, <3>3, <4>1, <4>2 DEF FlushInv
    <3>6. CASE ~dirty
      <4>1. main' = "flushed"
        BY <2>11, <3>6 DEF Flush
      <4>2. SameContent(file)
        BY <3>1, <3>2, <3>3, <3>6 DEF SaveInv, Saving
      <4>3. SameContent(file)'
        BY <3>4, <4>2 DEF SameContent
      <4> QED  BY <3>1, <3>2, <3>3, <4>1, <4>3 DEF FlushInv
    <3> QED  BY <3>5, <3>6
  <2>12. CASE FlushWrite
    <3>1. UNCHANGED <<injected, reinject, old, dirty, timer>> /\ main = "flush" /\ main' = "flushed"
      BY <2>12 DEF FlushWrite, memory
    <3>2. Scheduling' = Scheduling
      BY <2>12 DEF FlushWrite, hooks, Scheduling
    <3>3. clean' => clean /\ file' = copy["main"]
      BY <2>12 DEF FlushWrite, Written
    <3> QED  BY <3>1, <3>2, <3>3 DEF FlushInv, SameContent
  <2>13. CASE Exit
    <3>1. UNCHANGED <<injected, reinject, old, file>> /\ main' = "off"
      BY <2>13 DEF Exit, Ends, memory
    <3>2. clean' => clean /\ main = "flushed"
      BY <2>13 DEF Exit
    <3> QED  BY <3>1, <3>2 DEF FlushInv, SameContent
  <2>14. CASE UNCHANGED vars
    <3>1. Scheduling' => Scheduling
      BY <2>14 DEF vars, Scheduling
    <3> QED  BY <2>14, <2>k, <3>1 DEF vars
  <2> QED  BY <2>1, <2>2, <2>3, <2>4, <2>5, <2>6, <2>7, <2>8, <2>9, <2>10, <2>11, <2>12, <2>13, <2>14, <2>15 DEF Next
<1> QED  BY <1>1, <1>2, SaveInvHolds, TypeCorrect, PTL DEF Spec

(* A stop whose flush came to its end, did not fail and was overlapped neither *)
(* by a hook nor by a timer's write leaves the sessions in the file, though a  *)
(* timer had yet to fire (server.py, stop; state.py, flush_sessions).          *)
THEOREM OrderlyStopSaves ==
    ASSUME PromptWrites
    PROVE  Spec => []FlushSaves
<1>1. FlushInv => FlushSaves
  BY DEF FlushInv, FlushSaves, SameContent, Saved
<1> QED  BY <1>1, FlushInvHolds, PTL

-----------------------------------------------------------------------------
(* While there is a process, memory or a reply has the rules for a session     *)
(* that is owed them; while there is none, the file has.  A session that is    *)
(* too old for the file is a new one to the next daemon.                       *)
RulesInv ==
    /\ main # "off" => \A s \in owed \ lost : ShouldInject(s) \/ Giving(s)
    /\ main = "off" => \A s \in owed \ lost : s \in file.reinject \/ s \notin file.injected \/ s \in old

(* While a flush stays undisturbed no hook is about to reply with the rules.   *)
NoneGiven == clean => \A h \in Hooks : at[h] \in {"idle", "mark"}

(* After a block or a compaction the session is due the rules, or a reply with *)
(* them is on its way to it, through orderly stops and through crashes that    *)
(* found the flag in the file; unless a reply that had taken the flag with it  *)
(* was lost (should_inject_security, mark_security_injected,                   *)
(* mark_security_reinject, in any interleaving; flush and load).               *)
THEOREM RulesAreGiven ==
    ASSUME PromptWrites
    PROVE  Spec => []RulesFollowBlock
<1>1. Init => RulesInv /\ NoneGiven
  BY DEF Init, RulesInv, NoneGiven
<1>2. TypeOK /\ NoneGiven /\ [Next]_vars => NoneGiven'
  <2> SUFFICES ASSUME TypeOK, NoneGiven, [Next]_vars, clean', NEW g \in Hooks
               PROVE  at'[g] \in {"idle", "mark"}
    BY DEF NoneGiven
  <2> USE DEF process, rules, NoneGiven
  <2>1. CASE StartDaemon \/ Crash
    BY <2>1 DEF StartDaemon, Crash
  <2>2. CASE Exit
    BY <2>2 DEF Exit, Ends
  <2>3. ASSUME NEW h \in Hooks, NEW s \in Sessions, Prompt(h, s) \/ MarkReinject(h, s) \/ EndSession(h, s)
        PROVE  at'[g] \in {"idle", "mark"}
    BY <2>3 DEF Prompt, MarkReinject, EndSession, MoveHook, TypeOK
  <2>4. ASSUME NEW h \in Hooks, MarkInjected(h) \/ Reply(h) \/ ReplyLost(h)
        PROVE  at'[g] \in {"idle", "mark"}
    BY <2>4 DEF MarkInjected, Reply, ReplyLost, MoveHook, TypeOK
  <2>5. ASSUME NEW h \in Hooks, NEW w \in Timers, Schedule(h, w)
        PROVE  at'[g] \in {"idle", "mark"}
    BY <2>5 DEF Schedule, MoveHook, TypeOK
  <2>6. CASE Flush
    BY <2>6 DEF Flush, Undisturbed, hooks
  <2>7. CASE FlushWrite
    BY <2>7 DEF FlushWrite, hooks
  <2>8. CASE \E w \in Timers : Fire(w) \/ PersistSessions(w) \/ WriteCopy(w)
    BY <2>8 DEF Fire, PersistSessions, WriteCopy, hooks
  <2>9. CASE (\E s \in Sessions : GrowOld(s)) \/ (\E t \in {"main", "thread"} : Stop(t)) \/ UNCHANGED vars
    BY <2>9 DEF GrowOld, Stop, vars, hooks
  <2> QED  BY <2>1, <2>2, <2>3, <2>4, <2>5, <2>6, <2>7, <2>8, <2>9 DEF Next
<1>3. TypeOK /\ FlushInv /\ NoneGiven /\ RulesInv /\ [Next]_vars => RulesInv'
  <2> SUFFICES ASSUME TypeOK, FlushInv, NoneGiven, RulesInv, [Next]_vars
               PROVE  RulesInv'
    OBVIOUS
  <2> USE DEF process, rules
  <2> DEFINE Due(s) == ShouldInject(s) \/ Giving(s)
  <2>k. ASSUME UNCHANGED <<injected, reinject, at, on, owed, lost>>, main # "off", main' # "off"
        PROVE  RulesInv'
    BY <2>k DEF RulesInv, Giving, ShouldInject
  <2>m. ASSUME NEW h \in Hooks, NEW p, NEW u, MoveHook(h, p, u)
        PROVE  /\ at'[h] = p /\ on'[h] = u
               /\ \A g \in Hooks : g # h => at'[g] = at[g] /\ on'[g] = on[g]
    BY <2>m DEF MoveHook, TypeOK
  <2>n. ASSUME main # "off", main' # "off", \A s \in owed' \ lost' : Due(s)'
        PROVE  RulesInv'
    BY <2>n DEF RulesInv
  <2>o. ASSUME main # "off", NEW s \in owed \ lost
        PROVE  Due(s)
    BY <2>o DEF RulesInv
  <2>1. CASE StartDaemon
    BY <2>1 DEF StartDaemon, RulesInv, ShouldInject
  <2>e. ASSUME lost' = lost \cup Unsaved, UNCHANGED <<file, old, owed>>, main' = "off"
        PROVE  RulesInv'
    BY <2>e DEF RulesInv, Unsaved
  <2>2. CASE Crash
    BY <2>2, <2>e DEF Crash, Ends
  <2>3. CASE Exit
    <3>1. CASE main = "flushed" /\ clean
      <4>1. UNCHANGED <<file, old, owed, lost>> /\ main' = "off"
        BY <2>3, <3>1 DEF Exit, Ends
      <4>2. SameContent(file)
        BY <3>1 DEF FlushInv
      <4>3. \A s : ~Giving(s)
        BY <3>1 DEF NoneGiven, Giving
      <4>4. \A s \in owed \ lost : ShouldInject(s)
        BY <2>o, <3>1, <4>3
      <4> QED  BY <4>1, <4>2, <4>4 DEF RulesInv, SameContent, ShouldInject
    <3>2. CASE ~(main = "flushed" /\ clean)
      BY <2>3, <2>e, <3>2 DEF Exit, Ends
    <3> QED  BY <3>1, <3>2
  <2>4. CASE \E u \in Sessions : GrowOld(u)
    BY <2>4 DEF GrowOld, memory, saving, hooks, RulesInv, Giving, ShouldInject
  <2>5. ASSUME NEW h \in Hooks, NEW u \in Sessions, Prompt(h, u)
        PROVE  RulesInv'
    <3> SUFFICES ASSUME NEW s \in owed \ lost
                 PROVE  Due(s)'
      BY <2>5, <2>n DEF Prompt, Idle
    <3> QED  BY <2>5, <2>m, <2>o DEF Prompt, Idle, memory, Giving, ShouldInject
  <2>6. ASSUME NEW h \in Hooks, MarkInjected(h)
        PROVE  RulesInv'
    <3> SUFFICES ASSUME NEW s \in owed \ lost
                 PROVE  Due(s)'
      BY <2>6, <2>n DEF MarkInjected
    <3>1. CASE s = on[h]
      BY <2>6, <2>m, <3>1 DEF MarkInjected, Giving
    <3>2. CASE s # on[h]
      BY <2>6, <2>m, <2>o, <3>2 DEF MarkInjected, Giving, ShouldInject
    <3> QED  BY <3>1, <3>2
  <2>7. ASSUME NEW h \in Hooks, NEW u \in Sessions, MarkReinject(h, u) \/ EndSession(h, u)
        PROVE  RulesInv'
    <3> SUFFICES ASSUME NEW s \in owed' \ lost'
                 PROVE  Due(s)'
      BY <2>7, <2>n DEF MarkReinject, EndSession, Idle
    <3>1. CASE s = u
      BY <2>7, <3>1 DEF MarkReinject, EndSession, ShouldInject
    <3>2. CASE s # u
      BY <2>7, <2>m, <2>o, <3>2 DEF MarkReinject, EndSession, Idle, Giving, ShouldInject
    <3> QED  BY <3>1, <3>2
  <2>8. ASSUME NEW h \in Hooks, NEW w \in Timers, Schedule(h, w)
        PROVE  RulesInv'
    <3> SUFFICES ASSUME NEW s \in owed \ lost
                 PROVE  Due(s)'
      BY <2>8, <2>n DEF Schedule
    <3>1. ASSUME NEW g \in Hooks, on[g] = s, at[g] \in {"scheduleRules", "reply"}
          PROVE  Giving(s)'
      <4>1. CASE g = h
        BY <2>8, <2>m, <3>1, <4>1 DEF Schedule, Giving
      <4>2. CASE g # h
        <5>1. at'[g] = at[g] /\ on'[g] = on[g]
          BY <2>8, <2>m, <4>2 DEF Schedule
        <5> QED  BY <3>1, <5>1 DEF Giving
      <4> QED  BY <4>1, <4>2
    <3>2. ShouldInject(s) => ShouldInject(s)'
      BY <2>8 DEF Schedule, memory, ShouldInject
    <3>3. ShouldInject(s) \/ Giving(s)
      BY <2>8, <2>o DEF Schedule
    <3> QED  BY <3>1, <3>2, <3>3 DEF Giving
  <2>9. ASSUME NEW h \in Hooks, Reply(h) \/ ReplyLost(h)
        PROVE  RulesInv'
    <3> SUFFICES ASSUME NEW s \in owed' \ lost'
                 PROVE  Due(s)'
      BY <2>9, <2>n DEF Reply, ReplyLost
    <3>1. s \in owed \ lost /\ s # on[h]
      BY <2>9 DEF Reply, ReplyLost
    <3> QED  BY <2>9, <2>m, <2>o, <3>1 DEF Reply, ReplyLost, memory, Giving, ShouldInject
  <2>10. CASE \E w \in Timers : Fire(w) \/ PersistSessions(w) \/ WriteCopy(w)
    BY <2>10, <2>k DEF Fire, PersistSessions, WriteCopy, memory, hooks
  <2>11. CASE Flush \/ FlushWrite \/ \E t \in {"main", "thread"} : Stop(t)
    BY <2>11, <2>k DEF Flush, FlushWrite, Stop, memory, hooks
  <2>12. CASE UNCHANGED vars
    BY <2>12 DEF vars, RulesInv, Giving, ShouldInject
  <2> QED  BY <2>1, <2>2, <2>3, <2>4, <2>5, <2>6, <2>7, <2>8, <2>9, <2>10, <2>11, <2>12 DEF Next
<1>4. RulesInv => RulesFollowBlock
  BY DEF RulesInv, RulesFollowBlock
<1> QED  BY <1>1, <1>2, <1>3, <1>4, FlushInvHolds, TypeCorrect, PTL DEF Spec
=============================================================================

------------------------- MODULE SecurityInjection -------------------------
(* The daemon's record of which agent sessions have been given the security   *)
(* rules (daemon/state.py, "Security injection tracking" and "Session         *)
(* persistence"; hook_processing.py, _build_security_message).  A prompt gets  *)
(* the rules when its session has not had them or was flagged after a block;   *)
(* the check, the mark and the reply are separate steps.  Every change is      *)
(* saved by a debounced timer: a new one replaces the one that waits, but not  *)
(* one that has fired, and the file is written without the lock.               *)
EXTENDS Naturals

CONSTANTS
    Sessions,    \* session keys
    Hooks,       \* handler threads that serve hooks
    Timers,      \* Timer threads alive at once: the bound of the model
    NoSession,   \* a handler thread that serves nothing
    SlowWrites   \* may a write of the file take longer than the debounce?

ASSUME InjectionAssumption ==
    /\ NoSession \notin Sessions
    /\ SlowWrites \in BOOLEAN

VARIABLES
    injected, reinject,  \* _security_injected_sessions, _security_reinject_sessions
    old,       \* sessions whose last activity is more than SESSION_TTL ago
    dirty,     \* _sessions_dirty
    timer,     \* the Timer threads: waiting, fired, or writing their copy
    copy,      \* the copies being written, by the main thread and by timers
    file,      \* the sessions file
    at, on,    \* where each hook is, and its session
    main,      \* the process: serving, stopping, in flush_sessions, past it; or none
    stopper,   \* the thread that runs stop(): the main thread, or one of the daemon threads
    owed,      \* history: sessions with a block or compaction not yet followed by the rules
    lost,      \* history: those whose rules went with a reply, or whose flag with a process
    clean,     \* history: flush_sessions was undisturbed, came to its end and did not fail
    failed     \* history: did the last write of the file fail?

memory == <<injected, reinject>>
hooks == <<at, on>>
saving == <<dirty, timer, copy, file>>
process == <<main, stopper>>
rules == <<owed, lost>>
vars == <<injected, reinject, old, dirty, timer, copy, file, at, on, main, stopper, owed,
          lost, clean, failed>>

Record == [injected : SUBSET Sessions, reinject : SUBSET Sessions]

(* _build_sessions_dict_locked leaves old sessions out.                        *)
Content == [injected |-> injected \ old, reinject |-> reinject \ old]

Saved == file.injected \ old = injected \ old /\ file.reinject \ old = reinject \ old

Empty == [injected |-> {}, reinject |-> {}]

-----------------------------------------------------------------------------
Init ==
    /\ injected = {} /\ reinject = {} /\ old = {}
    /\ dirty = FALSE
    /\ timer = [w \in Timers |-> "free"]
    /\ copy = [w \in Timers \cup {"main"} |-> Empty]
    /\ file = Empty
    /\ at = [h \in Hooks |-> "idle"]
    /\ on = [h \in Hooks |-> NoSession]
    /\ main = "off" /\ stopper = "main"
    /\ owed = {} /\ lost = {}
    /\ clean = FALSE
    /\ failed = FALSE

(* _load_sessions, in the constructor.                                         *)
StartDaemon ==
    /\ main = "off"
    /\ main' = "run"
    /\ injected' = file.injected \ old
    /\ reinject' = file.reinject \ old
    /\ clean' = FALSE
    /\ failed' = FALSE
    /\ UNCHANGED <<old, saving, hooks, stopper, rules>>

(* The end of the process: its daemon threads, timers and handlers, end with   *)
(* it.  (What memory held is kept to be compared with the file.)               *)
Ends ==
    /\ main' = "off" /\ stopper' = "main"
    /\ dirty' = FALSE
    /\ timer' = [w \in Timers |-> "free"]
    /\ copy' = [w \in Timers \cup {"main"} |-> Empty]
    /\ at' = [h \in Hooks |-> "idle"]
    /\ on' = [h \in Hooks |-> NoSession]

(* The sessions that are owed the rules, while the file has it that they had   *)
(* them.                                                                       *)
Unsaved == {s \in owed : s \in file.injected \ old /\ s \notin file.reinject}

Crash ==
    /\ main # "off"
    /\ Ends
    /\ lost' = lost \cup Unsaved
    /\ clean' = FALSE
    /\ UNCHANGED <<memory, old, file, owed, failed>>

(* A day without activity.                                                     *)
GrowOld(s) ==
    /\ s \notin old
    /\ old' = old \cup {s}
    /\ UNCHANGED <<memory, saving, hooks, process, rules, clean, failed>>

-----------------------------------------------------------------------------
(* Serving hooks.                                                              *)
Idle(h) == main # "off" /\ at[h] = "idle"

MoveHook(h, pc, s) ==
    /\ at' = [at EXCEPT ![h] = pc]
    /\ on' = [on EXCEPT ![h] = s]

ShouldInject_FirstOnly(s) == s \notin injected    \* mutant: the flag is not looked at

(* should_inject_security.                                                     *)
ShouldInject(s) == s \in reinject \/ s \notin injected

(* A prompt that finds the rules due; one that does not changes nothing.       *)
Prompt(h, s) ==
    /\ Idle(h)
    /\ ShouldInject(s)
    /\ MoveHook(h, "mark", s)
    /\ UNCHANGED <<memory, old, saving, process, rules, clean, failed>>

(* mark_security_injected, before its _schedule_persist.                       *)
MarkInjected(h) ==
    /\ main # "off" /\ at[h] = "mark"
    /\ injected' = injected \cup {on[h]}
    /\ reinject' = reinject \ {on[h]}
    /\ old' = old \ {on[h]}
    /\ MoveHook(h, "scheduleRules", on[h])
    /\ clean' = FALSE
    /\ UNCHANGED <<saving, process, rules, failed>>

(* A blocked hook, or PostCompact: mark_security_reinject.                     *)
MarkReinject(h, s) ==
    /\ Idle(h)
    /\ reinject' = reinject \cup {s}
    /\ old' = old \ {s}
    /\ owed' = owed \cup {s} /\ lost' = lost \ {s}
    /\ MoveHook(h, "schedule", s)
    /\ clean' = FALSE
    /\ UNCHANGED <<injected, saving, process, failed>>

(* SessionEnd: cleanup_session_state.                                          *)
EndSession(h, s) ==
    /\ Idle(h)
    /\ injected' = injected \ {s}
    /\ reinject' = reinject \ {s}
    /\ old' = old \ {s}
    /\ owed' = owed \ {s} /\ lost' = lost \ {s}
    /\ MoveHook(h, "schedule", s)
    /\ clean' = FALSE
    /\ UNCHANGED <<saving, process, failed>>

(* _schedule_persist: cancel the timer that waits, if any, and start another.  *)
Cancelled == [w \in Timers |-> IF timer[w] = "waiting" THEN "free" ELSE timer[w]]

Schedule_CancelOnly(h, w) ==    \* mutant: no new timer
    /\ main # "off" /\ at[h] \in {"schedule", "scheduleRules"}
    /\ Cancelled[w] = "free"
    /\ dirty' = TRUE
    /\ timer' = Cancelled
    /\ IF at[h] = "scheduleRules" THEN MoveHook(h, "reply", on[h]) ELSE MoveHook(h, "idle", NoSession)
    /\ UNCHANGED <<memory, old, copy, file, process, rules, clean, failed>>

Schedule_LoseSession(h, w) ==    \* mutant: the reply has lost its session
    /\ main # "off" /\ at[h] \in {"schedule", "scheduleRules"}
    /\ Cancelled[w] = "free"
    /\ dirty' = TRUE
    /\ timer' = [Cancelled EXCEPT ![w] = "waiting"]
    /\ MoveHook(h, IF at[h] = "scheduleRules" THEN "reply" ELSE "idle", NoSession)
    /\ UNCHANGED <<memory, old, copy, file, process, rules, clean, failed>>

Schedule(h, w) ==
    /\ main # "off" /\ at[h] \in {"schedule", "scheduleRules"}
    /\ Cancelled[w] = "free"
    /\ dirty' = TRUE
    /\ timer' = [Cancelled EXCEPT ![w] = "waiting"]
    /\ IF at[h] = "scheduleRules" THEN MoveHook(h, "reply", on[h]) ELSE MoveHook(h, "idle", NoSession)
    /\ UNCHANGED <<memory, old, copy, file, process, rules, clean, failed>>

(* The reply carries the rules to the agent.                                   *)
Reply(h) ==
    /\ main # "off" /\ at[h] = "reply"
    /\ owed' = owed \ {on[h]} /\ lost' = lost \ {on[h]}
    /\ MoveHook(h, "idle", NoSession)
    /\ UNCHANGED <<memory, old, saving, process, clean, failed>>

(* Or it does not arrive: an exception later in the hook answers without the   *)
(* rules, the connection ends, or the client has given up.                     *)
ReplyLost(h) ==
    /\ main # "off" /\ at[h] = "reply"
    /\ lost' = lost \cup (owed \cap {on[h]})
    /\ MoveHook(h, "idle", NoSession)
    /\ UNCHANGED <<memory, old, saving, process, owed, clean, failed>>

-----------------------------------------------------------------------------
(* Saving.  A Timer thread fires, takes the lock in _persist_sessions, and     *)
(* writes what it copied.                                                      *)
Busy(w) == timer[w] \in {"fired", "write"}

Fire(w) ==
    /\ main # "off" /\ timer[w] = "waiting"
    /\ SlowWrites \/ \A v \in Timers : ~Busy(v)
    /\ timer' = [timer EXCEPT ![w] = "fired"]
    /\ UNCHANGED <<memory, old, dirty, copy, file, hooks, process, rules, clean, failed>>

PersistSessions(w) ==
    /\ main # "off" /\ timer[w] = "fired"
    /\ dirty' = FALSE
    /\ IF dirty
       THEN /\ timer' = [timer EXCEPT ![w] = "write"]
            /\ copy' = [copy EXCEPT ![w] = Content]
       ELSE /\ timer' = [timer EXCEPT ![w] = "free"]
            /\ UNCHANGED copy
    /\ UNCHANGED <<memory, old, file, hooks, process, rules, clean, failed>>

(* _write_sessions_file replaces the file, or its OSError is swallowed.        *)
Written(c) ==
    \/ file' = c /\ failed' = FALSE
    \/ file' = file /\ failed' = TRUE

WriteCopy_ClearDirty(w) ==    \* mutant: dirty is cleared after the write
    /\ main # "off" /\ timer[w] = "write"
    /\ Written(copy[w])
    /\ timer' = [timer EXCEPT ![w] = "free"]
    /\ copy' = [copy EXCEPT ![w] = Empty]
    /\ dirty' = FALSE
    /\ UNCHANGED <<memory, old, hooks, process, rules, clean>>

WriteCopy(w) ==
    /\ main # "off" /\ timer[w] = "write"
    /\ Written(copy[w])
    /\ timer' = [timer EXCEPT ![w] = "free"]
    /\ copy' = [copy EXCEPT ![w] = Empty]
    /\ UNCHANGED <<memory, old, dirty, hooks, process, rules, clean>>

Undisturbed ==
    /\ \A h \in Hooks : at[h] = "idle"
    /\ \A w \in Timers : timer[w] # "write"

(* stop() clears _running: in the main thread for a signal or an end of the    *)
(* accept loop, in a daemon thread for a shutdown message or the idle timeout. *)
(* The hooks of handler threads may go on until the process ends.              *)
Stop(t) ==
    /\ main = "run"
    /\ main' = "stop" /\ stopper' = t
    /\ UNCHANGED <<memory, old, saving, hooks, rules, clean, failed>>

Flush_TimerOnly ==    \* mutant: nothing to save where no timer waits
    /\ main = "stop"
    /\ dirty' = FALSE
    /\ timer' = Cancelled
    /\ IF dirty /\ \E w \in Timers : timer[w] = "waiting"
       THEN main' = "flush" /\ copy' = [copy EXCEPT !["main"] = Content]
       ELSE main' = "flushed" /\ UNCHANGED copy
    /\ clean' = (Undisturbed /\ ~failed)
    /\ UNCHANGED <<memory, old, file, hooks, stopper, rules, failed>>

(* flush_sessions, in the same thread.                                         *)
Flush ==
    /\ main = "stop"
    /\ dirty' = FALSE
    /\ timer' = Cancelled
    /\ IF dirty
       THEN main' = "flush" /\ copy' = [copy EXCEPT !["main"] = Content]
       ELSE main' = "flushed" /\ UNCHANGED copy
    /\ clean' = (Undisturbed /\ ~failed)
    /\ UNCHANGED <<memory, old, file, hooks, stopper, rules, failed>>

FlushWrite ==
    /\ main = "flush"
    /\ Written(copy["main"])
    /\ main' = "flushed"
    /\ copy' = [copy EXCEPT !["main"] = Empty]
    /\ clean' = (clean /\ ~failed')
    /\ UNCHANGED <<memory, old, dirty, timer, hooks, stopper, rules>>

(* A stop() in the main thread comes before the end of the process.  For one   *)
(* in another thread the main thread does not wait: its accept loop sees       *)
(* _running and ends.                                                          *)
Exit ==
    /\ main = "flushed" \/ (stopper = "thread" /\ main \in {"stop", "flush"})
    /\ Ends
    /\ IF main = "flushed" /\ clean
       THEN UNCHANGED <<lost, clean>>
       ELSE lost' = lost \cup Unsaved /\ clean' = FALSE
    /\ UNCHANGED <<memory, old, file, owed, failed>>

-----------------------------------------------------------------------------
Next ==
    \/ StartDaemon
    \/ Crash
    \/ \E s \in Sessions : GrowOld(s)
    \/ \E h \in Hooks, s \in Sessions : Prompt(h, s)
    \/ \E h \in Hooks : MarkInjected(h)
    \/ \E h \in Hooks, s \in Sessions : MarkReinject(h, s)
    \/ \E h \in Hooks, s \in Sessions : EndSession(h, s)
    \/ \E h \in Hooks, w \in Timers : Schedule(h, w)
    \/ \E h \in Hooks : Reply(h)
    \/ \E h \in Hooks : ReplyLost(h)
    \/ \E w \in Timers : Fire(w)
    \/ \E w \in Timers : PersistSessions(w)
    \/ \E w \in Timers : WriteCopy(w)
    \/ \E t \in {"main", "thread"} : Stop(t)
    \/ Flush
    \/ FlushWrite
    \/ Exit

Spec == Init /\ [][Next]_vars

(* Handler threads and Timer threads run when they can.  No fairness for what  *)
(* agents and the user decide, nor for the end of the process.                 *)
Fairness ==
    /\ \A h \in Hooks :
           /\ WF_vars(MarkInjected(h))
           /\ WF_vars(\E w \in Timers : Schedule(h, w))
           /\ WF_vars(Reply(h) \/ ReplyLost(h))
    /\ \A w \in Timers :
           /\ WF_vars(Fire(w))
           /\ WF_vars(PersistSessions(w))
           /\ WF_vars(WriteCopy(w))

FairSpec == Spec /\ Fairness

-----------------------------------------------------------------------------
HookPC == {"idle", "mark", "schedule", "scheduleRules", "reply"}

TypeOK ==
    /\ injected \in SUBSET Sessions /\ reinject \in SUBSET Sessions /\ old \in SUBSET Sessions
    /\ dirty \in BOOLEAN
    /\ timer \in [Timers -> {"free", "waiting", "fired", "write"}]
    /\ copy \in [Timers \cup {"main"} -> Record]
    /\ file \in Record
    /\ at \in [Hooks -> HookPC]
    /\ on \in [Hooks -> Sessions \cup {NoSession}]
    /\ \A h \in Hooks : at[h] # "idle" => on[h] \in Sessions
    /\ main \in {"off", "run", "stop", "flush", "flushed"}
    /\ stopper \in {"main", "thread"}
    /\ owed \in SUBSET Sessions /\ lost \in SUBSET owed
    /\ clean \in BOOLEAN
    /\ failed \in BOOLEAN

Giving(s) == \E h \in Hooks : on[h] = s /\ at[h] \in {"scheduleRules", "reply"}

(* A session in which something was blocked, or whose context was compacted,   *)
(* is due the rules, or a reply with them is on its way to it: a prompt whose  *)
(* check and mark surround the block takes the flag away, but replies later.   *)
(* That holds across orderly stops and across crashes that the file had the    *)
(* flag before.  Nothing holds for a session after a reply that took the flag  *)
(* with it did not arrive, or a process that had not saved it ended: not until *)
(* it is flagged again.                                                        *)
RulesFollowBlock ==
    main # "off" => \A s \in owed \ lost : ShouldInject(s) \/ Giving(s)

(* Between two saves nothing is forgotten: when no hook and no timer is under  *)
(* way, the file holds what memory holds.  A timer that is cancelled, or that  *)
(* fires while a change is being marked, leaves another to save it.            *)
QuietIsSaved ==
    /\ main \in {"run", "stop"}
    /\ \A h \in Hooks : at[h] \notin {"schedule", "scheduleRules"}
    /\ \A w \in Timers : timer[w] = "free"
    => Saved \/ failed

(* When the hooks stop changing sessions while the daemon runs, their state    *)
(* reaches the file and stays there: the debounce does not put it off for      *)
(* ever.                                                                       *)
Settled == main = "run" /\ \A h \in Hooks : at[h] = "idle"
SettledIsSaved == <>[]Settled => <>[](Saved \/ failed)

(* After an orderly stop the file holds the sessions, whatever the debounce    *)
(* had put off: when a flush came to its end that did not fail and that        *)
(* neither a hook nor a timer's write overlapped.  A flush in the main thread  *)
(* always comes to its end; one in another thread may be cut off by the end of *)
(* the process, and a timer's write by the end of either.                      *)
FlushSaves == main = "off" /\ clean => Saved
=============================================================================

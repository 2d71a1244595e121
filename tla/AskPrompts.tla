----------------------------- MODULE AskPrompts -----------------------------
(* Ask prompts forwarded to host trays.  A hook with an "ask" action queues a  *)
(* prompt in its daemon and waits for a decision (ui/ask_dialog.py,            *)
(* _show_via_tray_forwarding; daemon/state.py, queue_prompt to                 *)
(* cleanup_expired_prompts).  Every tray polls the daemon, opens a dialog for  *)
(* each new prompt in a thread, and posts the user's decision (tray/app.py,    *)
(* _poll_remote_prompts).  The daemon may be restarted under open dialogs, and *)
(* the request or a decision may come when nobody waits any more.              *)
EXTENDS Integers, FiniteSets

CONSTANTS
    Invocations,  \* hook invocations that ask
    Trays,
    Decisions,    \* what a user may decide
    Fallback,     \* the outcome of the configured fallback action
    None,
    Timeout,      \* how long a hook waits, in ticks
    MaxRestarts   \* bound on restarts of the daemon

ASSUME AskAssumption ==
    /\ Fallback \notin Decisions
    /\ None \notin Decisions \cup {Fallback}
    /\ Timeout \in Nat
    /\ MaxRestarts \in Nat

MaxAge == Timeout + 2     \* bound on the clock of an invocation

VARIABLES
    instance, counter,    \* _prompt_instance and _prompt_counter of the running daemon
    id, age,              \* prompt_id and age of each invocation's prompt
    pending,              \* _pending_prompts
    result, event,        \* PendingPrompt.result and decision_event
    hook, outcome,        \* where the hook is, and what it was told
    polled,               \* each tray's last answer of /api/pending-prompts, not yet handled
    inFlight,             \* _in_flight_prompts of each tray
    dialogs,              \* each tray's open dialogs
    given, inTime,        \* history: what was decided about whom; accepted while the hook waited
    unanswered            \* history: hooks whose own dialog gave no result, and the tray the fallback

prompt == <<id, age, pending, result, event>>
history == <<given, inTime, unanswered>>
vars == <<instance, counter, id, age, pending, result, event, hook, outcome,
          polled, inFlight, dialogs, given, inTime, unanswered>>

Id == Nat \X Nat
Entry == [id : Id, about : Invocations]

Init ==
    /\ instance = 0 /\ counter = 0
    /\ id = [i \in Invocations |-> <<0, 0>>]
    /\ age = [i \in Invocations |-> 0]
    /\ pending = {} /\ event = {}
    /\ result = [i \in Invocations |-> None]
    /\ hook = [i \in Invocations |-> "new"]
    /\ outcome = [i \in Invocations |-> None]
    /\ polled = [t \in Trays |-> {}]
    /\ inFlight = [t \in Trays |-> {}]
    /\ dialogs = [t \in Trays |-> {}]
    /\ given = {} /\ inTime = {} /\ unanswered = {}

-----------------------------------------------------------------------------
(* The daemon.                                                                 *)

(* queue_prompt: the identifier names the process as well as the prompt.       *)
NewId_CounterOnly == <<0, counter + 1>>    \* mutant: the same in every process

NewId == <<instance, counter + 1>>

Queue(i) ==
    /\ hook[i] = "new"
    /\ counter' = counter + 1
    /\ id' = [id EXCEPT ![i] = NewId]
    /\ pending' = pending \cup {i}
    /\ hook' = [hook EXCEPT ![i] = "waiting"]
    /\ UNCHANGED <<instance, age, result, event, outcome, polled, inFlight, dialogs, history>>

(* decision_event.wait returns because the event is set ...                    *)
Wake(i) ==
    /\ hook[i] = "waiting" /\ i \in event
    /\ hook' = [hook EXCEPT ![i] = "done"]
    /\ outcome' = [outcome EXCEPT ![i] = IF result[i] = None THEN Fallback ELSE result[i]]
    /\ UNCHANGED <<instance, counter, prompt, polled, inFlight, dialogs, history>>

(* ... or because the time is up, which the waiter learns before it looks.     *)
TimeIsUp_NoTimeout(i) == FALSE /\ hook[i] = "waiting" /\ UNCHANGED vars    \* mutant: wait() for ever

TimeIsUp(i) ==
    /\ hook[i] = "waiting" /\ i \notin event /\ age[i] >= Timeout
    /\ hook' = [hook EXCEPT ![i] = "timedOut"]
    /\ UNCHANGED <<instance, counter, prompt, outcome, polled, inFlight, dialogs, history>>

FallBack(i) ==
    /\ hook[i] = "timedOut"
    /\ hook' = [hook EXCEPT ![i] = "done"]
    /\ outcome' = [outcome EXCEPT ![i] = Fallback]
    /\ UNCHANGED <<instance, counter, prompt, polled, inFlight, dialogs, history>>

Expired_All == pending    \* mutant: the age is not looked at

Expired == {i \in pending : age[i] > Timeout}

(* cleanup_expired_prompts, once a minute.                                     *)
CleanUp ==
    /\ Expired # {}
    /\ pending' = pending \ Expired
    /\ event' = event \cup Expired
    /\ UNCHANGED <<instance, counter, id, age, result, hook, outcome, polled, inFlight, dialogs, history>>

(* The daemon ends and another starts: its prompts and its waiting hooks are   *)
(* gone, and the count begins again.                                           *)
Restart ==
    /\ instance < MaxRestarts
    /\ instance' = instance + 1
    /\ counter' = 0
    /\ pending' = {}
    /\ hook' = [i \in Invocations |-> IF hook[i] \in {"waiting", "timedOut"} THEN "lost" ELSE hook[i]]
    /\ UNCHANGED <<id, age, result, event, outcome, polled, inFlight, dialogs, history>>

Tick ==
    /\ \E i \in Invocations : hook[i] # "new" /\ age[i] < MaxAge
    /\ age' = [i \in Invocations |-> IF hook[i] # "new" /\ age[i] < MaxAge THEN age[i] + 1 ELSE age[i]]
    /\ UNCHANGED <<instance, counter, id, pending, result, event, hook, outcome, polled, inFlight, dialogs, history>>

-----------------------------------------------------------------------------
(* The trays.                                                                  *)

(* get_pending_prompts: neither resolved nor expired.                          *)
Listed == {[id |-> id[i], about |-> i] : i \in {j \in pending : result[j] = None /\ age[j] <= Timeout}}

Poll(t) ==
    /\ polled[t] = {} /\ Listed # {}
    /\ polled' = [polled EXCEPT ![t] = Listed]
    /\ UNCHANGED <<instance, counter, prompt, hook, outcome, inFlight, dialogs, history>>

(* _handle_remote_prompt: one dialog at a time for a prompt.                   *)
Show(t, e) ==
    /\ e \in polled[t]
    /\ polled' = [polled EXCEPT ![t] = @ \ {e}]
    /\ IF e.id \in inFlight[t]
       THEN UNCHANGED <<inFlight, dialogs>>
       ELSE /\ inFlight' = [inFlight EXCEPT ![t] = @ \cup {e.id}]
            /\ dialogs' = [dialogs EXCEPT ![t] = @ \cup {e}]
    /\ UNCHANGED <<instance, counter, prompt, hook, outcome, history>>

Close_KeepsId(t, e) ==    \* mutant: the identifier stays in flight
    /\ e \in dialogs[t]
    /\ dialogs' = [dialogs EXCEPT ![t] = @ \ {e}]
    /\ UNCHANGED inFlight

Close(t, e) ==
    /\ e \in dialogs[t]
    /\ dialogs' = [dialogs EXCEPT ![t] = @ \ {e}]
    /\ inFlight' = [inFlight EXCEPT ![t] = @ \ {e.id}]

Found_Resolved(p) == {i \in pending : id[i] = p}    \* mutant: also when already resolved

(* The prompt resolve_prompt finds for an identifier.                          *)
Found(p) == {i \in pending : id[i] = p /\ result[i] = None}

Resolve(S, d) ==
    /\ result' = [i \in Invocations |-> IF i \in S THEN d ELSE result[i]]
    /\ event' = event \cup S
    /\ inTime' = inTime \cup {i \in S : hook[i] = "waiting"}

(* _show_and_respond: the user decides, or the dialog times out, and the       *)
(* decision is posted; the daemon accepts it or answers 404.                   *)
Decide(t, e, d) ==
    /\ Close(t, e)
    /\ given' = given \cup {<<e.about, d>>}
    /\ Resolve(Found(e.id), d)
    /\ UNCHANGED <<instance, counter, id, age, pending, hook, outcome, polled, unanswered>>

(* The dialog's process fails or leaves no result: the tray does not wait, it  *)
(* posts the decision that the fallback action stands for.                     *)
NoResult(t, e) ==
    /\ Close(t, e)
    /\ unanswered' = unanswered \cup (Found(e.id) \cap {e.about})
    /\ Resolve(Found(e.id), Fallback)
    /\ UNCHANGED <<instance, counter, id, age, pending, hook, outcome, polled, given>>

(* An exception on the way, or the post does not arrive.                       *)
Fail(t, e) ==
    /\ Close(t, e)
    /\ UNCHANGED <<instance, counter, prompt, hook, outcome, polled, history>>

-----------------------------------------------------------------------------
Next ==
    \/ \E i \in Invocations : Queue(i)
    \/ \E i \in Invocations : Wake(i)
    \/ \E i \in Invocations : TimeIsUp(i)
    \/ \E i \in Invocations : FallBack(i)
    \/ CleanUp
    \/ Restart
    \/ Tick
    \/ \E t \in Trays : Poll(t)
    \/ \E t \in Trays : \E e \in polled[t] : Show(t, e)
    \/ \E t \in Trays : \E e \in dialogs[t], d \in Decisions : Decide(t, e, d)
    \/ \E t \in Trays : \E e \in dialogs[t] : NoResult(t, e)
    \/ \E t \in Trays : \E e \in dialogs[t] : Fail(t, e)

Spec == Init /\ [][Next]_vars

(* Time passes and waiting threads run; no tray and no user need ever answer.  *)
FairSpec ==
    /\ Spec
    /\ WF_vars(Tick)
    /\ \A i \in Invocations : WF_vars(Wake(i)) /\ WF_vars(TimeIsUp(i)) /\ WF_vars(FallBack(i))

-----------------------------------------------------------------------------
(* A tray has one dialog for each prompt it has in flight.                     *)
OneDialogEach ==
    \A t \in Trays :
       /\ inFlight[t] = {e.id : e \in dialogs[t]}
       /\ \A e, f \in dialogs[t] : e.id = f.id => e = f

TypeOK ==
    /\ instance \in Nat /\ counter \in Nat
    /\ id \in [Invocations -> Id]
    /\ age \in [Invocations -> Nat]
    /\ pending \in SUBSET Invocations /\ event \in SUBSET Invocations
    /\ result \in [Invocations -> Decisions \cup {None, Fallback}]
    /\ hook \in [Invocations -> {"new", "waiting", "timedOut", "done", "lost"}]
    /\ outcome \in [Invocations -> Decisions \cup {None, Fallback}]
    /\ polled \in [Trays -> SUBSET Entry]
    /\ inFlight \in [Trays -> SUBSET Id]
    /\ dialogs \in [Trays -> SUBSET Entry]
    /\ OneDialogEach
    /\ given \in SUBSET (Invocations \X Decisions)
    /\ inTime \in SUBSET Invocations /\ unanswered \in SUBSET Invocations

(* A hook acts only on a decision that a dialog about that very hook gave: one *)
(* that outlives its daemon never decides an invocation of the next.           *)
OwnDecision ==
    \A i \in Invocations : outcome[i] \in Decisions => <<i, outcome[i]>> \in given

(* A hook is told the fallback only when the user has had the whole time, or   *)
(* when a tray's dialog about that very hook ended without a result, which the *)
(* tray answers with the fallback at once.                                     *)
FallbackInTime ==
    \A i \in Invocations : outcome[i] = Fallback => age[i] >= Timeout \/ i \in unanswered

(* A decision accepted while the hook waits is the one the hook acts on,       *)
(* whatever other trays, the clean-up or the clock do.                         *)
FirstDecisionCounts ==
    [][\A i \in inTime : result'[i] = result[i] /\ (outcome'[i] # outcome[i] => outcome'[i] = result[i])]_vars

(* Every hook that asks is answered, if its daemon lives, though nobody may be *)
(* at a tray.                                                                  *)
HookIsAnswered ==
    \A i \in Invocations : hook[i] = "waiting" ~> hook[i] \in {"done", "lost"}
=============================================================================

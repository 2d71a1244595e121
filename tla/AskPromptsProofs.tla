-------------------------- MODULE AskPromptsProofs --------------------------
(* Proofs about AskPrompts, for any numbers of invocations, trays and restarts *)
(* and any decisions and timeout.                                              *)
EXTENDS AskPrompts, TLAPS

(* What the theorem needs of the types.                                        *)
IdType ==
    /\ instance \in Nat /\ counter \in Nat
    /\ id \in [Invocations -> Id]
    /\ result \in [Invocations -> Decisions \cup {None, Fallback}]
    /\ hook \in [Invocations -> {"new", "waiting", "timedOut", "done", "lost"}]
    /\ outcome \in [Invocations -> Decisions \cup {None, Fallback}]
    /\ pending \in SUBSET Invocations
    /\ polled \in [Trays -> SUBSET Entry]
    /\ dialogs \in [Trays -> SUBSET Entry]

(* Identifiers are told apart by the process that made them and its count; a   *)
(* polled entry and a dialog carry the identifier of the invocation they show. *)
DecisionInv ==
    /\ \A i \in Invocations : result[i] \in Decisions => <<i, result[i]>> \in given
    /\ OwnDecision
    /\ \A i \in pending : hook[i] # "new"
    /\ \A t \in Trays : \A e \in polled[t] \cup dialogs[t] : e.id = id[e.about] /\ hook[e.about] # "new"
    /\ \A i \in Invocations : hook[i] # "new" =>
          id[i][1] =< instance /\ (id[i][1] = instance => id[i][2] =< counter)
    /\ \A i, j \in Invocations : hook[i] # "new" /\ hook[j] # "new" /\ id[i] = id[j] => i = j

LEMMA IdentifiersTellApart == Spec => [](IdType /\ DecisionInv)
<1> DEFINE Inv == IdType /\ DecisionInv
<1>1. Init => Inv
  BY AskAssumption DEF Init, IdType, DecisionInv, OwnDecision, Id
<1>2. Inv /\ [Next]_vars => Inv'
  <2> SUFFICES ASSUME IdType, DecisionInv, [Next]_vars
               PROVE  IdType' /\ DecisionInv'
    OBVIOUS
  <2> USE AskAssumption DEF history
  <2>1. ASSUME NEW i \in Invocations, Queue(i)
        PROVE  IdType' /\ DecisionInv'
    <3>1. NewId \in Id /\ NewId[1] = instance /\ NewId[2] = counter + 1
      BY DEF NewId, Id, IdType
    <3>2. IdType'
      BY <2>1, <3>1 DEF Queue, IdType
    <3>3. /\ id'[i] = NewId /\ hook'[i] = "waiting" /\ hook[i] = "new"
          /\ \A j \in Invocations : j # i => id'[j] = id[j] /\ hook'[j] = hook[j]
          /\ UNCHANGED <<instance, result, outcome, polled, dialogs, given>>
          /\ counter' = counter + 1 /\ pending' = pending \cup {i}
      BY <2>1 DEF Queue, IdType
    <3>4. \A j \in Invocations : hook[j] # "new" => id[j] # NewId
      <4> SUFFICES ASSUME NEW j \in Invocations, hook[j] # "new", id[j] = NewId
                   PROVE  FALSE
        OBVIOUS
      <4>1. id[j][1] = instance /\ id[j][2] = counter + 1
        BY <3>1
      <4>2. id[j][2] =< counter
        BY <4>1 DEF DecisionInv
      <4> QED  BY <4>1, <4>2 DEF IdType
    <3>5. /\ \A j \in Invocations : hook'[j] # "new" =>
               id'[j][1] =< instance' /\ (id'[j][1] = instance' => id'[j][2] =< counter')
      <4> SUFFICES ASSUME NEW j \in Invocations, hook'[j] # "new"
                   PROVE  id'[j][1] =< instance /\ (id'[j][1] = instance => id'[j][2] =< counter + 1)
        BY <3>3
      <4>1. CASE j = i
        BY <3>1, <3>3, <4>1 DEF IdType
      <4>2. CASE j # i
        <5>1. id[j][1] =< instance /\ (id[j][1] = instance => id[j][2] =< counter)
          BY <3>3, <4>2 DEF DecisionInv
        <5>2. id[j][2] \in Nat /\ id'[j] = id[j]
          BY <3>3, <4>2 DEF IdType, Id
        <5> QED  BY <5>1, <5>2 DEF IdType
      <4> QED  BY <4>1, <4>2
    <3>6. \A j, k \in Invocations : hook'[j] # "new" /\ hook'[k] # "new" /\ id'[j] = id'[k] => j = k
      BY <3>3, <3>4 DEF DecisionInv
    <3>7. \A t \in Trays : \A e \in polled'[t] \cup dialogs'[t] : e.id = id'[e.about] /\ hook'[e.about] # "new"
      <4> SUFFICES ASSUME NEW t \in Trays, NEW e \in polled[t] \cup dialogs[t]
                   PROVE  e.id = id'[e.about] /\ hook'[e.about] # "new"
        BY <3>3
      <4>1. e.about \in Invocations /\ e.id = id[e.about] /\ hook[e.about] # "new"
        BY DEF IdType, DecisionInv, Entry
      <4> QED  BY <3>3, <4>1
    <3>8. \A j \in pending' : hook'[j] # "new"
      BY <3>3 DEF DecisionInv, IdType
    <3> QED  BY <3>2, <3>3, <3>5, <3>6, <3>7, <3>8 DEF DecisionInv, OwnDecision
  <2>2. ASSUME NEW i \in Invocations, Wake(i) \/ TimeIsUp(i) \/ FallBack(i)
        PROVE  IdType' /\ DecisionInv'
    <3>1. UNCHANGED <<instance, counter, id, result, pending, polled, dialogs, given>>
      BY <2>2 DEF Wake, TimeIsUp, FallBack, prompt
    <3>2. /\ \A j \in Invocations : (hook'[j] = "new" => hook[j] = "new")
          /\ \A j \in Invocations : outcome'[j] = outcome[j] \/ outcome'[j] = Fallback \/ outcome'[j] = result[j]
      BY <2>2 DEF Wake, TimeIsUp, FallBack, IdType
    <3>3. IdType'
      BY <2>2, <3>1 DEF Wake, TimeIsUp, FallBack, IdType
    <3>4. hook[i] # "new"
      BY <2>2 DEF Wake, TimeIsUp, FallBack
    <3>5. \A j \in Invocations : hook'[j] # "new" => hook[j] # "new"
      BY <2>2, <3>4 DEF Wake, TimeIsUp, FallBack, IdType
    <3>6. OwnDecision'
      BY <3>1, <3>2 DEF DecisionInv, OwnDecision
    <3> QED  BY <3>1, <3>2, <3>3, <3>5, <3>6 DEF DecisionInv, IdType, Entry
  <2>3. CASE CleanUp
    BY <2>3 DEF CleanUp, IdType, DecisionInv, OwnDecision
  <2>4. CASE Restart
    <3>1. IdType'
      BY <2>4 DEF Restart, IdType
    <3>2. /\ UNCHANGED <<id, result, outcome, polled, dialogs, given>>
          /\ pending' = {} /\ instance' = instance + 1 /\ counter' = 0
          /\ \A j \in Invocations : hook'[j] = "new" <=> hook[j] = "new"
      BY <2>4 DEF Restart, IdType
    <3>3. \A j \in Invocations : hook[j] # "new" => id[j][1] \in Nat /\ id[j][1] =< instance
      BY DEF DecisionInv, IdType, Id
    <3>4. \A j \in Invocations : hook'[j] # "new" =>
             id'[j][1] =< instance' /\ (id'[j][1] = instance' => id'[j][2] =< counter')
      BY <3>2, <3>3 DEF IdType
    <3>5. \A t \in Trays : \A e \in polled'[t] \cup dialogs'[t] : e.id = id'[e.about] /\ hook'[e.about] # "new"
      BY <3>2 DEF DecisionInv, IdType, Entry
    <3> QED  BY <3>1, <3>2, <3>4, <3>5 DEF DecisionInv, OwnDecision
  <2>5. CASE Tick
    BY <2>5 DEF Tick, IdType, DecisionInv, OwnDecision
  <2>6. ASSUME NEW t \in Trays, Poll(t)
        PROVE  IdType' /\ DecisionInv'
    <3>1. Listed \in SUBSET Entry /\ \A e \in Listed : e.id = id[e.about] /\ hook[e.about] # "new"
      BY DEF Listed, Entry, IdType, DecisionInv
    <3>2. polled'[t] = Listed /\ \A u \in Trays : u # t => polled'[u] = polled[u]
      BY <2>6 DEF Poll, IdType
    <3>3. IdType'
      BY <2>6, <3>1 DEF Poll, prompt, IdType
    <3>4. \A u \in Trays : \A e \in polled'[u] \cup dialogs[u] : e.id = id[e.about] /\ hook[e.about] # "new"
      BY <3>1, <3>2 DEF DecisionInv
    <3> QED  BY <2>6, <3>3, <3>4 DEF Poll, prompt, DecisionInv, OwnDecision
  <2>7. ASSUME NEW t \in Trays, NEW e \in polled[t], Show(t, e)
        PROVE  IdType' /\ DecisionInv'
    <3>1. \A u \in Trays : polled'[u] \subseteq polled[u] /\ dialogs'[u] \subseteq polled[u] \cup dialogs[u]
      BY <2>7 DEF Show, IdType
    <3>2. IdType'
      BY <2>7 DEF Show, prompt, IdType
    <3> QED  BY <2>7, <3>1, <3>2 DEF Show, prompt, DecisionInv, OwnDecision
  <2>8. ASSUME NEW t \in Trays, NEW e \in dialogs[t], NEW d \in Decisions, Decide(t, e, d)
        PROVE  IdType' /\ DecisionInv'
    <3>1. \A u \in Trays : dialogs'[u] \subseteq dialogs[u]
      BY <2>8 DEF Decide, Close, IdType
    <3>2. e.about \in Invocations /\ e.id = id[e.about] /\ hook[e.about] # "new"
      BY DEF IdType, DecisionInv, Entry
    <3>3. \A i \in Found(e.id) : i = e.about
      BY <3>2 DEF Found, DecisionInv, IdType
    <3>4. \A i \in Invocations : result'[i] = result[i] \/ (i = e.about /\ result'[i] = d)
      BY <2>8, <3>3 DEF Decide, Resolve, IdType
    <3>5. given' = given \cup {<<e.about, d>>}
      BY <2>8 DEF Decide
    <3>6. IdType'
      BY <2>8 DEF Decide, Resolve, Close, IdType
    <3>7. \A i \in Invocations : result'[i] \in Decisions => <<i, result'[i]>> \in given'
      BY <3>4, <3>5 DEF DecisionInv
    <3> QED  BY <2>8, <3>1, <3>5, <3>6, <3>7 DEF Decide, DecisionInv, OwnDecision
  <2>11. ASSUME NEW t \in Trays, NEW e \in dialogs[t], NoResult(t, e)
         PROVE  IdType' /\ DecisionInv'
    <3>1. \A u \in Trays : dialogs'[u] \subseteq dialogs[u]
      BY <2>11 DEF NoResult, Close, IdType
    <3>2. IdType'
      BY <2>11 DEF NoResult, Resolve, Close, IdType
    <3>3. \A i \in Invocations : result'[i] = result[i] \/ result'[i] = Fallback
      BY <2>11 DEF NoResult, Resolve, IdType
    <3>4. \A i \in Invocations : result'[i] \in Decisions => <<i, result'[i]>> \in given'
      BY <2>11, <3>3 DEF NoResult, DecisionInv
    <3> QED  BY <2>11, <3>1, <3>2, <3>4 DEF NoResult, DecisionInv, OwnDecision
  <2>9. ASSUME NEW t \in Trays, NEW e \in dialogs[t], Fail(t, e)
        PROVE  IdType' /\ DecisionInv'
    <3>1. \A u \in Trays : dialogs'[u] \subseteq dialogs[u]
      BY <2>9 DEF Fail, Close, IdType
    <3> QED  BY <2>9, <3>1 DEF Fail, Close, prompt, IdType, DecisionInv, OwnDecision
  <2>10. CASE UNCHANGED vars
    BY <2>10 DEF vars, IdType, DecisionInv, OwnDecision
  <2> QED  BY <2>1, <2>2, <2>3, <2>4, <2>5, <2>6, <2>7, <2>8, <2>9, <2>10, <2>11 DEF Next
<1> QED  BY <1>1, <1>2, PTL DEF Spec

(* A dialog decides only the invocation it shows, across any number of         *)
(* restarts (queue_prompt's identifiers against resolve_prompt's lookup).      *)
THEOREM DialogsDecideTheirOwn == Spec => []OwnDecision
BY IdentifiersTellApart, PTL DEF DecisionInv

-----------------------------------------------------------------------------
(* Every variable keeps its type (state.py, PendingPrompt and its queue;       *)
(* tray/app.py).                                                               *)
THEOREM TypeCorrect == Spec => []TypeOK
<1>1. Init => TypeOK
  BY AskAssumption DEF Init, TypeOK, Id, OneDialogEach
<1>2. TypeOK /\ [Next]_vars => TypeOK'
  <2> SUFFICES ASSUME TypeOK, [Next]_vars
               PROVE  TypeOK'
    OBVIOUS
  <2> USE AskAssumption DEF TypeOK, history
  <2>1. ASSUME NEW i \in Invocations, Queue(i)
        PROVE  TypeOK'
    <3>1. NewId \in Id /\ counter' \in Nat
      BY <2>1 DEF Queue, NewId, Id
    <3> QED  BY <2>1, <3>1 DEF Queue, OneDialogEach
  <2>2. ASSUME NEW i \in Invocations, Wake(i) \/ TimeIsUp(i) \/ FallBack(i)
        PROVE  TypeOK'
    <3>1. outcome' \in [Invocations -> Decisions \cup {None, Fallback}]
      BY <2>2 DEF Wake, TimeIsUp, FallBack
    <3> QED  BY <2>2, <3>1 DEF Wake, TimeIsUp, FallBack, prompt, OneDialogEach
  <2>3. CASE CleanUp \/ Restart
    BY <2>3 DEF CleanUp, Restart, Expired, OneDialogEach, history
  <2>4. CASE Tick
    <3>1. age' \in [Invocations -> Nat]
      BY <2>4 DEF Tick, MaxAge
    <3> QED  BY <2>4, <3>1 DEF Tick, OneDialogEach
  <2>5. ASSUME NEW t \in Trays, Poll(t)
        PROVE  TypeOK'
    <3>1. Listed \in SUBSET Entry
      BY DEF Listed, Entry
    <3> QED  BY <2>5, <3>1 DEF Poll, prompt, OneDialogEach
  <2>6. ASSUME NEW t \in Trays, NEW e \in polled[t], Show(t, e)
        PROVE  TypeOK'
    <3>1. e \in Entry /\ e.id \in Id
      BY DEF Entry
    <3>2. OneDialogEach'
      BY <2>6 DEF Show, OneDialogEach
    <3> QED  BY <2>6, <3>1, <3>2 DEF Show, prompt
  <2>7. ASSUME NEW t \in Trays, NEW e \in dialogs[t], Close(t, e)
        PROVE  OneDialogEach' /\ inFlight' \in [Trays -> SUBSET Id] /\ dialogs' \in [Trays -> SUBSET Entry]
    BY <2>7 DEF Close, OneDialogEach
  <2>8. ASSUME NEW t \in Trays, NEW e \in dialogs[t],
               (\E d \in Decisions : Decide(t, e, d)) \/ NoResult(t, e) \/ Fail(t, e)
        PROVE  TypeOK'
    <3>1. e.about \in Invocations /\ Found(e.id) \in SUBSET Invocations
      BY DEF Entry, Found
    <3>2. Close(t, e)
      BY <2>8 DEF Decide, NoResult, Fail
    <3>3. OneDialogEach' /\ inFlight' \in [Trays -> SUBSET Id] /\ dialogs' \in [Trays -> SUBSET Entry]
      BY <2>7, <3>2
    <3>4. ASSUME NEW d \in Decisions, Decide(t, e, d)
          PROVE  TypeOK'
      BY <3>1, <3>3, <3>4 DEF Decide, Resolve
    <3>5. CASE NoResult(t, e)
      BY <3>1, <3>3, <3>5 DEF NoResult, Resolve
    <3>6. CASE Fail(t, e)
      BY <3>3, <3>6 DEF Fail, prompt
    <3> QED  BY <2>8, <3>4, <3>5, <3>6
  <2>9. CASE UNCHANGED vars
    BY <2>9 DEF vars, OneDialogEach
  <2> QED  BY <2>1, <2>2, <2>3, <2>4, <2>5, <2>6, <2>8, <2>9 DEF Next
<1> QED  BY <1>1, <1>2, PTL DEF Spec

-----------------------------------------------------------------------------
(* A decision that is in time has set the event, so the waiter cannot find its *)
(* time up any more, and has left no room for another.                         *)
Committed ==
    \A i \in inTime : result[i] # None /\ i \in event /\ hook[i] \in {"waiting", "done", "lost"}

(* A decision accepted while its hook waits is final: no other tray, clean-up, *)
(* timeout or restart changes it, and the hook is told nothing else (state.py, *)
(* resolve_prompt; ask_dialog.py, _show_via_tray_forwarding).                  *)
THEOREM FirstDecisionIsFinal == Spec => FirstDecisionCounts
<1> DEFINE Step == \A i \in inTime :
                     result'[i] = result[i] /\ (outcome'[i] # outcome[i] => outcome'[i] = result[i])
<1>1. Init => Committed
  BY DEF Init, Committed
<1>2. TypeOK /\ Committed /\ [Next]_vars => Committed' /\ (Step \/ UNCHANGED vars)
  <2> SUFFICES ASSUME TypeOK, Committed, [Next]_vars
               PROVE  Committed' /\ (Step \/ UNCHANGED vars)
    OBVIOUS
  <2> USE AskAssumption DEF Committed, TypeOK, history
  <2>1. ASSUME NEW i \in Invocations, Queue(i)
        PROVE  Committed' /\ Step
    BY <2>1 DEF Queue
  <2>2. ASSUME NEW i \in Invocations, Wake(i)
        PROVE  Committed' /\ Step
    BY <2>2 DEF Wake, prompt
  <2>3. ASSUME NEW i \in Invocations, TimeIsUp(i) \/ FallBack(i)
        PROVE  Committed' /\ Step
    BY <2>3 DEF TimeIsUp, FallBack, prompt
  <2>4. CASE CleanUp \/ Restart \/ Tick
    BY <2>4 DEF CleanUp, Restart, Tick
  <2>5. ASSUME NEW t \in Trays, Poll(t)
        PROVE  Committed' /\ Step
    BY <2>5 DEF Poll, prompt
  <2>6. ASSUME NEW t \in Trays, NEW e \in polled[t], Show(t, e)
        PROVE  Committed' /\ Step
    BY <2>6 DEF Show, prompt
  <2>7. ASSUME NEW t \in Trays, NEW e \in dialogs[t], NEW d \in Decisions, Decide(t, e, d)
        PROVE  Committed' /\ Step
    <3>1. \A i \in Found(e.id) : i \in Invocations /\ result[i] = None
      BY DEF Found
    <3>2. \A i \in Invocations : result'[i] = IF i \in Found(e.id) THEN d ELSE result[i]
      BY <2>7 DEF Decide, Resolve
    <3>3. inTime' = inTime \cup {i \in Found(e.id) : hook[i] = "waiting"}
          /\ event' = event \cup Found(e.id) /\ UNCHANGED <<hook, outcome>>
      BY <2>7 DEF Decide, Resolve
    <3>4. Step
      BY <3>1, <3>2, <3>3
    <3>5. Committed'
      BY <3>1, <3>2, <3>3
    <3> QED  BY <3>4, <3>5
  <2>8. ASSUME NEW t \in Trays, NEW e \in dialogs[t], Fail(t, e)
        PROVE  Committed' /\ Step
    BY <2>8 DEF Fail, prompt
  <2>9. CASE UNCHANGED vars
    BY <2>9 DEF vars
  <2>10. ASSUME NEW t \in Trays, NEW e \in dialogs[t], NoResult(t, e)
         PROVE  Committed' /\ Step
    <3>1. \A i \in Found(e.id) : i \in Invocations /\ result[i] = None
      BY DEF Found
    <3>2. \A i \in Invocations : result'[i] = IF i \in Found(e.id) THEN Fallback ELSE result[i]
      BY <2>10 DEF NoResult, Resolve
    <3>3. inTime' = inTime \cup {i \in Found(e.id) : hook[i] = "waiting"}
          /\ event' = event \cup Found(e.id) /\ UNCHANGED <<hook, outcome>>
      BY <2>10 DEF NoResult, Resolve
    <3> QED  BY <3>1, <3>2, <3>3
  <2> QED  BY <2>1, <2>2, <2>3, <2>4, <2>5, <2>6, <2>7, <2>8, <2>9, <2>10 DEF Next
<1>3. [Step]_vars <=> (Step \/ UNCHANGED vars)
  OBVIOUS
<1> QED  BY <1>1, <1>2, TypeCorrect, PTL DEF Spec, FirstDecisionCounts

-----------------------------------------------------------------------------
(* Only the clean-up sets an event without a decision, and only of prompts     *)
(* that are past their time; a fallback for a decision comes from a tray whose *)
(* dialog about that very prompt ended without one.                            *)
Waited ==
    /\ FallbackInTime
    /\ \A i \in event : result[i] = None => age[i] >= Timeout
    /\ \A i \in Invocations : result[i] = Fallback => i \in unanswered
    /\ \A i \in Invocations : hook[i] = "timedOut" => age[i] >= Timeout

(* No hook falls back before its user has had the whole time, whatever wakes   *)
(* it, but when a dialog about it failed on a tray (ask_dialog.py,             *)
(* _show_via_tray_forwarding, _show_via_subprocess; tray/app.py,               *)
(* _show_and_respond; state.py, cleanup_expired_prompts).                      *)
THEOREM NoEarlyFallback == Spec => []FallbackInTime
<1>1. Init => Waited
  BY AskAssumption DEF Init, Waited, FallbackInTime
<1>2. TypeOK /\ IdType /\ DecisionInv /\ Waited /\ [Next]_vars => Waited'
  <2> SUFFICES ASSUME TypeOK, IdType, DecisionInv, Waited, [Next]_vars
               PROVE  Waited'
    OBVIOUS
  <2> USE AskAssumption DEF Waited, FallbackInTime, TypeOK, history
  <2>1. ASSUME NEW i \in Invocations, Queue(i)
        PROVE  Waited'
    BY <2>1 DEF Queue
  <2>2. ASSUME NEW i \in Invocations, Wake(i)
        PROVE  Waited'
    BY <2>2 DEF Wake, prompt
  <2>3. ASSUME NEW i \in Invocations, TimeIsUp(i)
        PROVE  Waited'
    BY <2>3 DEF TimeIsUp, prompt
  <2>4. ASSUME NEW i \in Invocations, FallBack(i)
        PROVE  Waited'
    BY <2>4 DEF FallBack, prompt
  <2>5. CASE CleanUp
    <3>1. \A i \in Expired : age[i] >= Timeout
      BY DEF Expired
    <3> QED  BY <2>5, <3>1 DEF CleanUp
  <2>6. CASE Restart
    BY <2>6 DEF Restart
  <2>7. CASE Tick
    <3>1. \A i \in Invocations : age'[i] \in {age[i], age[i] + 1}
      BY <2>7 DEF Tick
    <3>2. \A i \in Invocations : age[i] >= Timeout => age'[i] >= Timeout
      BY <3>1
    <3>3. UNCHANGED <<result, event, hook, outcome, unanswered>>
      BY <2>7 DEF Tick
    <3> QED  BY <3>2, <3>3
  <2>8. ASSUME NEW t \in Trays, Poll(t) \/ (\E e \in polled[t] : Show(t, e)) \/ (\E e \in dialogs[t] : Fail(t, e))
        PROVE  Waited'
    BY <2>8 DEF Poll, Show, Fail, prompt
  <2>9. ASSUME NEW t \in Trays, NEW e \in dialogs[t], NEW d \in Decisions, Decide(t, e, d)
        PROVE  Waited'
    BY <2>9 DEF Decide, Resolve, Found
  <2>10. CASE UNCHANGED vars
    BY <2>10 DEF vars
  <2>11. ASSUME NEW t \in Trays, NEW e \in dialogs[t], NoResult(t, e)
         PROVE  Waited'
    <3>1. e.about \in Invocations /\ e.id = id[e.about] /\ hook[e.about] # "new"
      BY DEF Entry, DecisionInv
    <3>2. Found(e.id) \subseteq {e.about} /\ Found(e.id) \subseteq Invocations
      BY <3>1 DEF Found, DecisionInv
    <3>3. /\ unanswered' = unanswered \cup Found(e.id)
          /\ event' = event \cup Found(e.id)
          /\ UNCHANGED <<hook, outcome, age>>
      BY <2>11, <3>2 DEF NoResult, Resolve
    <3>4. \A i \in Invocations : result'[i] = IF i \in Found(e.id) THEN Fallback ELSE result[i]
      BY <2>11 DEF NoResult, Resolve
    <3> QED  BY <3>2, <3>3, <3>4
  <2> QED  BY <2>1, <2>2, <2>3, <2>4, <2>5, <2>6, <2>7, <2>8, <2>9, <2>10, <2>11 DEF Next
<1>3. Waited => FallbackInTime
  BY DEF Waited
<1> QED  BY <1>1, <1>2, <1>3, TypeCorrect, IdentifiersTellApart, PTL DEF Spec
=============================================================================

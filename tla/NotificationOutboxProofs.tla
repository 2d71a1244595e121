----------------------- MODULE NotificationOutboxProofs -----------------------
(* Proofs about NotificationOutbox, for any numbers of events, pollers, slots  *)
(* and crashes.                                                                *)
EXTENDS NotificationOutbox, TLAPS

Tasks == {"none", "claimed", "sending", "worker"} \cup Outcome

Answer == [event : Events, delivery : [Channels -> Reported]]

(* The source's ledger holds no status of a relay, and a status for every      *)
(* channel of its events.                                                      *)
SourceRows ==
    \A e \in Events, c \in Channels :
        /\ status["source"][e][c] \in Reported \cup {"none"}
        /\ e \in row["source"] => status["source"][e][c] # "none"

TypeInv == TypeOK /\ SourceRows

LEMMA Members ==
    /\ "source" \in Hosts /\ "local" \in Hosts
    /\ "email" \in Channels
    /\ Reported \subseteq Statuses /\ Outcome \subseteq Reported
BY DEF Hosts, Channels, Reported, Statuses, Outcome

LEMMA SettleType ==
    ASSUME NEW now \in Statuses \cup {"none"}, NEW remote \in Reported, NEW wanted \in BOOLEAN
    PROVE  Settle(now, remote, wanted) \in Statuses \cup {"none"}
BY DEF Settle, Open, Statuses, Reported

LEMMA IdleType ==
    ASSUME TypeOK, NEW S, NEW h \in Hosts
    PROVE  Idle(S, h) \in [Events -> [Channels -> Tasks]]
<1>1. \A e \in Events : task[h][e] \in [Channels -> Tasks]
  BY DEF TypeOK, Tasks
<1>2. [c \in Channels |-> "none"] \in [Channels -> Tasks]
  BY DEF Tasks
<1> QED  BY <1>1, <1>2 DEF Idle

(* What a relay writes, and that it holds an answer.                           *)
LEMMA RelayTypes ==
    ASSUME TypeOK, NEW p \in Pollers, NEW on, Relay(p, on)
    PROVE  /\ heard[p] \in Answer
           /\ row' \in [Hosts -> SUBSET Events] /\ row'["source"] = row["source"]
           /\ status' \in [Hosts -> [Events -> [Channels -> Statuses \cup {"none"}]]]
           /\ status'["source"] = status["source"]
           /\ task' \in [Hosts -> [Events -> [Channels -> Tasks]]]
           /\ heard' \in [Pollers -> Answer \cup {None}]
<1> DEFINE e == heard[p].event
           now == status["local"][e]
           new == [c \in Channels |-> Settle(now[c], heard[p].delivery[c], c \in on)]
           claims == {c \in Channels : Open(now[c]) /\ new[c] = "pending"}
           tasks == [c \in Channels |-> IF c \in claims THEN "claimed" ELSE task["local"][e][c]]
<1>1. heard[p] \in Answer
  BY DEF Relay, TypeOK, Answer
<1>2. e \in Events /\ heard[p].delivery \in [Channels -> Reported]
  BY <1>1 DEF Answer
<1>3. now \in [Channels -> Statuses \cup {"none"}]
  BY <1>2, Members DEF TypeOK
<1>4. new \in [Channels -> Statuses \cup {"none"}]
  <2>1. ASSUME NEW c \in Channels
        PROVE  Settle(now[c], heard[p].delivery[c], c \in on) \in Statuses \cup {"none"}
    <3>1. now[c] \in Statuses \cup {"none"} /\ heard[p].delivery[c] \in Reported
      BY <1>2, <1>3
    <3>2. (c \in on) \in BOOLEAN
      OBVIOUS
    <3> QED  BY <3>1, <3>2, SettleType
  <2> QED  BY <2>1
<1>5. task["local"][e] \in [Channels -> Tasks]
  BY <1>2, Members DEF TypeOK, Tasks
<1>6. tasks \in [Channels -> Tasks]
  BY <1>5 DEF Tasks
<1>7. /\ heard' = [heard EXCEPT ![p] = None]
      /\ row' = [row EXCEPT !["local"] = @ \cup {e}]
      /\ status' = [status EXCEPT !["local"][e] = new]
      /\ task' = [task EXCEPT !["local"][e] = tasks]
  BY DEF Relay
<1> HIDE DEF e, now, new, claims, tasks
<1>8. row' \in [Hosts -> SUBSET Events] /\ row'["source"] = row["source"]
  BY <1>2, <1>7, Members DEF TypeOK
<1>9. /\ status' \in [Hosts -> [Events -> [Channels -> Statuses \cup {"none"}]]]
      /\ status'["source"] = status["source"]
  BY <1>2, <1>4, <1>7, Members DEF TypeOK
<1>10. task' \in [Hosts -> [Events -> [Channels -> Tasks]]]
  BY <1>2, <1>6, <1>7, Members DEF TypeOK, Tasks
<1>11. heard' \in [Pollers -> Answer \cup {None}]
  BY <1>7 DEF TypeOK, Answer
<1> QED  BY <1>1, <1>8, <1>9, <1>10, <1>11


(* What registering writes.                                                    *)
LEMMA RegisterTypes ==
    ASSUME TypeOK, NEW e \in Events, NEW on, NEW t \in {"claimed", "worker"}, Register(e, on, t)
    PROVE  /\ stage' \in [Events -> {"new", "queued", "done"}]
           /\ row' \in [Hosts -> SUBSET Events] /\ row'["source"] = row["source"] \cup {e}
           /\ status' \in [Hosts -> [Events -> [Channels -> Statuses \cup {"none"}]]]
           /\ status'["source"] = [status["source"] EXCEPT ![e] =
                  [c \in Channels |-> IF c \in on THEN "pending" ELSE "not_configured"]]
           /\ task' \in [Hosts -> [Events -> [Channels -> Tasks]]]
<1> DEFINE new == [c \in Channels |-> IF c \in on THEN "pending" ELSE "not_configured"]
           tasks == [c \in Channels |-> IF c \in on THEN t ELSE "none"]
<1>1. new \in [Channels -> Statuses \cup {"none"}]
  BY DEF Statuses, Reported
<1>2. tasks \in [Channels -> Tasks]
  BY DEF Tasks
<1>3. /\ stage' = [stage EXCEPT ![e] = "done"]
      /\ row' = [row EXCEPT !["source"] = @ \cup {e}]
      /\ status' = [status EXCEPT !["source"][e] = new]
      /\ task' = [task EXCEPT !["source"][e] = tasks]
  BY DEF Register
<1> HIDE DEF new, tasks
<1>4. stage' \in [Events -> {"new", "queued", "done"}]
  BY <1>3 DEF TypeOK
<1>5. row' \in [Hosts -> SUBSET Events] /\ row'["source"] = row["source"] \cup {e}
  BY <1>3, Members DEF TypeOK
<1>6. /\ status' \in [Hosts -> [Events -> [Channels -> Statuses \cup {"none"}]]]
      /\ status'["source"] = [status["source"] EXCEPT ![e] = new]
  BY <1>1, <1>3, Members DEF TypeOK
<1>7. task' \in [Hosts -> [Events -> [Channels -> Tasks]]]
  BY <1>2, <1>3, Members DEF TypeOK, Tasks
<1> QED  BY <1>4, <1>5, <1>6, <1>7 DEF new

LEMMA InitTypes == Init => TypeInv
<1> SUFFICES ASSUME Init PROVE TypeInv
  OBVIOUS
<1>1. [c \in Channels |-> "none"] \in [Channels -> Statuses \cup {"none"}]
  OBVIOUS
<1>2. [c \in Channels |-> "none"] \in [Channels -> Tasks]
  BY DEF Tasks
<1>3. status \in [Hosts -> [Events -> [Channels -> Statuses \cup {"none"}]]]
  BY <1>1 DEF Init
<1>4. task \in [Hosts -> [Events -> [Channels -> Tasks]]]
  BY <1>2 DEF Init
<1>5. alerts \in [Hosts -> [Events -> [Channels -> Nat]]]
  BY DEF Init
<1>6. SourceRows
  BY Members DEF Init, SourceRows
<1>7. row \in [Hosts -> SUBSET Events] /\ slots \in [Hosts -> SUBSET (Events \X Channels)]
  BY DEF Init
<1>8. heard \in [Pollers -> Answer \cup {None}]
  BY DEF Init
<1>9. /\ stage \in [Events -> {"new", "queued", "done"}] /\ crashes \in Nat
      /\ direct \in SUBSET Events /\ dropped \in SUBSET Events /\ buried \in SUBSET Events
  BY DEF Init
<1> QED  BY <1>3, <1>4, <1>5, <1>6, <1>7, <1>8, <1>9 DEF TypeInv, TypeOK, Tasks, Answer

LEMMA StepTypes == TypeInv /\ [Next]_vars => TypeInv'
<1> SUFFICES ASSUME TypeInv, [Next]_vars PROVE TypeInv'
  OBVIOUS
<1> USE DEF TypeInv
<1> USE Members
<1>1. ASSUME NEW e \in Events, Log(e) PROVE TypeInv'
  BY <1>1 DEF Log, TypeOK, SourceRows, ledger
<1>2. ASSUME NEW e \in Events, NEW on \in SUBSET Channels, NEW t \in {"claimed", "worker"},
             Register(e, on, t), direct' \in SUBSET Events
      PROVE  TypeInv'
  <2> DEFINE new == [c \in Channels |-> IF c \in on THEN "pending" ELSE "not_configured"]
  <2>1. /\ stage' \in [Events -> {"new", "queued", "done"}]
        /\ row' \in [Hosts -> SUBSET Events] /\ row'["source"] = row["source"] \cup {e}
        /\ status' \in [Hosts -> [Events -> [Channels -> Statuses \cup {"none"}]]]
        /\ status'["source"] = [status["source"] EXCEPT ![e] = new]
        /\ task' \in [Hosts -> [Events -> [Channels -> Tasks]]]
    BY <1>2, RegisterTypes
  <2>2. \A c \in Channels : new[c] \in Reported /\ new[c] # "none"
    BY DEF Reported
  <2>3. status["source"] \in [Events -> [Channels -> Statuses \cup {"none"}]]
    BY DEF TypeOK
  <2> HIDE DEF new
  <2>4. SourceRows'
    BY <2>1, <2>2, <2>3 DEF SourceRows
  <2>5. UNCHANGED <<slots, buried, heard, crashes, alerts, dropped>>
    BY <1>2 DEF Register
  <2>6. TypeOK'
    BY <1>2, <2>1, <2>5 DEF TypeOK, Tasks
  <2> QED  BY <2>4, <2>6
<1>3. ASSUME NEW e \in Events, NEW on \in SUBSET Channels, NotifyLocal(e, on) \/ PersistLocal(e, on)
      PROVE  TypeInv'
  BY <1>2, <1>3 DEF NotifyLocal, PersistLocal, TypeOK
<1>4. ASSUME NEW e \in Events, RegisterFails(e) PROVE TypeInv'
  BY <1>4 DEF RegisterFails, TypeOK, SourceRows, ledger
<1>5. ASSUME NEW h \in Hosts, NEW e \in Events, NEW c \in Channels, Schedule(h, e, c)
      PROVE  TypeInv'
  <2>1. task' \in [Hosts -> [Events -> [Channels -> Tasks]]]
    <3>1. CASE task' = [task EXCEPT ![h][e][c] = "sending"]
      BY <3>1 DEF TypeOK, Tasks
    <3>2. CASE task' = [task EXCEPT ![h][e][c] = "failed"]
      BY <3>2 DEF TypeOK, Tasks, Outcome
    <3> QED  BY <1>5, <3>1, <3>2 DEF Schedule
  <2>2. slots' \in [Hosts -> SUBSET (Events \X Channels)]
    <3> DEFINE slot == <<e, c>>
               all == Events \X Channels
    <3>1. slot \in all
      OBVIOUS
    <3>2. slots' = slots \/ slots' = [slots EXCEPT ![h] = @ \cup {slot}]
      BY <1>5 DEF Schedule
    <3>3. slots \in [Hosts -> SUBSET all]
      BY DEF TypeOK
    <3> HIDE DEF slot, all
    <3>4. slots' \in [Hosts -> SUBSET all]
      BY <3>1, <3>2, <3>3
    <3> QED  BY <3>4 DEF all
  <2> QED  BY <1>5, <2>1, <2>2 DEF Schedule, TypeOK, Tasks, SourceRows, ledger
<1>6. ASSUME NEW h \in Hosts, NEW e \in Events, NEW c \in Channels, NEW said \in MaySay(c),
             Send(h, e, c, said)
      PROVE  TypeInv'
  <2>1. said[1] \in Outcome /\ said[2] \in Nat
    BY DEF MaySay, Outcome
  <2>2. task' \in [Hosts -> [Events -> [Channels -> Tasks]]]
    BY <1>6, <2>1 DEF Send, TypeOK, Tasks
  <2>3. alerts' \in [Hosts -> [Events -> [Channels -> Nat]]]
    BY <1>6, <2>1 DEF Send, TypeOK
  <2> QED  BY <1>6, <2>2, <2>3 DEF Send, TypeOK, Tasks, SourceRows, ledger
<1>7. ASSUME NEW h \in Hosts, NEW e \in Events, NEW c \in Channels, Record(h, e, c)
      PROVE  TypeInv'
  <2>1. task' \in [Hosts -> [Events -> [Channels -> Tasks]]]
    BY <1>7 DEF Record, TypeOK, Tasks
  <2>2. slots' \in [Hosts -> SUBSET (Events \X Channels)]
    BY <1>7 DEF Record, TypeOK
  <2>3. status' \in [Hosts -> [Events -> [Channels -> Statuses \cup {"none"}]]] /\ SourceRows'
    <3>1. CASE status' = [status EXCEPT ![h][e][c] = task[h][e][c]]
      <4>1. task[h][e][c] \in Statuses /\ task[h][e][c] \in Reported /\ task[h][e][c] # "none"
        BY <1>7 DEF Record, Outcome
      <4>2. status' \in [Hosts -> [Events -> [Channels -> Statuses \cup {"none"}]]]
        BY <3>1, <4>1 DEF TypeOK
      <4>3. \A f \in Events, d \in Channels :
                \/ status'["source"][f][d] = status["source"][f][d]
                \/ status'["source"][f][d] \in Reported /\ status'["source"][f][d] # "none"
        <5>1. status["source"] \in [Events -> [Channels -> Statuses \cup {"none"}]]
          BY DEF TypeOK
        <5>2. CASE h = "source"
          <6> DEFINE new == task[h][e][c]
          <6>1. new \in Reported /\ new # "none"
            BY <4>1
          <6>2. status'["source"] = [status["source"] EXCEPT ![e][c] = new]
            BY <3>1, <5>2 DEF TypeOK
          <6> HIDE DEF new
          <6> QED  BY <5>1, <6>1, <6>2
        <5>3. CASE h # "source"
          BY <3>1, <5>3 DEF TypeOK
        <5> QED  BY <5>2, <5>3
      <4>4. row' = row
        BY <1>7 DEF Record
      <4> QED  BY <4>2, <4>3, <4>4 DEF SourceRows
    <3>2. CASE UNCHANGED status
      BY <1>7, <3>2 DEF Record, TypeOK, SourceRows
    <3> QED  BY <1>7, <3>1, <3>2 DEF Record
  <2> QED  BY <1>7, <2>1, <2>2, <2>3 DEF Record, TypeOK, Tasks
<1>8. ASSUME NEW p \in Pollers, NEW e \in Events, Poll(p, e) PROVE TypeInv'
  <2>1. status["source"][e] \in [Channels -> Reported]
    <3>1. status["source"][e] \in [Channels -> Statuses \cup {"none"}]
      BY DEF TypeOK
    <3>2. \A c \in Channels : status["source"][e][c] \in Reported
      BY <1>8 DEF Poll, SourceRows
    <3> QED  BY <3>1, <3>2
  <2>2. heard' \in [Pollers -> Answer \cup {None}]
    BY <1>8, <2>1 DEF Poll, TypeOK, Answer
  <2> QED  BY <1>8, <2>2 DEF Poll, TypeOK, Answer, SourceRows, ledger
<1>9. ASSUME NEW p \in Pollers, NEW on \in SUBSET Channels, Relay(p, on) PROVE TypeInv'
  <2>1. /\ row' \in [Hosts -> SUBSET Events] /\ row'["source"] = row["source"]
        /\ status' \in [Hosts -> [Events -> [Channels -> Statuses \cup {"none"}]]]
        /\ status'["source"] = status["source"]
        /\ task' \in [Hosts -> [Events -> [Channels -> Tasks]]]
        /\ heard' \in [Pollers -> Answer \cup {None}]
    BY <1>9, RelayTypes
  <2>2. UNCHANGED <<stage, direct, slots, buried, crashes, alerts, dropped>>
    BY <1>9 DEF Relay
  <2>3. TypeOK'
    BY <2>1, <2>2 DEF TypeOK, Answer, Tasks
  <2>4. SourceRows'
    BY <2>1 DEF SourceRows
  <2> QED  BY <2>3, <2>4
<1>10. ASSUME NEW h \in Hosts, NEW e \in Events, Prune(h, e) PROVE TypeInv'
  <2> DEFINE gone == [c \in Channels |-> "none"]
  <2>1. gone \in [Channels -> Statuses \cup {"none"}] /\ \A c \in Channels : gone[c] = "none"
    OBVIOUS
  <2>2. status' = [status EXCEPT ![h][e] = gone] /\ row' = [row EXCEPT ![h] = @ \ {e}]
    BY <1>10 DEF Prune
  <2> HIDE DEF gone
  <2>3. /\ status' \in [Hosts -> [Events -> [Channels -> Statuses \cup {"none"}]]]
        /\ row' \in [Hosts -> SUBSET Events]
    BY <2>1, <2>2 DEF TypeOK
  <2>4. SourceRows'
    BY <2>1, <2>2 DEF TypeOK, SourceRows
  <2> QED  BY <1>10, <2>3, <2>4 DEF Prune, TypeOK
<1>11. ASSUME CrashSource PROVE TypeInv'
  <2>1. task' \in [Hosts -> [Events -> [Channels -> Tasks]]]
    BY <1>11, IdleType DEF CrashSource, TypeOK, Tasks
  <2>2. slots' \in [Hosts -> SUBSET (Events \X Channels)]
    BY <1>11 DEF CrashSource, TypeOK
  <2>3. crashes' \in Nat /\ stage' \in [Events -> {"new", "queued", "done"}]
    BY <1>11 DEF CrashSource, TypeOK
  <2> QED  BY <1>11, <2>1, <2>2, <2>3 DEF CrashSource, TypeOK, Tasks, SourceRows, ledger
<1>12. ASSUME CrashTray PROVE TypeInv'
  <2>1. task' \in [Hosts -> [Events -> [Channels -> Tasks]]]
    BY <1>12, IdleType DEF CrashTray, TypeOK, Tasks
  <2>2. slots' \in [Hosts -> SUBSET (Events \X Channels)]
    BY <1>12 DEF CrashTray, TypeOK
  <2> QED  BY <1>12, <2>1, <2>2 DEF CrashTray, TypeOK, Tasks, SourceRows, ledger
<1>13. ASSUME NEW e \in Events, LoseWorker(e) PROVE TypeInv'
  <2>1. task' \in [Hosts -> [Events -> [Channels -> Tasks]]]
    BY <1>13, IdleType DEF LoseWorker, TypeOK, Tasks
  <2> QED  BY <1>13, <2>1 DEF LoseWorker, TypeOK, Tasks, SourceRows, ledger
<1>14. ASSUME NEW e \in Events, Bury(e) PROVE TypeInv'
  BY <1>14 DEF Bury, TypeOK, SourceRows, ledger
<1>15. CASE UNCHANGED vars
  BY <1>15 DEF vars, TypeOK, SourceRows, ledger
<1> QED
  BY <1>1, <1>3, <1>4, <1>5, <1>6, <1>7, <1>8, <1>9, <1>10, <1>11, <1>12, <1>13, <1>14, <1>15 DEF Next

(* Every variable keeps its type.                                              *)
THEOREM TypeCorrect == Spec => []TypeOK
<1>1. Spec => []TypeInv
  BY InitTypes, StepTypes, PTL DEF Spec
<1>2. TypeInv => TypeOK
  BY DEF TypeInv
<1> QED  BY <1>1, <1>2, PTL

-------------------------------------------------------------------------------
(* At most once.  The invariant follows one channel of one event for as long   *)
(* as the ledgers keep it.                                                     *)
NotSent == {"failed", "not_configured"}

(* A host sends once for a claim, and a row stays pending until that is        *)
(* recorded.                                                                   *)
OncePerClaim(h, e, c) ==
    /\ alerts[h][e][c] =< 1
    /\ task[h][e][c] \in ToSend => alerts[h][e][c] = 0
    /\ task[h][e][c] # "none" => status[h][e][c] = "pending"

(* Nothing is claimed before it is new to the ledger.                          *)
NewToSource(e, c) ==
    stage[e] # "done" => /\ task["source"][e][c] = "none" /\ status["source"][e][c] = "none"
                         /\ alerts["source"][e][c] = 0

NewToLocal(e, c) == Open(status["local"][e][c]) => alerts["local"][e][c] = 0

(* The local host acts when the source's outcome is final, and is what an      *)
(* answer said, however old.                                                   *)
LocalAfterSource(e, c) ==
    /\ alerts["local"][e][c] > 0 \/ task["local"][e][c] \in ToSend
           => status["source"][e][c] \in NotSent
    /\ \A p \in Pollers : heard[p] # None /\ heard[p].event = e /\ heard[p].delivery[c] \in NotSent
           => status["source"][e][c] \in NotSent

(* An email reported as not sent was not sent.                                 *)
HonestEmail(e, c) ==
    c = "email" /\ (task["source"][e][c] = "failed" \/ status["source"][e][c] \in NotSent)
        => alerts["source"][e][c] = 0

Kept(e, c) ==
    /\ \A h \in Hosts : OncePerClaim(h, e, c)
    /\ NewToSource(e, c) /\ NewToLocal(e, c)
    /\ LocalAfterSource(e, c) /\ HonestEmail(e, c)

Claims ==
    \A e \in Events :
        /\ e \notin dropped => \A c \in Channels : Kept(e, c)
        /\ e \in dropped => ShownOnce(e)

(* A step at one event and channel that, if anything, ends work on it.         *)
Fewer(e, c) ==
    /\ \A h \in Hosts : /\ alerts'[h][e][c] = alerts[h][e][c]
                        /\ status'[h][e][c] = status[h][e][c]
                        /\ task'[h][e][c] \in {task[h][e][c], "none"}
    /\ stage'[e] # "done" => stage[e] # "done"
    /\ \A p \in Pollers : heard'[p] \in {heard[p], None}

LEMMA FewerKeeps ==
    ASSUME NEW e \in Events, NEW c \in Channels, Kept(e, c), Fewer(e, c)
    PROVE  Kept(e, c)'
<1> USE Members DEF Fewer
<1>1. ASSUME NEW h \in Hosts PROVE OncePerClaim(h, e, c)'
  BY DEF Kept, OncePerClaim, ToSend
<1>2. NewToSource(e, c)' /\ NewToLocal(e, c)'
  BY DEF Kept, NewToSource, NewToLocal, Open
<1>3. LocalAfterSource(e, c)'
  BY DEF Kept, LocalAfterSource, ToSend
<1>4. HonestEmail(e, c)'
  BY DEF Kept, HonestEmail
<1> QED  BY <1>1, <1>2, <1>3, <1>4 DEF Kept

LEMMA KeptShownOnce ==
    ASSUME TypeInv, NEW e \in Events, \A c \in Channels : Kept(e, c)
    PROVE  ShownOnce(e)
<1>1. \A h \in Hosts, c \in Channels : alerts[h][e][c] =< 1
  BY DEF Kept, OncePerClaim
<1>2. Kept(e, "email")
  BY Members
<1>3. alerts["source"][e]["email"] \in Nat /\ alerts["local"][e]["email"] \in Nat
  BY Members DEF TypeInv, TypeOK
<1>4. alerts["local"][e]["email"] > 0 => alerts["source"][e]["email"] = 0
  BY <1>2 DEF Kept, LocalAfterSource, HonestEmail
<1>5. alerts["source"][e]["email"] =< 1 /\ alerts["local"][e]["email"] =< 1
  BY <1>1, Members
<1> QED  BY <1>1, <1>3, <1>4, <1>5 DEF ShownOnce

(* Each action, at an event and a channel that the ledgers keep.               *)
LEMMA RegisterKeeps ==
    ASSUME TypeInv, NEW e \in Events, NEW c \in Channels, Kept(e, c),
           NEW f \in Events, NEW on, NEW t \in {"claimed", "worker"},
           stage[f] # "done", Register(f, on, t)
    PROVE  Kept(e, c)'
<1> USE Members
<1> DEFINE new == [d \in Channels |-> IF d \in on THEN "pending" ELSE "not_configured"]
           tasks == [d \in Channels |-> IF d \in on THEN t ELSE "none"]
<1>1. /\ stage' = [stage EXCEPT ![f] = "done"]
      /\ status' = [status EXCEPT !["source"][f] = new]
      /\ task' = [task EXCEPT !["source"][f] = tasks]
      /\ heard' = heard /\ alerts' = alerts
  BY DEF Register
<1>2. new[c] \in {"pending", "not_configured"} /\ (tasks[c] # "none" => new[c] = "pending")
  OBVIOUS
<1> HIDE DEF new, tasks
<1>3. CASE f = e
  <2>1. /\ task'["source"][e][c] = tasks[c] /\ status'["source"][e][c] = new[c]
        /\ task'["local"] = task["local"] /\ status'["local"] = status["local"]
        /\ stage'[e] = "done"
    BY <1>1, <1>3 DEF TypeInv, TypeOK
  <2>2. /\ status["source"][e][c] = "none" /\ alerts["source"][e][c] = 0
    BY <1>3 DEF Kept, NewToSource
  <2>3. ~(alerts["local"][e][c] > 0) /\ task["local"][e][c] \notin ToSend
    BY <2>2 DEF Kept, LocalAfterSource, NotSent
  <2>4. \A h \in Hosts : OncePerClaim(h, e, c)'
    <3>1. OncePerClaim("source", e, c)'
      BY <1>1, <1>2, <2>1, <2>2 DEF OncePerClaim
    <3>2. OncePerClaim("local", e, c)'
      BY <1>1, <2>1 DEF Kept, OncePerClaim
    <3> QED  BY <3>1, <3>2 DEF Hosts
  <2>5. NewToSource(e, c)' /\ NewToLocal(e, c)'
    BY <1>1, <2>1 DEF Kept, NewToSource, NewToLocal, Open
  <2>6. LocalAfterSource(e, c)'
    BY <1>1, <2>1, <2>2, <2>3 DEF Kept, LocalAfterSource, NotSent
  <2>7. HonestEmail(e, c)'
    BY <1>1, <2>2 DEF HonestEmail
  <2> QED  BY <2>4, <2>5, <2>6, <2>7 DEF Kept
<1>4. CASE f # e
  <2>1. Fewer(e, c)
    BY <1>1, <1>4 DEF Fewer, TypeInv, TypeOK
  <2> QED  BY <2>1, FewerKeeps
<1> QED  BY <1>3, <1>4

LEMMA ScheduleKeeps ==
    ASSUME TypeInv, NEW e \in Events, NEW c \in Channels, Kept(e, c),
           NEW h \in Hosts, NEW f \in Events, NEW d \in Channels, Schedule(h, f, d)
    PROVE  Kept(e, c)'
<1>1. PICK new \in {"sending", "failed"} : task' = [task EXCEPT ![h][f][d] = new]
  BY DEF Schedule
<1>2. /\ task[h][f][d] = "claimed"
      /\ UNCHANGED <<stage, status, heard, alerts>>
  BY DEF Schedule, ledger
<1>3. CASE f = e /\ d = c
  <2>1. /\ task'[h][e][c] = new
        /\ \A k \in Hosts : k # h => task'[k][e][c] = task[k][e][c]
    BY <1>1, <1>3 DEF TypeInv, TypeOK
  <2>2. \A k \in Hosts : task'[k][e][c] # "none" => task[k][e][c] # "none"
    BY <1>2, <1>3, <2>1
  <2>3. \A k \in Hosts : task'[k][e][c] \in ToSend => task[k][e][c] \in ToSend
    BY <1>2, <1>3, <2>1 DEF ToSend
  <2>4. alerts[h][e][c] = 0
    BY <1>2, <1>3 DEF Kept, OncePerClaim, ToSend
  <2>5. \A k \in Hosts : OncePerClaim(k, e, c)'
    BY <1>2, <2>2, <2>3 DEF Kept, OncePerClaim
  <2>6. NewToSource(e, c)' /\ NewToLocal(e, c)'
    BY <1>2, <2>2, Members DEF Kept, NewToSource, NewToLocal, Open
  <2>7. LocalAfterSource(e, c)'
    BY <1>2, <2>3, Members DEF Kept, LocalAfterSource
  <2>8. HonestEmail(e, c)'
    BY <1>2, <2>1, <2>4, Members DEF Kept, HonestEmail
  <2> QED  BY <2>5, <2>6, <2>7, <2>8 DEF Kept
<1>4. CASE ~(f = e /\ d = c)
  <2>1. Fewer(e, c)
    BY <1>1, <1>2, <1>4 DEF Fewer, TypeInv, TypeOK
  <2> QED  BY <2>1, FewerKeeps
<1> QED  BY <1>3, <1>4

LEMMA SendKeeps ==
    ASSUME TypeInv, NEW e \in Events, e \notin dropped, NEW c \in Channels, Kept(e, c),
           NEW h \in Hosts, NEW f \in Events, NEW d \in Channels, NEW said \in MaySay(d),
           Send(h, f, d, said)
    PROVE  Kept(e, c)'
<1> DEFINE out == said[1]
           n == said[2]
<1>1. out \in Outcome /\ n \in {0, 1} /\ (d = "email" /\ out = "failed" => n = 0)
  BY DEF MaySay, Outcome
<1>2. /\ task[h][f][d] \in ToSend
      /\ task' = [task EXCEPT ![h][f][d] = out]
      /\ f \notin dropped => alerts' = [alerts EXCEPT ![h][f][d] = @ + n]
      /\ f \in dropped => alerts' = alerts
      /\ UNCHANGED <<stage, status, heard>>
  BY DEF Send, ToSend, ledger
<1> HIDE DEF out, n
<1>3. CASE f = e /\ d = c
  <2>1. alerts[h][e][c] = 0 /\ status[h][e][c] = "pending"
    BY <1>2, <1>3 DEF Kept, OncePerClaim, ToSend
  <2>2. /\ task'[h][e][c] = out /\ alerts'[h][e][c] = n
        /\ \A k \in Hosts : k # h => /\ task'[k][e][c] = task[k][e][c]
                                     /\ alerts'[k][e][c] = alerts[k][e][c]
    BY <1>1, <1>2, <1>3, <2>1 DEF TypeInv, TypeOK
  <2> DEFINE a == alerts'
  <2> HIDE DEF a
  <2>3. /\ out \notin ToSend /\ out # "none"
    BY <1>1 DEF Outcome, ToSend
  <2>4. \A k \in Hosts : OncePerClaim(k, e, c)'
    <3>1. a[h][e][c] =< 1
      BY <1>1, <2>2 DEF a
    <3>2. OncePerClaim(h, e, c)'
      BY <1>2, <2>1, <2>2, <2>3, <3>1 DEF OncePerClaim, a
    <3>3. ASSUME NEW k \in Hosts, k # h PROVE OncePerClaim(k, e, c)'
      BY <1>2, <2>2, <3>3 DEF Kept, OncePerClaim
    <3> QED  BY <3>2, <3>3
  <2>5. NewToSource(e, c)' /\ NewToLocal(e, c)'
    BY <1>2, <1>3, <2>1, <2>2, Members DEF Kept, NewToSource, NewToLocal, Open, Hosts, ToSend
  <2>6. LocalAfterSource(e, c)'
    <3>1. CASE h = "local"
      BY <1>2, <1>3, <3>1 DEF Kept, LocalAfterSource
    <3>2. CASE h # "local"
      BY <1>2, <2>2, <3>2, Members DEF Kept, LocalAfterSource
    <3> QED  BY <3>1, <3>2
  <2>7. HonestEmail(e, c)'
    BY <1>1, <1>2, <1>3, <2>1, <2>2, Members DEF Kept, HonestEmail, NotSent
  <2> QED  BY <2>4, <2>5, <2>6, <2>7 DEF Kept
<1>4. CASE ~(f = e /\ d = c)
  <2>1. Fewer(e, c)
    BY <1>1, <1>2, <1>4 DEF Fewer, TypeInv, TypeOK
  <2> QED  BY <2>1, FewerKeeps
<1> QED  BY <1>3, <1>4

LEMMA RecordKeeps ==
    ASSUME TypeInv, NEW e \in Events, NEW c \in Channels, Kept(e, c),
           NEW h \in Hosts, NEW f \in Events, NEW d \in Channels, Record(h, f, d)
    PROVE  Kept(e, c)'
<1> DEFINE out == task[h][f][d]
<1>1. /\ out \in Outcome /\ status' \in {status, [status EXCEPT ![h][f][d] = out]}
      /\ task' = [task EXCEPT ![h][f][d] = "none"]
      /\ UNCHANGED <<stage, heard, alerts>>
  BY DEF Record
<1>2. CASE f = e /\ d = c /\ status' = [status EXCEPT ![h][f][d] = out]
  <2>1. /\ task'[h][e][c] = "none" /\ status'[h][e][c] = out
        /\ \A k \in Hosts : k # h => /\ task'[k][e][c] = task[k][e][c]
                                     /\ status'[k][e][c] = status[k][e][c]
    BY <1>1, <1>2 DEF TypeInv, TypeOK
  <2>2. task[h][e][c] = out /\ status[h][e][c] = "pending"
    BY <1>1, <1>2 DEF Kept, OncePerClaim, Outcome
  <2>3. ~Open(out) /\ out # "not_configured" /\ out # "none"
    BY <1>1 DEF Open, Outcome
  <2> HIDE DEF out
  <2>4. \A k \in Hosts : OncePerClaim(k, e, c)'
    BY <1>1, <2>1 DEF Kept, OncePerClaim, ToSend
  <2>5. NewToSource(e, c)' /\ NewToLocal(e, c)'
    BY <1>1, <2>1, <2>2, <2>3, Members DEF Kept, NewToSource, NewToLocal
  <2>6. LocalAfterSource(e, c)'
    <3>1. CASE h = "local"
      BY <1>1, <2>1, <3>1, Members DEF Kept, LocalAfterSource, ToSend, Hosts
    <3>2. CASE h = "source"
      BY <1>1, <2>1, <2>2, <3>2, Members DEF Kept, LocalAfterSource, NotSent
    <3> QED  BY <3>1, <3>2 DEF Hosts
  <2>7. HonestEmail(e, c)'
    <3>1. CASE h = "local"
      BY <1>1, <2>1, <3>1, Members DEF Kept, HonestEmail, Hosts
    <3>2. CASE h = "source"
      BY <1>1, <2>1, <2>2, <2>3, <3>2, Members DEF Kept, HonestEmail, NotSent
    <3> QED  BY <3>1, <3>2 DEF Hosts
  <2> QED  BY <2>4, <2>5, <2>6, <2>7 DEF Kept
<1>3. CASE ~(f = e /\ d = c) \/ status' = status
  <2>1. \A k \in Hosts : /\ status'[k][e][c] = status[k][e][c]
                         /\ task'[k][e][c] \in {task[k][e][c], "none"}
    BY <1>1, <1>3 DEF TypeInv, TypeOK
  <2>2. Fewer(e, c)
    BY <1>1, <2>1 DEF Fewer
  <2> QED  BY <2>2, FewerKeeps
<1> QED  BY <1>1, <1>2, <1>3

LEMMA PollKeeps ==
    ASSUME TypeInv, NEW e \in Events, NEW c \in Channels, Kept(e, c),
           NEW p \in Pollers, NEW f \in Events, Poll(p, f)
    PROVE  Kept(e, c)'
<1>1. /\ heard' = [heard EXCEPT ![p] = [event |-> f, delivery |-> status["source"][f]]]
      /\ UNCHANGED <<stage, status, task, alerts>>
  BY DEF Poll, ledger
<1>2. \A q \in Pollers :
          \/ heard'[q] = heard[q]
          \/ heard'[q] = [event |-> f, delivery |-> status["source"][f]]
  BY <1>1 DEF TypeInv, TypeOK
<1>3. LocalAfterSource(e, c)'
  <2>1. ASSUME NEW q \in Pollers,
               heard'[q] # None, heard'[q].event = e, heard'[q].delivery[c] \in NotSent
        PROVE  status["source"][e][c] \in NotSent
    BY <1>2, <2>1 DEF Kept, LocalAfterSource
  <2> QED  BY <1>1, <2>1 DEF Kept, LocalAfterSource
<1>4. \A h \in Hosts : OncePerClaim(h, e, c)'
  BY <1>1 DEF Kept, OncePerClaim
<1>5. NewToSource(e, c)' /\ NewToLocal(e, c)' /\ HonestEmail(e, c)'
  BY <1>1 DEF Kept, NewToSource, NewToLocal, HonestEmail
<1> QED  BY <1>3, <1>4, <1>5 DEF Kept

LEMMA SettleMeaning ==
    ASSUME NEW now, NEW remote \in Reported, NEW wanted \in BOOLEAN
    PROVE  /\ ~Open(now) => Settle(now, remote, wanted) = now
           /\ Open(now) /\ Settle(now, remote, wanted) = "pending" => remote \in NotSent
           /\ Open(Settle(now, remote, wanted)) => Open(now)
BY DEF Settle, Open, Reported, NotSent

LEMMA RelayKeeps ==
    ASSUME TypeInv, NEW e \in Events, NEW c \in Channels, Kept(e, c),
           NEW p \in Pollers, NEW on, Relay(p, on)
    PROVE  Kept(e, c)'
<1> DEFINE f == heard[p].event
           now == status["local"][f]
           new == [d \in Channels |-> Settle(now[d], heard[p].delivery[d], d \in on)]
           claims == {d \in Channels : Open(now[d]) /\ new[d] = "pending"}
           tasks == [d \in Channels |-> IF d \in claims THEN "claimed" ELSE task["local"][f][d]]
<1>1. heard[p] \in Answer /\ heard[p] # None
  <2>1. heard[p] # None
    BY DEF Relay
  <2> QED  BY <2>1, RelayTypes DEF TypeInv
<1>2. f \in Events /\ heard[p].delivery[c] \in Reported
  BY <1>1 DEF Answer
<1>3. /\ heard' = [heard EXCEPT ![p] = None]
      /\ status' = [status EXCEPT !["local"][f] = new]
      /\ task' = [task EXCEPT !["local"][f] = tasks]
      /\ UNCHANGED <<stage, alerts>>
  BY DEF Relay
<1>4. /\ ~Open(now[c]) => new[c] = now[c]
      /\ c \in claims => heard[p].delivery[c] \in NotSent
      /\ Open(new[c]) => Open(now[c])
  <2>1. (c \in on) \in BOOLEAN
    OBVIOUS
  <2>2. new[c] = Settle(now[c], heard[p].delivery[c], c \in on)
    OBVIOUS
  <2>3. c \in claims => Open(now[c]) /\ new[c] = "pending"
    OBVIOUS
  <2> HIDE DEF new, now, claims
  <2> QED  BY <1>2, <2>1, <2>2, <2>3, SettleMeaning
<1>5. \/ c \in claims /\ tasks[c] = "claimed" /\ Open(now[c]) /\ new[c] = "pending"
      \/ c \notin claims /\ tasks[c] = task["local"][f][c]
  OBVIOUS
<1>6. \A q \in Pollers : heard'[q] \in {heard[q], None}
  BY <1>3 DEF TypeInv, TypeOK
<1>7. now[c] = status["local"][f][c]
  OBVIOUS
<1> HIDE DEF now, new, claims, tasks
<1>8. CASE f = e
  <2>1. /\ task'["source"] = task["source"] /\ status'["source"] = status["source"]
        /\ task'["local"][e][c] = tasks[c] /\ status'["local"][e][c] = new[c]
    BY <1>3, <1>8, Members DEF TypeInv, TypeOK
  <2>2. c \in claims => status["source"][e][c] \in NotSent
    BY <1>1, <1>4, <1>8 DEF Kept, LocalAfterSource
  <2>3. Open(now[c]) => task["local"][e][c] = "none" /\ alerts["local"][e][c] = 0
    BY <1>7, <1>8, Members DEF Kept, OncePerClaim, NewToLocal, Open
  <2>4. OncePerClaim("local", e, c)'
    <3>1. task["local"][e][c] # "none" => now[c] = "pending"
      BY <1>7, <1>8, Members DEF Kept, OncePerClaim
    <3>2. alerts["local"][e][c] =< 1 /\ (task["local"][e][c] \in ToSend => alerts["local"][e][c] = 0)
      BY Members DEF Kept, OncePerClaim
    <3>3. CASE c \in claims
      BY <1>3, <1>5, <2>1, <2>3, <3>2, <3>3 DEF OncePerClaim
    <3>4. CASE c \notin claims
      <4>1. tasks[c] = task["local"][e][c]
        BY <1>5, <1>8, <3>4
      <4>2. tasks[c] # "none" => new[c] = "pending"
        BY <1>4, <3>1, <4>1 DEF Open
      <4> QED  BY <1>3, <2>1, <3>2, <4>1, <4>2 DEF OncePerClaim
    <3> QED  BY <3>3, <3>4
  <2>5. OncePerClaim("source", e, c)'
    BY <1>3, <2>1, Members DEF Kept, OncePerClaim
  <2>6. NewToSource(e, c)' /\ NewToLocal(e, c)'
    BY <1>3, <1>4, <2>1, <2>3 DEF Kept, NewToSource, NewToLocal
  <2>7. LocalAfterSource(e, c)'
    <3>1. tasks[c] \in ToSend => c \in claims \/ task["local"][e][c] \in ToSend
      BY <1>5, <1>8
    <3> QED  BY <1>3, <1>6, <2>1, <2>2, <3>1 DEF Kept, LocalAfterSource
  <2>8. HonestEmail(e, c)'
    BY <1>3, <2>1 DEF Kept, HonestEmail
  <2> QED  BY <2>4, <2>5, <2>6, <2>7, <2>8 DEF Kept, Hosts
<1>9. CASE f # e
  <2>1. \A h \in Hosts : task'[h][e] = task[h][e] /\ status'[h][e] = status[h][e]
    BY <1>3, <1>9 DEF TypeInv, TypeOK
  <2>2. Fewer(e, c)
    BY <1>3, <1>6, <2>1 DEF Fewer
  <2> QED  BY <2>2, FewerKeeps
<1> QED  BY <1>8, <1>9

LEMMA CrashFewer ==
    ASSUME TypeInv, NEW e \in Events, NEW c \in Channels,
           CrashSource \/ CrashTray \/ \E f \in Events : LoseWorker(f)
    PROVE  Fewer(e, c) /\ dropped' = dropped
<1>1. ASSUME NEW h \in Hosts, NEW S, task' = [task EXCEPT ![h] = Idle(S, h)]
      PROVE  \A k \in Hosts : task'[k][e][c] \in {task[k][e][c], "none"}
  BY <1>1 DEF Idle, TypeInv, TypeOK
<1>2. \A k \in Hosts : task'[k][e][c] \in {task[k][e][c], "none"}
  BY <1>1, Members DEF CrashSource, CrashTray, LoseWorker
<1>3. /\ stage'[e] # "done" => stage[e] # "done"
      /\ UNCHANGED <<status, alerts, dropped>>
      /\ \A p \in Pollers : heard'[p] \in {heard[p], None}
  BY DEF CrashSource, CrashTray, LoseWorker, ledger
<1> QED  BY <1>2, <1>3 DEF Fewer

LEMMA StepKeeps ==
    ASSUME TypeInv, [Next]_vars, NEW e \in Events, e \notin dropped', NEW c \in Channels, Kept(e, c)
    PROVE  Kept(e, c)' /\ e \notin dropped
<1>1. ASSUME NEW f \in Events, Log(f) PROVE Fewer(e, c) /\ dropped' = dropped
  BY <1>1 DEF Log, Fewer, TypeInv, TypeOK, ledger
<1>2. ASSUME NEW f \in Events, NEW on \in SUBSET Channels, NotifyLocal(f, on)
      PROVE  Kept(e, c)' /\ dropped' = dropped
  <2>1. stage[f] # "done" /\ Register(f, on, "claimed")
    BY <1>2 DEF NotifyLocal
  <2>2. dropped' = dropped
    BY <2>1 DEF Register
  <2> QED  BY <2>1, <2>2, RegisterKeeps
<1>3. ASSUME NEW f \in Events, NEW on \in SUBSET Channels, PersistLocal(f, on)
      PROVE  Kept(e, c)' /\ dropped' = dropped
  <2>1. stage[f] # "done" /\ Register(f, on, "worker")
    BY <1>3 DEF PersistLocal
  <2>2. dropped' = dropped
    BY <2>1 DEF Register
  <2> QED  BY <2>1, <2>2, RegisterKeeps
<1>4. ASSUME NEW f \in Events, RegisterFails(f) PROVE Fewer(e, c) /\ dropped' = dropped
  BY <1>4 DEF RegisterFails, Fewer, TypeInv, TypeOK, ledger
<1>5. ASSUME NEW h \in Hosts, NEW f \in Events, NEW d \in Channels, Schedule(h, f, d)
      PROVE  Kept(e, c)' /\ dropped' = dropped
  <2>1. dropped' = dropped
    BY <1>5 DEF Schedule
  <2> QED  BY <1>5, <2>1, ScheduleKeeps
<1>6. ASSUME NEW h \in Hosts, NEW f \in Events, NEW d \in Channels, NEW said \in MaySay(d),
             Send(h, f, d, said)
      PROVE  Kept(e, c)' /\ dropped' = dropped
  <2>1. dropped' = dropped
    BY <1>6 DEF Send
  <2> QED  BY <1>6, <2>1, SendKeeps
<1>7. ASSUME NEW h \in Hosts, NEW f \in Events, NEW d \in Channels, Record(h, f, d)
      PROVE  Kept(e, c)' /\ dropped' = dropped
  <2>1. dropped' = dropped
    BY <1>7 DEF Record
  <2> QED  BY <1>7, <2>1, RecordKeeps
<1>8. ASSUME NEW p \in Pollers, NEW f \in Events, Poll(p, f) PROVE Kept(e, c)' /\ dropped' = dropped
  <2>1. dropped' = dropped
    BY <1>8 DEF Poll
  <2> QED  BY <1>8, <2>1, PollKeeps
<1>9. ASSUME NEW p \in Pollers, NEW on \in SUBSET Channels, Relay(p, on)
      PROVE  Kept(e, c)' /\ dropped' = dropped
  <2>1. dropped' = dropped
    BY <1>9 DEF Relay
  <2> QED  BY <1>9, <2>1, RelayKeeps
<1>10. ASSUME NEW h \in Hosts, NEW f \in Events, Prune(h, f)
       PROVE  Fewer(e, c) /\ e \notin dropped
  <2>1. f # e /\ e \notin dropped
    BY <1>10 DEF Prune
  <2>2. /\ \A k \in Hosts : status'[k][e] = status[k][e]
        /\ UNCHANGED <<stage, task, heard, alerts>>
    BY <1>10, <2>1 DEF Prune, TypeInv, TypeOK
  <2> QED  BY <2>1, <2>2 DEF Fewer
<1>11. ASSUME CrashSource \/ CrashTray \/ \E f \in Events : LoseWorker(f)
       PROVE  Fewer(e, c) /\ dropped' = dropped
  BY <1>11, CrashFewer
<1>12. ASSUME UNCHANGED vars \/ \E f \in Events : Bury(f)
       PROVE  Fewer(e, c) /\ dropped' = dropped
  BY <1>12 DEF Bury, vars, ledger, Fewer
<1> QED
  BY <1>1, <1>2, <1>3, <1>4, <1>5, <1>6, <1>7, <1>8, <1>9, <1>10, <1>11, <1>12,
     FewerKeeps DEF Next, vars

(* What the history of a dropped event counts is final.                        *)
LEMMA StepDropped ==
    ASSUME TypeInv, [Next]_vars, NEW e \in Events
    PROVE  /\ e \in dropped => e \in dropped' /\ \A h \in Hosts : alerts'[h][e] = alerts[h][e]
           /\ e \in dropped' /\ e \notin dropped => alerts' = alerts
<1>1. ASSUME NEW h \in Hosts, NEW f \in Events, NEW c \in Channels, NEW said \in MaySay(c),
             Send(h, f, c, said)
      PROVE  dropped' = dropped /\ (e \in dropped => \A k \in Hosts : alerts'[k][e] = alerts[k][e])
  <2>1. dropped' = dropped
    BY <1>1 DEF Send
  <2>2. CASE f \in dropped
    BY <1>1, <2>1, <2>2 DEF Send
  <2>3. CASE f \notin dropped
    <3>1. alerts' = [alerts EXCEPT ![h][f][c] = @ + said[2]]
      BY <1>1, <2>3 DEF Send
    <3>2. f # e => \A k \in Hosts : alerts'[k][e] = alerts[k][e]
      BY <3>1 DEF TypeInv, TypeOK
    <3> QED  BY <2>1, <2>3, <3>2
  <2> QED  BY <2>2, <2>3
<1>2. ASSUME NEW h \in Hosts, NEW f \in Events, Prune(h, f)
      PROVE  dropped' = dropped \cup {f} /\ alerts' = alerts
  BY <1>2 DEF Prune
<1>3. ASSUME \/ \E f \in Events : Log(f) \/ RegisterFails(f) \/ Bury(f) \/ LoseWorker(f)
             \/ \E f \in Events, on \in SUBSET Channels : NotifyLocal(f, on) \/ PersistLocal(f, on)
             \/ \E h \in Hosts, f \in Events, c \in Channels : Schedule(h, f, c) \/ Record(h, f, c)
             \/ \E p \in Pollers, f \in Events : Poll(p, f)
             \/ \E p \in Pollers, on \in SUBSET Channels : Relay(p, on)
             \/ CrashSource \/ CrashTray
             \/ UNCHANGED vars
      PROVE  dropped' = dropped /\ alerts' = alerts
  BY <1>3 DEF Log, RegisterFails, Bury, LoseWorker, NotifyLocal, PersistLocal, Register, Schedule, Record,
              Poll, Relay, CrashSource, CrashTray, vars
<1> QED  BY <1>1, <1>2, <1>3 DEF Next

LEMMA StepClaims == TypeInv /\ Claims /\ [Next]_vars => Claims'
<1> SUFFICES ASSUME TypeInv, Claims, [Next]_vars, NEW e \in Events
             PROVE  /\ e \notin dropped' => \A c \in Channels : Kept(e, c)'
                    /\ e \in dropped' => ShownOnce(e)'
  BY DEF Claims
<1>1. ASSUME e \notin dropped', NEW c \in Channels PROVE Kept(e, c)'
  <2>1. e \notin dropped
    BY <1>1, StepDropped
  <2>2. Kept(e, c)
    BY <2>1 DEF Claims
  <2> QED  BY <1>1, <2>2, StepKeeps
<1>2. ASSUME e \in dropped' PROVE ShownOnce(e)'
  <2>1. ShownOnce(e)
    BY KeptShownOnce DEF Claims
  <2>2. \A h \in Hosts : alerts'[h][e] = alerts[h][e]
    BY <1>2, StepDropped
  <2> QED  BY <2>1, <2>2, Members DEF ShownOnce
<1> QED  BY <1>1, <1>2

LEMMA InitClaims == Init => Claims
<1> SUFFICES ASSUME Init, NEW e \in Events, NEW c \in Channels PROVE e \notin dropped /\ Kept(e, c)
  BY DEF Claims, Init
<1>1. \A h \in Hosts : alerts[h][e][c] = 0 /\ task[h][e][c] = "none" /\ status[h][e][c] = "none"
  BY DEF Init
<1>2. \A h \in Hosts : OncePerClaim(h, e, c)
  BY <1>1 DEF OncePerClaim
<1>3. LocalAfterSource(e, c)
  BY <1>1, Members DEF LocalAfterSource, Init, ToSend
<1> QED
  BY <1>1, <1>2, <1>3, Members DEF Kept, NewToSource, NewToLocal, HonestEmail, Init

(* While the ledgers keep an event, no host shows it twice on a channel and    *)
(* the two send one email, for any number of pollers and crashes: a claim is   *)
(* committed before the alert is sent and stays pending until its outcome is   *)
(* recorded, and the local host claims what the source's ledger calls not      *)
(* sent, which the source never takes back.                                    *)
THEOREM NoAlertTwice == Spec => []AtMostOnce
<1>1. Init => TypeInv /\ Claims
  BY InitTypes, InitClaims
<1>2. (TypeInv /\ Claims) /\ [Next]_vars => (TypeInv /\ Claims)'
  BY StepTypes, StepClaims
<1>3. TypeInv /\ Claims => AtMostOnce
  BY KeptShownOnce DEF Claims, AtMostOnce
<1> QED  BY <1>1, <1>2, <1>3, PTL DEF Spec

-------------------------------------------------------------------------------
(* Refinement.                                                                 *)

Before(e) == RightTo(<<e, "email">>)
Sent(e) == Shown(<<e, "email">>)

(* What AlertOnce lets a step do to the email of one event.                    *)
Allowed(e) ==
    \/ UNCHANGED <<Before(e), Sent(e)>>
    \/ Before(e) # "spent" /\ Before(e)' = "spent" /\ Sent(e)' = Sent(e) + 1
    \/ Before(e) = "source" /\ Before(e)' = "local" /\ UNCHANGED Sent(e)
    \/ Before(e) # "spent" /\ Before(e)' = "spent" /\ UNCHANGED Sent(e)

LEMMA BeforeIs ==
    ASSUME NEW e \in Events
    PROVE  /\ Before(e) = IF e \in dropped THEN "spent"
                          ELSE IF SourceMay(e, "email") THEN "source"
                          ELSE IF LocalMay(e, "email") THEN "local"
                          ELSE "spent"
           /\ Sent(e) = alerts["source"][e]["email"] + alerts["local"][e]["email"]
BY DEF Before, Sent, RightTo, Shown

LEMMA NothingSent ==
    ASSUME NEW e \in Events, e \notin dropped, e \notin dropped',
           alerts'["source"][e]["email"] = alerts["source"][e]["email"],
           alerts'["local"][e]["email"] = alerts["local"][e]["email"],
           SourceMay(e, "email")' => SourceMay(e, "email"),
           LocalMay(e, "email")' => SourceMay(e, "email") \/ LocalMay(e, "email")
    PROVE  Allowed(e)
<1>1. UNCHANGED Sent(e)
  BY DEF Sent, Shown
<1>2. Before(e)' = IF SourceMay(e, "email")' THEN "source"
                   ELSE IF LocalMay(e, "email")' THEN "local"
                   ELSE "spent"
  BY DEF Before, RightTo
<1> QED  BY <1>1, <1>2, BeforeIs DEF Allowed

LEMMA FewerAllowed ==
    ASSUME NEW e \in Events, e \notin dropped, e \notin dropped', Fewer(e, "email")
    PROVE  Allowed(e)
<1>1. SourceMay(e, "email")' => SourceMay(e, "email")
  BY Members DEF Fewer, SourceMay, ToSend
<1>2. LocalMay(e, "email")' => LocalMay(e, "email")
  BY Members DEF Fewer, LocalMay, ToSend, Open
<1> QED  BY <1>1, <1>2, NothingSent, Members DEF Fewer

LEMMA SendAllowed ==
    ASSUME TypeInv, NEW e \in Events, e \notin dropped, e \notin dropped', Kept(e, "email"),
           NEW h \in Hosts, NEW said \in MaySay("email"), Send(h, e, "email", said)
    PROVE  Allowed(e)
<1> DEFINE out == said[1]
           n == said[2]
           c == "email"
           a == alerts'
<1> USE Members
<1>1. /\ out \in Outcome /\ n \in {0, 1}
      /\ out = "failed" => n = 0
  BY DEF MaySay, Outcome
<1>2. /\ task[h][e][c] \in ToSend
      /\ task' = [task EXCEPT ![h][e][c] = out]
      /\ a = [alerts EXCEPT ![h][e][c] = @ + n]
      /\ UNCHANGED <<stage, status, heard>>
  BY DEF Send, ToSend, ledger
<1> HIDE DEF out, n
<1>3. alerts[h][e][c] = 0 /\ status[h][e][c] = "pending"
  BY <1>2 DEF Kept, OncePerClaim, ToSend
<1> HIDE DEF a
<1>4. /\ task'[h][e][c] = out /\ a[h][e][c] = n
      /\ \A k \in Hosts : k # h => /\ task'[k][e][c] = task[k][e][c]
                                   /\ a[k][e][c] = alerts[k][e][c]
  BY <1>1, <1>2, <1>3 DEF TypeInv, TypeOK
<1>5. SourceMay(e, c) \/ LocalMay(e, c)
  BY <1>2, <1>3 DEF Kept, LocalAfterSource, NotSent, SourceMay, LocalMay, Hosts
<1>6. CASE n = 0
  <2>1. SourceMay(e, c)' => SourceMay(e, c)
    BY <1>2, <1>4 DEF SourceMay, Hosts
  <2>2. /\ a["source"][e][c] = alerts["source"][e][c] /\ a["local"][e][c] = alerts["local"][e][c]
    BY <1>3, <1>4, <1>6 DEF Hosts
  <2> QED  BY <1>5, <2>1, <2>2, NothingSent DEF a
<1>7. CASE n = 1
  <2>1. stage[e] = "done"
    <3>1. status["source"][e][c] # "none"
      BY <1>2, <1>3 DEF Kept, LocalAfterSource, NotSent, Hosts
    <3>2. stage[e] \in {"new", "queued", "done"}
      BY DEF TypeInv, TypeOK
    <3> QED  BY <3>1, <3>2 DEF Kept, NewToSource
  <2>2. ~SourceMay(e, c)'
    <3>1. CASE h = "source"
      BY <1>1, <1>2, <1>4, <1>7, <2>1, <3>1 DEF SourceMay, ToSend, Outcome
    <3>2. CASE h = "local"
      <4>1. task["source"][e][c] = "none"
        BY <1>2, <3>2 DEF Kept, LocalAfterSource, OncePerClaim, NotSent
      <4> QED  BY <1>2, <1>4, <2>1, <3>2, <4>1 DEF SourceMay, ToSend
    <3> QED  BY <3>1, <3>2 DEF Hosts
  <2>3. ~LocalMay(e, c)'
    BY <1>1, <1>2, <1>3, <1>4 DEF LocalMay, ToSend, Outcome, Open, Hosts, NotSent
  <2>4. Before(e)' = "spent"
    BY <2>2, <2>3 DEF Before, RightTo
  <2>5. Before(e) # "spent"
    BY <1>5, BeforeIs
  <2>6. a["source"][e][c] + a["local"][e][c] = alerts["source"][e][c] + alerts["local"][e][c] + 1
    <3>1. alerts["source"][e][c] \in Nat /\ alerts["local"][e][c] \in Nat
      BY DEF TypeInv, TypeOK
    <3> QED  BY <1>3, <1>4, <1>7, <3>1 DEF Hosts
  <2>7. Sent(e)' = Sent(e) + 1
    BY <2>6 DEF a, Sent, Shown
  <2> QED  BY <2>4, <2>5, <2>7 DEF Allowed
<1> QED  BY <1>1, <1>6, <1>7

LEMMA RegisterAllowed ==
    ASSUME NEW e \in Events, e \notin dropped,
           NEW on, NEW t, stage[e] # "done", Register(e, on, t)
    PROVE  Allowed(e)
<1>1. dropped' = dropped /\ alerts' = alerts
  BY DEF Register
<1>2. SourceMay(e, "email")
  BY DEF SourceMay
<1> QED  BY <1>1, <1>2, NothingSent

LEMMA ScheduleAllowed ==
    ASSUME TypeInv, NEW e \in Events, e \notin dropped, NEW h \in Hosts, Schedule(h, e, "email")
    PROVE  Allowed(e)
<1> USE Members
<1>1. PICK new \in {"sending", "failed"} : task' = [task EXCEPT ![h][e]["email"] = new]
  BY DEF Schedule
<1>2. task[h][e]["email"] = "claimed" /\ UNCHANGED <<stage, status, alerts, dropped>>
  BY DEF Schedule, ledger
<1>3. /\ task'[h][e]["email"] = new
      /\ \A k \in Hosts : k # h => task'[k][e]["email"] = task[k][e]["email"]
  BY <1>1 DEF TypeInv, TypeOK
<1>4. SourceMay(e, "email")' => SourceMay(e, "email")
  BY <1>2, <1>3 DEF SourceMay, ToSend
<1>5. LocalMay(e, "email")' => LocalMay(e, "email")
  BY <1>2, <1>3 DEF LocalMay, ToSend
<1> QED  BY <1>2, <1>4, <1>5, NothingSent

LEMMA RecordAllowed ==
    ASSUME TypeInv, NEW e \in Events, e \notin dropped, Kept(e, "email"),
           NEW h \in Hosts, Record(h, e, "email")
    PROVE  Allowed(e)
<1> USE Members
<1> DEFINE out == task[h][e]["email"]
<1>1. /\ out \in Outcome /\ status' \in {status, [status EXCEPT ![h][e]["email"] = out]}
      /\ task' = [task EXCEPT ![h][e]["email"] = "none"]
      /\ UNCHANGED <<stage, alerts, dropped>>
  BY DEF Record
<1>2. /\ task'[h][e]["email"] = "none"
      /\ status'[h][e]["email"] \in {status[h][e]["email"], out}
      /\ \A k \in Hosts : k # h => /\ task'[k][e]["email"] = task[k][e]["email"]
                                   /\ status'[k][e]["email"] = status[k][e]["email"]
  BY <1>1 DEF TypeInv, TypeOK
<1>3. SourceMay(e, "email")' => SourceMay(e, "email")
  BY <1>1, <1>2 DEF SourceMay, ToSend
<1>4. ASSUME LocalMay(e, "email")' PROVE SourceMay(e, "email") \/ LocalMay(e, "email")
  <2>1. CASE h = "source"
    BY <1>1, <1>2, <1>4, <2>1 DEF LocalMay, SourceMay, Outcome, Open, ToSend, Hosts
  <2>2. CASE h = "local"
    BY <1>1, <1>2, <1>4, <2>2 DEF LocalMay, Outcome, Open, ToSend, Hosts
  <2> QED  BY <2>1, <2>2 DEF Hosts
<1> QED  BY <1>1, <1>3, <1>4, NothingSent

LEMMA RelayAllowed ==
    ASSUME TypeInv, NEW e \in Events, e \notin dropped,
           NEW p \in Pollers, NEW on, Relay(p, on)
    PROVE  Allowed(e)
<1> USE Members
<1> DEFINE f == heard[p].event
           now == status["local"][f]
           new == [d \in Channels |-> Settle(now[d], heard[p].delivery[d], d \in on)]
           claims == {d \in Channels : Open(now[d]) /\ new[d] = "pending"}
           tasks == [d \in Channels |-> IF d \in claims THEN "claimed" ELSE task["local"][f][d]]
<1>1. heard[p] \in Answer
  BY RelayTypes DEF TypeInv
<1>2. f \in Events /\ heard[p].delivery["email"] \in Reported
  BY <1>1 DEF Answer
<1>3. /\ status' = [status EXCEPT !["local"][f] = new]
      /\ task' = [task EXCEPT !["local"][f] = tasks]
      /\ UNCHANGED <<stage, alerts, dropped>>
  BY DEF Relay
<1>4. Open(new["email"]) => Open(now["email"])
  <2>1. ("email" \in on) \in BOOLEAN
    OBVIOUS
  <2>2. new["email"] = Settle(now["email"], heard[p].delivery["email"], "email" \in on)
    OBVIOUS
  <2> HIDE DEF new, now
  <2> QED  BY <1>2, <2>1, <2>2, SettleMeaning
<1>5. tasks["email"] \in ToSend => Open(now["email"]) \/ task["local"][f]["email"] \in ToSend
  OBVIOUS
<1>6. now["email"] = status["local"][f]["email"]
  OBVIOUS
<1> HIDE DEF f, now, new, claims, tasks
<1>7. task'["source"] = task["source"] /\ status'["source"] = status["source"]
  BY <1>3 DEF TypeInv, TypeOK
<1>8. IF e = f THEN task'["local"][e]["email"] = tasks["email"] /\ status'["local"][e]["email"] = new["email"]
              ELSE task'["local"][e] = task["local"][e] /\ status'["local"][e] = status["local"][e]
  BY <1>2, <1>3 DEF TypeInv, TypeOK
<1>9. SourceMay(e, "email")' => SourceMay(e, "email")
  BY <1>3, <1>7 DEF SourceMay
<1>10. LocalMay(e, "email")' => LocalMay(e, "email")
  BY <1>4, <1>5, <1>6, <1>7, <1>8 DEF LocalMay
<1> QED  BY <1>3, <1>9, <1>10, NothingSent

(* A step that is about another event or channel.                              *)
LEMMA ElsewhereAllowed ==
    ASSUME TypeInv, NEW e \in Events, e \notin dropped,
           NEW h \in Hosts, NEW f \in Events, NEW c \in Channels, ~(f = e /\ c = "email"),
           \/ Schedule(h, f, c)
           \/ \E said \in MaySay(c) : Send(h, f, c, said)
           \/ Record(h, f, c)
    PROVE  Allowed(e)
<1> USE Members
<1>1. CASE Schedule(h, f, c)
  <2>1. PICK new : task' = [task EXCEPT ![h][f][c] = new]
    BY <1>1 DEF Schedule
  <2>2. UNCHANGED <<stage, status, heard, alerts, dropped>>
    BY <1>1 DEF Schedule, ledger
  <2>3. Fewer(e, "email")
    BY <2>1, <2>2 DEF Fewer, TypeInv, TypeOK
  <2> QED  BY <2>2, <2>3, FewerAllowed
<1>2. ASSUME NEW said \in MaySay(c), Send(h, f, c, said) PROVE Allowed(e)
  <2> DEFINE n == said[2]
             out == said[1]
  <2>1. /\ alerts' = alerts \/ alerts' = [alerts EXCEPT ![h][f][c] = @ + n]
        /\ task' = [task EXCEPT ![h][f][c] = out]
        /\ UNCHANGED <<stage, status, heard, dropped>>
    BY <1>2 DEF Send, ledger
  <2> HIDE DEF n, out
  <2>2. Fewer(e, "email")
    BY <2>1 DEF Fewer, TypeInv, TypeOK
  <2> QED  BY <2>1, <2>2, FewerAllowed
<1>3. CASE Record(h, f, c)
  <2>1. \E out : status' \in {status, [status EXCEPT ![h][f][c] = out]}
    BY <1>3 DEF Record
  <2>2. /\ task' = [task EXCEPT ![h][f][c] = "none"]
        /\ UNCHANGED <<stage, heard, alerts, dropped>>
    BY <1>3 DEF Record
  <2>3. Fewer(e, "email")
    BY <2>1, <2>2 DEF Fewer, TypeInv, TypeOK
  <2> QED  BY <2>2, <2>3, FewerAllowed
<1> QED  BY <1>1, <1>2, <1>3

LEMMA StepAllowed ==
    ASSUME TypeInv, Claims, [Next]_vars, NEW e \in Events
    PROVE  Allowed(e)
<1> USE Members
<1>1. CASE e \in dropped
  <2>1. e \in dropped' /\ \A h \in Hosts : alerts'[h][e] = alerts[h][e]
    BY <1>1, StepDropped
  <2>2. Before(e)' = "spent" /\ Before(e) = "spent"
    BY <1>1, <2>1 DEF Before, RightTo
  <2>3. UNCHANGED Sent(e)
    BY <2>1 DEF Sent, Shown
  <2> QED  BY <2>2, <2>3 DEF Allowed
<1>2. CASE e \notin dropped /\ e \in dropped'
  <2>1. alerts' = alerts
    BY <1>2, StepDropped
  <2>2. Before(e)' = "spent" /\ UNCHANGED Sent(e)
    BY <1>2, <2>1 DEF Before, RightTo, Sent, Shown
  <2> QED  BY <2>2 DEF Allowed
<1>3. CASE e \notin dropped /\ e \notin dropped'
  <2> USE <1>3
  <2>0. Kept(e, "email")
    BY DEF Claims
  <2>1. ASSUME NEW f \in Events,
               Log(f) \/ RegisterFails(f) \/ \E h \in Hosts : Prune(h, f)
        PROVE  Fewer(e, "email")
    <3>1. CASE Log(f) \/ RegisterFails(f)
      BY <3>1 DEF Log, RegisterFails, Fewer, TypeInv, TypeOK, ledger
    <3>2. ASSUME NEW h \in Hosts, Prune(h, f) PROVE Fewer(e, "email")
      <4>1. f # e
        BY <3>2 DEF Prune
      <4>2. /\ \A k \in Hosts : status'[k][e] = status[k][e]
            /\ UNCHANGED <<stage, task, heard, alerts>>
        BY <3>2, <4>1 DEF Prune, TypeInv, TypeOK
      <4> QED  BY <4>2 DEF Fewer
    <3> QED  BY <2>1, <3>1, <3>2
  <2>2. ASSUME NEW f \in Events, NEW on \in SUBSET Channels, NotifyLocal(f, on) \/ PersistLocal(f, on)
        PROVE  Allowed(e)
    <3>1. PICK t : Register(f, on, t) /\ stage[f] # "done"
      BY <2>2 DEF NotifyLocal, PersistLocal
    <3>2. CASE f = e
      BY <3>1, <3>2, RegisterAllowed
    <3>3. CASE f # e
      <4>1. \E new, tasks : /\ status' = [status EXCEPT !["source"][f] = new]
                            /\ task' = [task EXCEPT !["source"][f] = tasks]
        BY <3>1 DEF Register
      <4>2. Fewer(e, "email")
        BY <3>1, <3>3, <4>1 DEF Register, Fewer, TypeInv, TypeOK
      <4> QED  BY <4>2, FewerAllowed
    <3> QED  BY <3>2, <3>3
  <2>3. ASSUME NEW h \in Hosts, NEW f \in Events, NEW c \in Channels, Schedule(h, f, c)
        PROVE  Allowed(e)
    BY <2>3, ElsewhereAllowed, ScheduleAllowed
  <2>4. ASSUME NEW h \in Hosts, NEW f \in Events, NEW c \in Channels, NEW said \in MaySay(c),
               Send(h, f, c, said)
        PROVE  Allowed(e)
    BY <2>0, <2>4, ElsewhereAllowed, SendAllowed
  <2>5. ASSUME NEW h \in Hosts, NEW f \in Events, NEW c \in Channels, Record(h, f, c)
        PROVE  Allowed(e)
    BY <2>0, <2>5, ElsewhereAllowed, RecordAllowed
  <2>6. ASSUME NEW p \in Pollers, NEW f \in Events, Poll(p, f) PROVE Allowed(e)
    <3>1. UNCHANGED <<stage, status, task, alerts>>
      BY <2>6 DEF Poll, ledger
    <3>2. SourceMay(e, "email")' = SourceMay(e, "email") /\ LocalMay(e, "email")' = LocalMay(e, "email")
      BY <3>1 DEF SourceMay, LocalMay
    <3> QED  BY <3>1, <3>2, NothingSent
  <2>7. ASSUME NEW p \in Pollers, NEW on \in SUBSET Channels, Relay(p, on) PROVE Allowed(e)
    BY <2>7, RelayAllowed
  <2>8. CASE CrashSource \/ CrashTray \/ \E f \in Events : LoseWorker(f)
    BY <2>8, CrashFewer, FewerAllowed
  <2>9. CASE UNCHANGED vars \/ \E f \in Events : Bury(f)
    <3>1. Fewer(e, "email")
      BY <2>9 DEF Bury, vars, Fewer, ledger
    <3> QED  BY <3>1, FewerAllowed
  <2> QED  BY <2>1, <2>2, <2>3, <2>4, <2>5, <2>6, <2>7, <2>8, <2>9, FewerAllowed DEF Next
<1> QED  BY <1>1, <1>2, <1>3

(* The two ledgers implement AlertOnce for emails: whatever the hosts do, the  *)
(* right to send an email lies with one of them, passes from the source to the *)
(* tray's host once, and ends with the first email sent.                       *)
THEOREM RightIsHandedOver == Spec => OneHolder
<1>1. Init => TypeInv /\ Claims /\ Promise!Init
  <2>1. ASSUME Init, NEW a \in Emails PROVE RightTo(a) = "source" /\ Shown(a) = 0
    <3>1. a[1] \in Events /\ a[2] \in Channels
      BY Members DEF Emails
    <3>2. \A h \in Hosts : alerts[h][a[1]][a[2]] = 0
      BY <2>1, <3>1 DEF Init
    <3>3. Shown(a) = 0
      BY <3>2, Members DEF Shown
    <3>4. RightTo(a) = "source"
      BY <2>1, <3>1 DEF Init, RightTo, SourceMay
    <3> QED  BY <3>3, <3>4
  <2> QED  BY <2>1, InitTypes, InitClaims DEF Promise!Init
<1>2. TypeInv /\ Claims /\ [Next]_vars => (TypeInv /\ Claims)'
  BY StepTypes, StepClaims
<1>3. TypeInv /\ Claims /\ [Next]_vars => [Promise!Next]_(Promise!vars)
  <2> SUFFICES ASSUME TypeInv, Claims, [Next]_vars PROVE Promise!Next
    OBVIOUS
  <2>1. ASSUME NEW a \in Emails
        PROVE  Promise!Keep(a) \/ Promise!Show(a) \/ Promise!HandOver(a) \/ Promise!GiveUp(a)
    <3>1. PICK e \in Events : a = <<e, "email">>
      BY DEF Emails
    <3>2. Allowed(e)
      BY StepAllowed
    <3>3. Before(e) = RightTo(a) /\ Sent(e) = Shown(a)
      BY <3>1 DEF Before, Sent
    <3>4. Before(e)' = RightTo(a)' /\ Sent(e)' = Shown(a)'
      BY <3>1 DEF Before, Sent
    <3> QED  BY <3>2, <3>3, <3>4 DEF Allowed, Promise!Keep, Promise!Show, Promise!HandOver, Promise!GiveUp
  <2> QED  BY <2>1 DEF Promise!Next
<1> QED  BY <1>1, <1>2, <1>3, PTL DEF Spec, OneHolder, Promise!Spec
===============================================================================

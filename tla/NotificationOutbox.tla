-------------------------- MODULE NotificationOutbox --------------------------
(* Notifications of violations, violations/notifications.py and                *)
(* daemon/notification_relay.py.  The host where a violation occurs (source)   *)
(* and the host of the user's tray (local) each keep a ledger in SQLite, one   *)
(* row for an event and one delivery status for each of its channels, and send *)
(* in worker threads.  The tray polls the source's ledger and sends what the   *)
(* source is known not to have sent.                                           *)
(*                                                                             *)
(* One action is one transaction on a ledger, one attempt to send, or one      *)
(* answer of the source.  Age pruning and sources without a ledger are left    *)
(* out.                                                                        *)
EXTENDS Naturals, FiniteSets

CONSTANTS
    Events,      \* violations that occur at the source
    Pollers,     \* threads that relay: of one tray, or of several
    None,        \* a poller that holds no answer
    Slots,       \* _DELIVERY_SLOTS of a process
    QueueSize,   \* _NOTIFICATION_QUEUE
    MaxCrashes   \* bound: processes that die

Hosts == {"source", "local"}
Channels == {"desktop", "email"}

Reported == {"pending", "delivered", "failed", "uncertain", "not_configured"}
Statuses == Reported \cup {"remote_pending", "remote_delivered", "remote_uncertain"}
Outcome == {"delivered", "failed", "uncertain"}

ASSUME OutboxAssumption ==
    /\ IsFiniteSet(Events)
    /\ None \notin [event : Events, delivery : [Channels -> Reported]]
    /\ Slots \in Nat /\ QueueSize \in Nat /\ MaxCrashes \in Nat

VARIABLES
    stage,    \* an event is new, queued for the dispatcher, or done with the queue
    direct,   \* events of hooks run without a daemon: a detached worker sends them
    row,      \* the events each ledger holds
    status,   \* delivery status by host, event and channel; "none": no such row
    task,     \* what a worker still has to do, or the outcome it has to record
    slots,    \* deliveries that hold a slot of their process
    buried,   \* events of the source behind more newer ones than an answer holds
    heard,    \* the part of a source's answer each poller has still to apply
    crashes,
    alerts,   \* history: alerts shown, until a ledger dropped their event
    dropped   \* history: events a ledger had no room for any more

ledger == <<row, status>>
vars == <<stage, direct, row, status, task, slots, buried, heard, crashes, alerts, dropped>>

Init ==
    /\ stage = [e \in Events |-> "new"]
    /\ direct = {}
    /\ row = [h \in Hosts |-> {}]
    /\ status = [h \in Hosts |-> [e \in Events |-> [c \in Channels |-> "none"]]]
    /\ task = [h \in Hosts |-> [e \in Events |-> [c \in Channels |-> "none"]]]
    /\ slots = [h \in Hosts |-> {}]
    /\ buried = {}
    /\ heard = [p \in Pollers |-> None]
    /\ crashes = 0
    /\ alerts = [h \in Hosts |-> [e \in Events |-> [c \in Channels |-> 0]]]
    /\ dropped = {}

-----------------------------------------------------------------------------
(* The source.                                                                 *)

Queued == {e \in Events : stage[e] = "queued"}

(* schedule_violation_notification: a full queue drops the alert.              *)
Log(e) ==
    /\ stage[e] = "new"
    /\ stage' = [stage EXCEPT ![e] = IF Cardinality(Queued) < QueueSize THEN "queued" ELSE "done"]
    /\ UNCHANGED <<direct, ledger, task, slots, buried, heard, crashes, alerts, dropped>>

(* register_local_event; on is what the preferences and the SMTP settings      *)
(* select, and t what the caller does next about it.                           *)
Register(e, on, t) ==
    /\ stage' = [stage EXCEPT ![e] = "done"]
    /\ row' = [row EXCEPT !["source"] = @ \cup {e}]
    /\ status' = [status EXCEPT !["source"][e] =
                     [c \in Channels |-> IF c \in on THEN "pending" ELSE "not_configured"]]
    /\ task' = [task EXCEPT !["source"][e] = [c \in Channels |-> IF c \in on THEN t ELSE "none"]]
    /\ UNCHANGED <<slots, buried, heard, crashes, alerts, dropped>>

(* notify_local, in the dispatcher.                                            *)
NotifyLocal(e, on) ==
    /\ stage[e] = "queued"
    /\ Register(e, on, "claimed")
    /\ UNCHANGED direct

(* persist_local, in a hook process, which leaves the sending to a worker.     *)
PersistLocal(e, on) ==
    /\ stage[e] = "new"
    /\ Register(e, on, "worker")
    /\ direct' = direct \cup {e}

(* The ledger cannot be opened or written.                                     *)
RegisterFails(e) ==
    /\ stage[e] = "queued"
    /\ stage' = [stage EXCEPT ![e] = "done"]
    /\ UNCHANGED <<direct, ledger, task, slots, buried, heard, crashes, alerts, dropped>>

-----------------------------------------------------------------------------
(* Sending, at either host.                                                    *)

(* _schedule: a delivery that finds no slot has failed.                        *)
Schedule(h, e, c) ==
    /\ task[h][e][c] = "claimed"
    /\ IF Cardinality(slots[h]) < Slots
       THEN /\ slots' = [slots EXCEPT ![h] = @ \cup {<<e, c>>}]
            /\ task' = [task EXCEPT ![h][e][c] = "sending"]
       ELSE /\ task' = [task EXCEPT ![h][e][c] = "failed"]
            /\ UNCHANGED slots
    /\ UNCHANGED <<stage, direct, ledger, buried, heard, crashes, alerts, dropped>>

(* What a sender says, and whether the alert was shown.  A desktop command     *)
(* that times out counts as failed; an email whose answer was lost does not.   *)
MaySay(c) ==
    {<<"delivered", 1>>, <<"failed", 0>>}
    \cup (IF c = "email" THEN {<<"uncertain", 0>>, <<"uncertain", 1>>} ELSE {<<"failed", 1>>})

(* _deliver, up to the outcome.                                                *)
Send(h, e, c, said) ==
    /\ task[h][e][c] \in {"sending", "worker"}
    /\ task' = [task EXCEPT ![h][e][c] = said[1]]
    /\ alerts' = IF e \in dropped THEN alerts ELSE [alerts EXCEPT ![h][e][c] = @ + said[2]]
    /\ UNCHANGED <<stage, direct, ledger, slots, buried, heard, crashes, dropped>>

(* update_delivery, which writes whatever the row holds, or fails unnoticed.   *)
Record(h, e, c) ==
    /\ task[h][e][c] \in Outcome
    /\ \/ status' = [status EXCEPT ![h][e][c] = task[h][e][c]]
       \/ UNCHANGED status
    /\ task' = [task EXCEPT ![h][e][c] = "none"]
    /\ slots' = [slots EXCEPT ![h] = @ \ {<<e, c>>}]
    /\ UNCHANGED <<stage, direct, row, buried, heard, crashes, alerts, dropped>>

-----------------------------------------------------------------------------
(* The relay, at the local host.                                               *)

Poll_NoRow(p, e) ==    \* mutant: also what the ledger does not hold
    /\ heard[p] = None
    /\ heard' = [heard EXCEPT ![p] = [event |-> e, delivery |-> status["source"][e]]]
    /\ UNCHANGED <<stage, direct, ledger, task, slots, buried, crashes, alerts, dropped>>

(* Newer events, more of them than an answer has room for, have followed e.    *)
Bury(e) ==
    /\ e \in row["source"] \ buried
    /\ buried' = buried \cup {e}
    /\ UNCHANGED <<stage, direct, ledger, task, slots, heard, crashes, alerts, dropped>>

(* get_violations: the source's row as it is now, if it is among the newest.   *)
Poll(p, e) ==
    /\ heard[p] = None
    /\ e \in row["source"] \ buried
    /\ heard' = [heard EXCEPT ![p] = [event |-> e, delivery |-> status["source"][e]]]
    /\ UNCHANGED <<stage, direct, ledger, task, slots, buried, crashes, alerts, dropped>>

Open_Uncertain(now) == now \in {"none", "remote_pending", "uncertain"}    \* mutant: retry it

(* A channel is open until a local attempt or the source's outcome settles it. *)
Open(now) == now \in {"none", "remote_pending"}

Settle_PendingFailed(now, remote, wanted) ==    \* mutant: the source's attempt is not awaited
    IF ~Open(now) THEN now
    ELSE CASE remote = "delivered" -> "remote_delivered"
           [] remote = "uncertain" -> "remote_uncertain"
           [] OTHER -> IF wanted THEN "pending" ELSE "not_configured"

Settle_PendingFinal(now, remote, wanted) ==    \* mutant: a pending attempt is taken for a success
    IF ~Open(now) THEN now
    ELSE CASE remote \in {"delivered", "pending"} -> "remote_delivered"
           [] remote = "uncertain" -> "remote_uncertain"
           [] OTHER -> IF wanted THEN "pending" ELSE "not_configured"

(* register_remote_event, for one channel.                                     *)
Settle(now, remote, wanted) ==
    IF ~Open(now) THEN now
    ELSE CASE remote = "delivered" -> "remote_delivered"
           [] remote = "pending" -> "remote_pending"
           [] remote = "uncertain" -> "remote_uncertain"
           [] OTHER -> IF wanted THEN "pending" ELSE "not_configured"

(* relay_remote_event: one transaction claims the channels that are left to    *)
(* this host and selected in its preferences.                                  *)
Relay(p, on) ==
    LET e == heard[p].event
        now == status["local"][e]
        new == [c \in Channels |-> Settle(now[c], heard[p].delivery[c], c \in on)]
        claims == {c \in Channels : Open(now[c]) /\ new[c] = "pending"}
    IN  /\ heard[p] # None
        /\ heard' = [heard EXCEPT ![p] = None]
        /\ row' = [row EXCEPT !["local"] = @ \cup {e}]
        /\ status' = [status EXCEPT !["local"][e] = new]
        /\ task' = [task EXCEPT !["local"][e] =
                       [c \in Channels |-> IF c \in claims THEN "claimed" ELSE @[c]]]
        /\ UNCHANGED <<stage, direct, slots, buried, crashes, alerts, dropped>>

-----------------------------------------------------------------------------
(* _prune: newer events, here and of other daemons, have filled the ledger.    *)
Prune(h, e) ==
    /\ e \in row[h]
    /\ row' = [row EXCEPT ![h] = @ \ {e}]
    /\ status' = [status EXCEPT ![h][e] = [c \in Channels |-> "none"]]
    /\ dropped' = dropped \cup {e}
    /\ UNCHANGED <<stage, direct, task, slots, buried, heard, crashes, alerts>>

Idle(S, h) == [e \in Events |-> IF e \in S THEN [c \in Channels |-> "none"] ELSE task[h][e]]

(* The source's daemon, or the tray, ends and is started again.                *)
CrashSource ==
    /\ crashes < MaxCrashes
    /\ crashes' = crashes + 1
    /\ stage' = [e \in Events |-> IF stage[e] = "queued" THEN "done" ELSE stage[e]]
    /\ task' = [task EXCEPT !["source"] = Idle(Events \ direct, "source")]
    /\ slots' = [slots EXCEPT !["source"] = {}]
    /\ UNCHANGED <<direct, ledger, buried, heard, alerts, dropped>>

CrashTray ==
    /\ crashes < MaxCrashes
    /\ crashes' = crashes + 1
    /\ task' = [task EXCEPT !["local"] = Idle(Events, "local")]
    /\ slots' = [slots EXCEPT !["local"] = {}]
    /\ heard' = [p \in Pollers |-> None]
    /\ UNCHANGED <<stage, direct, ledger, buried, alerts, dropped>>

(* A detached worker cannot be started, or ends.                               *)
LoseWorker(e) ==
    /\ e \in direct
    /\ \E c \in Channels : task["source"][e][c] # "none"
    /\ task' = [task EXCEPT !["source"] = Idle({e}, "source")]
    /\ UNCHANGED <<stage, direct, ledger, slots, buried, heard, crashes, alerts, dropped>>

-----------------------------------------------------------------------------
Next ==
    \/ \E e \in Events : Log(e)
    \/ \E e \in Events, on \in SUBSET Channels : NotifyLocal(e, on)
    \/ \E e \in Events, on \in SUBSET Channels : PersistLocal(e, on)
    \/ \E e \in Events : RegisterFails(e)
    \/ \E h \in Hosts, e \in Events, c \in Channels : Schedule(h, e, c)
    \/ \E h \in Hosts, e \in Events, c \in Channels : \E said \in MaySay(c) : Send(h, e, c, said)
    \/ \E h \in Hosts, e \in Events, c \in Channels : Record(h, e, c)
    \/ \E e \in Events : Bury(e)
    \/ \E p \in Pollers, e \in Events : Poll(p, e)
    \/ \E p \in Pollers, on \in SUBSET Channels : Relay(p, on)
    \/ \E h \in Hosts, e \in Events : Prune(h, e)
    \/ CrashSource
    \/ CrashTray
    \/ \E e \in Events : LoseWorker(e)

Spec == Init /\ [][Next]_vars

(* The tray polls every event that an answer holds again and again, and        *)
(* applies what it hears.  No fairness for senders, who may hang or die.       *)
FairSpec ==
    /\ Spec
    /\ \A p \in Pollers, e \in Events : SF_vars(Poll(p, e))
    /\ \A p \in Pollers : WF_vars(\E on \in SUBSET Channels : Relay(p, on))

-----------------------------------------------------------------------------
TypeOK ==
    /\ stage \in [Events -> {"new", "queued", "done"}]
    /\ direct \in SUBSET Events /\ dropped \in SUBSET Events /\ buried \in SUBSET Events
    /\ row \in [Hosts -> SUBSET Events]
    /\ status \in [Hosts -> [Events -> [Channels -> Statuses \cup {"none"}]]]
    /\ task \in [Hosts -> [Events -> [Channels -> {"none", "claimed", "sending", "worker"} \cup Outcome]]]
    /\ slots \in [Hosts -> SUBSET (Events \X Channels)]
    /\ heard \in [Pollers -> [event : Events, delivery : [Channels -> Reported]] \cup {None}]
    /\ crashes \in Nat
    /\ alerts \in [Hosts -> [Events -> [Channels -> Nat]]]

(* While the ledgers keep its row, no host shows an alert twice on a channel,  *)
(* whatever crashes, several pollers and stale answers do; and the two hosts   *)
(* together send one email at most.                                            *)
ShownOnce(e) ==
    /\ \A h \in Hosts, c \in Channels : alerts[h][e][c] =< 1
    /\ alerts["source"][e]["email"] + alerts["local"][e]["email"] =< 1

AtMostOnce == \A e \in Events : ShownOnce(e)

TakenUp(e, c) == status["local"][e][c] \in Outcome \cup {"pending", "not_configured"}

(* What the source is known not to have sent is taken up by the local host,    *)
(* though it was first heard of while the source was still trying: claimed, or *)
(* deliberately not.  Not so an event that leaves the newest first: an answer  *)
(* holds a tenth of what the ledger keeps.                                     *)
FailureIsRelayed ==
    \A e \in Events, c \in Channels :
        (e \in row["source"] /\ status["source"][e][c] \in {"failed", "not_configured"})
            ~> (TakenUp(e, c) \/ e \in dropped \cup buried)

-----------------------------------------------------------------------------
(* Refinement: emails implement AlertOnce.                                     *)
Emails == Events \X {"email"}

ToSend == {"claimed", "sending", "worker"}

SourceMay(e, c) ==
    stage[e] # "done" \/ task["source"][e][c] \in ToSend \cup {"failed"}

LocalMay(e, c) ==
    /\ status["source"][e][c] \in {"failed", "not_configured"}
    /\ Open(status["local"][e][c]) \/ task["local"][e][c] \in ToSend

RightTo(a) ==
    IF a[1] \in dropped THEN "spent"
    ELSE IF SourceMay(a[1], a[2]) THEN "source"
    ELSE IF LocalMay(a[1], a[2]) THEN "local"
    ELSE "spent"

Shown(a) == alerts["source"][a[1]][a[2]] + alerts["local"][a[1]][a[2]]

Promise == INSTANCE AlertOnce WITH
    Alerts <- Emails,
    right <- [a \in Emails |-> RightTo(a)],
    shown <- [a \in Emails |-> Shown(a)]

(* The right to send an email lies with one host at a time.                    *)
OneHolder == Promise!Spec
=============================================================================

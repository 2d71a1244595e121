------------------------------ MODULE AlertOnce ------------------------------
(* What the notification ledgers of two hosts promise together, for a set of   *)
(* alerts: the right to show an alert lies with the host where the violation   *)
(* occurred, may pass once to the host that watches it, and is spent by the    *)
(* first use; or nobody uses it.                                               *)
EXTENDS Naturals

CONSTANT Alerts

VARIABLES
    right,   \* who may show each alert: "source", "local", or nobody: "spent"
    shown    \* how often each alert was shown

vars == <<right, shown>>

Init ==
    /\ right = [a \in Alerts |-> "source"]
    /\ shown = [a \in Alerts |-> 0]

Keep(a) == UNCHANGED <<right[a], shown[a]>>

Show(a) ==
    /\ right[a] # "spent" /\ right'[a] = "spent"
    /\ shown'[a] = shown[a] + 1

HandOver(a) ==
    /\ right[a] = "source" /\ right'[a] = "local"
    /\ UNCHANGED shown[a]

GiveUp(a) ==
    /\ right[a] # "spent" /\ right'[a] = "spent"
    /\ UNCHANGED shown[a]

(* One step may settle several alerts: a transaction, or a crash.              *)
Next ==
    /\ DOMAIN right' = Alerts /\ DOMAIN shown' = Alerts
    /\ \A a \in Alerts : Keep(a) \/ Show(a) \/ HandOver(a) \/ GiveUp(a)

Spec == Init /\ [][Next]_vars
=============================================================================

-------------------------- MODULE PermissionRules --------------------------
(* What the user's permission rules say of a tool (tools/policy.py,            *)
(* check_tool_allowed).  Of the rules whose matcher names the tool, in the     *)
(* order of the settings, the last that applies decides.  A rule is here what  *)
(* the decision sees of it: its mode, its action ("none" if it has none), and  *)
(* whether one of its patterns hits the call.  Rules that cannot decide are    *)
(* left out: no mode, or nothing of the call to compare with the patterns.     *)
EXTENDS Integers, Sequences, SequencesExt

Rule == [mode : {"allow", "deny"},
         action : {"none", "block", "warn", "log-only", "ask"},
         hit : BOOLEAN]

Undecided == [mode |-> "none", action |-> "block"]

(* An allow rule with an action is the old way to say: allow these, do that    *)
(* with the others.                                                            *)
FallsBack(r) == r.mode = "allow" /\ r.action \notin {"none", "block"}

Denial(r) == IF r.action = "none" THEN "block" ELSE r.action

Apply_FirstHit(decision, r) ==    \* mutant: the first hit stands
    IF decision.mode # "none" THEN decision
    ELSE IF r.hit THEN [mode |-> r.mode, action |-> Denial(r)] ELSE decision

Apply(decision, r) ==
    IF r.hit THEN [mode |-> r.mode, action |-> Denial(r)]
    ELSE IF FallsBack(r) /\ decision.mode # "allow"
         THEN [mode |-> "deny", action |-> r.action]
    ELSE decision

Decide(rules) ==
    LET after[k \in 0 .. Len(rules)] ==
            IF k = 0 THEN Undecided ELSE Apply(after[k - 1], rules[k])
    IN  after[Len(rules)]

(* Skills and MCP tools need a rule that allows them; the last rule that has   *)
(* an action says how they are denied without one.                             *)
DefaultDenial(rules) ==
    LET named == SelectSeq(rules, LAMBDA r : r.action # "none")
    IN  IF named = <<>> THEN "block" ELSE Last(named).action

(* "allow", "warn" and "log" let the tool run, "ask" leaves it to the user.    *)
Verdict(rules, restricted) ==
    LET d == Decide(rules)
    IN  CASE d.mode = "allow" -> "allow"
          [] d.mode = "none" /\ ~restricted -> "allow"
          [] d.mode = "none" /\ restricted ->
                 IF DefaultDenial(rules) = "ask" THEN "ask" ELSE "block"
          [] d.mode = "deny" /\ d.action = "log-only" -> "log"
          [] OTHER -> d.action

-----------------------------------------------------------------------------
(* What the settings promise, without the evaluation: the last rule that hits  *)
(* decides, an allow rule's fallback only where the latest hit before it is    *)
(* not an allow, and of a denial and a fallback the later one.                 *)
Hits(rules) == {k \in DOMAIN rules : rules[k].hit}
Latest(S) == CHOOSE k \in S : \A other \in S : other <= k

Fallbacks(rules) ==
    {k \in DOMAIN rules :
        /\ ~rules[k].hit /\ FallsBack(rules[k])
        /\ LET before == {j \in Hits(rules) : j < k}
           IN  before = {} \/ rules[Latest(before)].mode = "deny"}

Promised(rules) ==
    LET deciding == Hits(rules) \cup Fallbacks(rules)
    IN  IF deciding = {} THEN Undecided
        ELSE LET k == Latest(deciding)
             IN  [mode |-> IF rules[k].hit THEN rules[k].mode ELSE "deny",
                  action |-> Denial(rules[k])]
=============================================================================

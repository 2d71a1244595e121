--------------------------- MODULE DirectoryRules ---------------------------
(* May the agent read this file? (hook_processing.py, _check_directory_rules   *)
(* and check_directory_denied). A request is what the decision sees: does one  *)
(* of the section's exclusions name the file, which rules hit it, is a .ai-    *)
(* read-deny marker above it, the action of the section, and what of the check *)
(* failed.                                                                     *)
EXTENDS Integers, Sequences, SequencesExt

DirectoryRule == [mode : {"allow", "deny"}, hit : BOOLEAN]

(* An exclusion always allows, else the last rule that hits decides.  The      *)
(* older section, directory_exclusions, is an allow rule before the others,    *)
(* one of rules here.  Rules that cannot be evaluated say nothing.             *)
RuleSays(request) ==
    LET hitting == SelectSeq(request.rules, LAMBDA r : r.hit)
    IN  IF request.broken = "rules" THEN "none"
        ELSE IF request.excluded THEN "allow"
        ELSE IF hitting = <<>> THEN "none" ELSE Last(hitting).mode

Denied_MarkerWins(request) ==    \* mutant: no rule overrides a marker
    request.marker \/ RuleSays(request) = "deny"

(* A rule that allows the file overrides a marker.                             *)
Denied(request) ==
    IF request.marker THEN RuleSays(request) # "allow"
    ELSE RuleSays(request) = "deny"

(* "denied" may still be approved by the user, where the action asks.          *)
Access(request) ==
    CASE request.broken = "check" -> "denied"
      [] request.broken # "check" /\ ~Denied(request) -> "open"
      [] OTHER -> CASE request.broken = "rules" -> "denied"
                    [] request.broken = "no" /\ request.action = "warn" -> "warned"
                    [] request.broken = "no" /\ request.action = "log-only" -> "open"
                    [] OTHER -> "denied"
=============================================================================

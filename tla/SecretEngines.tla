---------------------------- MODULE SecretEngines ----------------------------
(* How the answers of several secret engines become one (scanners/strategies.py *)
(* and check_secrets in scanners/secret_scanning.py).  Each engine reports the  *)
(* places where it found a secret, or fails; filters may then excuse them.      *)
EXTENDS Integers, Sequences, FiniteSets, SequencesExt, FiniteSetsExt

CONSTANTS
    Engines,     \* the engines that settings name, in their order
    Places,      \* lines of the text
    Threshold,   \* engines that must agree, for "consensus"
    Filterings   \* what filters there may be: of each, the places that it excuses

ASSUME EnginesAssumption ==
    /\ Engines \in Seq(STRING)
    /\ Threshold \in Nat \ {0}
    /\ Filterings \subseteq SUBSET SUBSET Places

Strategies == {"first-match", "any-match", "consensus"}
Report == [found : SUBSET Places, error : BOOLEAN]

(* The engines that are installed and apply to the file are asked.  Others are *)
(* passed over, but the cloud's engine not without an error when it may not or *)
(* cannot run.                                                                 *)
Reports(asked) == [asked -> {r \in Report : r.error => r.found = {}}]

Passed(asked) == {Engines[k] : k \in DOMAIN Engines \ asked}

Inquiry(asked) ==
    [reports : Reports(asked),
     refused : IF "gitguardian" \in Passed(asked) THEN BOOLEAN ELSE {FALSE},
     filters : Filterings]

Inquiries == UNION {Inquiry(asked) : asked \in SUBSET DOMAIN Engines}

(* The engines are tried in order until one finds something.                   *)
Tried(reports) ==
    {k \in DOMAIN reports : \A j \in DOMAIN reports : j < k => reports[j].found = {}}

Votes(reports, place) == {k \in DOMAIN reports : place \in reports[k].found}

Agreed(reports) == {p \in Places : Cardinality(Votes(reports, p)) >= Threshold}

FoundBy(reports, engines) == UNION {reports[k].found : k \in engines}

Found(strategy, reports) ==
    CASE strategy = "first-match" -> FoundBy(reports, Tried(reports))
      [] strategy = "any-match" -> FoundBy(reports, DOMAIN reports)
      [] strategy = "consensus" -> Agreed(reports)

Ran(strategy, reports) ==
    IF strategy = "first-match" THEN Tried(reports) ELSE DOMAIN reports

Incomplete_NoneAnswered(strategy, inquiry) ==    \* mutant: one answer is enough
    \A k \in DOMAIN inquiry.reports : inquiry.reports[k].error

(* An engine that failed keeps the scan from being called complete, also when  *)
(* another one answered; so do settings that leave no engine.                  *)
Incomplete(strategy, inquiry) ==
    LET ran == Ran(strategy, inquiry.reports)
    IN  ran = {} \/ inquiry.refused \/ \E k \in ran : inquiry.reports[k].error

(* Allowlists, stopwords and the like, hashes, and secrets that are no longer  *)
(* alive: a filter has no say unless it excuses all that was found.            *)
Excused(strategy, inquiry) ==
    \E excuses \in inquiry.filters : Found(strategy, inquiry.reports) \subseteq excuses

Result(strategy, inquiry) ==
    IF Found(strategy, inquiry.reports) # {} /\ ~Excused(strategy, inquiry) THEN "found"
    ELSE IF Incomplete(strategy, inquiry) THEN "failed" ELSE "clean"
=============================================================================

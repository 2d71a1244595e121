--------------------------- MODULE ToolCallProofs ---------------------------
(* What holds of every call of a tool, for any pipeline, engines and rules.    *)
EXTENDS ToolCall, FiniteSetTheorems, WellFoundedInduction, TLAPS

(* Every value that is noted of a scanner is an outcome.                       *)
LEMMA OutcomesType ==
    ASSUME NEW s, NEW T, NEW o \in Outcomes(s, T)
    PROVE  o \in Outcome \ {"none", "skipped"}
BY DEF Outcomes, Outcome, Detected, Troubles

(* A secret that is found blocks; there is no other action.                    *)
LEMMA SecretResultsType ==
    ASSUME NEW o \in SecretResults
    PROVE  o \in {"blocked", "failed", "clean", "off", "ignored", "broke", "lost"}
<1>1. CASE input.stage = "engines"
  <2>1. Result(Strategy, input.inquiry) \in {"found", "failed", "clean"}
    BY DEF Result
  <2> QED  BY <1>1, <2>1 DEF SecretResults
<1>2. CASE input.stage # "engines"
  BY <1>2 DEF SecretResults
<1> QED  BY <1>1, <1>2

-----------------------------------------------------------------------------
(* The inductive invariant: where each stage stands, what it may rely on, and  *)
(* what a saved context was made from.                                         *)
PrePlaces == {"judge", "inspect", "shell", "open", "load", "scan"}
PostPlaces == {"output", "recall", "secret", "pii", "injection", "poison", "offensive"}

Phases ==
    /\ pc \in PrePlaces => pre = "none" /\ bypass = "none" /\ ctx = NoContext
    /\ pc \in {"tool"} \cup PostPlaces => pre = "allow"
    /\ pc \in PrePlaces \ {"scan"} => i = 1 /\ \A s \in Scanners : first[s] = "none"
    /\ pc # "done" => delivered = "nothing"
    /\ pc \in {"judge", "inspect", "shell"} => kind # "prompt"
    /\ pc = "shell" => kind = "run"
    /\ pc \in PrePlaces \cup {"tool", "output", "recall"} =>
           \A s \in Scanners : later[s] # "skipped"
    /\ pc # "done" => \A s \in Scanners : ~Stops(s, later[s])

Scanned ==
    /\ first["secret"] # "allowed" /\ \A s \in Scanners : first[s] # "skipped"
    /\ pc = "scan" =>
           /\ \A k \in 1 .. (i - 1) : first[Pipeline[k]] # "none"
           /\ onError = "block" => \A s \in FailClosed : first[s] # "failed"

Noted ==
    /\ pc \in PostPlaces \ {"output"} => later["password"] # "none"
    /\ pc \in {"pii", "injection", "poison", "offensive"} =>
           \/ later["secret"] \in Unreported
           \/ later["secret"] = "skipped" /\ ctx.saved /\ ctx.file
              /\ first["secret"] \in Unreported
    /\ pc \in {"injection", "poison", "offensive"} => later["pii"] # "none"
    /\ pc \in {"poison", "offensive"} => later["injection"] # "none"
    /\ pc = "offensive" => later["poison"] # "none"

OfAFile(c) ==
    /\ c.saved /\ c.file
    /\ first["secret"] \in Unreported
    /\ \A s \in {"injection", "poison"} : s \in c.claims => first[s] \in Unreported

Contexts ==
    /\ ctx = NoContext \/ ctx = RunContext \/ OfAFile(ctx)
    /\ \A s \in {"injection", "poison"} :
           later[s] = "skipped" => ctx.saved /\ (ctx.ignored \/ first[s] \in Unreported)

Reported == input.stage = "engines" => input.inquiry \in Inquiries

IInv ==
    /\ TypeOK /\ Phases /\ Scanned /\ Noted /\ Contexts /\ Reported
    /\ BlocksHold /\ NothingUnexamined /\ SecretsStayIn

-----------------------------------------------------------------------------
(* What the steps use of the pipeline and of a text.                           *)
LEMMA ListedType == Listed \subseteq Scanners
BY PipelineAssumption DEF Listed

LEMMA TextsType ==
    ASSUME NEW T \in Texts
    PROVE  T \subseteq Scanners /\ \A H \in Annotated(T) : H \subseteq T
BY ListedType DEF Texts, Annotated

(* At the end of the pipeline every scanner has been asked.                    *)
LEMMA AllAsked ==
    ASSUME TypeOK, Scanned, pc = "scan", i > Len(Pipeline)
    PROVE  \A s \in Listed : first[s] # "none"
<1> SUFFICES ASSUME NEW s \in Listed PROVE first[s] # "none"
  OBVIOUS
<1>1. PICK k \in DOMAIN Pipeline : s = Pipeline[k]
  BY DEF Listed
<1>2. k \in 1 .. (i - 1)
  BY PipelineAssumption, <1>1 DEF TypeOK
<1> QED  BY <1>1, <1>2 DEF Scanned

-----------------------------------------------------------------------------
(* Every step keeps the invariant.                                             *)

USE DEF request, content, scans, memory, answers, Stops, LetThrough

LEMMA ClassifyStep == ASSUME IInv, Classify PROVE IInv'
<1> USE PipelineAssumption, ListedType DEF IInv, Classify, PrePlaces, PostPlaces, Unreported, Troubles, Detected, Outcome, Kinds, Scanners, OfAFile, PassOn, AnswerPre, AnswerPost, Leave, Mark, NoInput, NoContext, RunContext
<1>1. TypeOK'
  BY OutcomesType, SecretResultsType, TextsType DEF TypeOK
<1>2. Phases'
  BY OutcomesType, SecretResultsType DEF Phases, TypeOK
<1>3. Scanned'
  BY OutcomesType, SecretResultsType DEF Scanned, Phases, TypeOK
<1>4. Noted'
  BY OutcomesType, SecretResultsType DEF Noted, Phases, Scanned, Contexts, TypeOK, BlocksHold
<1>5. Contexts'
  BY OutcomesType, SecretResultsType DEF Contexts, Phases, Scanned, TypeOK, BlocksHold
<1>6. Reported'
  BY OutcomesType, SecretResultsType DEF Reported
<1>7. BlocksHold'
  BY OutcomesType, SecretResultsType DEF BlocksHold, Phases, Scanned, TypeOK
<1>8. NothingUnexamined'
  BY OutcomesType, SecretResultsType DEF NothingUnexamined, EndedEarly, Phases, Scanned, Noted, TypeOK
<1>9. SecretsStayIn'
  BY OutcomesType, SecretResultsType DEF SecretsStayIn, Phases, Noted, Contexts, Scanned, Seen, TypeOK
<1> QED  BY <1>1, <1>2, <1>3, <1>4, <1>5, <1>6, <1>7, <1>8, <1>9

LEMMA JudgeStep == ASSUME IInv, Judge PROVE IInv'
<1> USE PipelineAssumption, ListedType DEF IInv, Judge, PrePlaces, PostPlaces, Unreported, Troubles, Detected, Outcome, Kinds, Scanners, OfAFile, PassOn, AnswerPre, AnswerPost, Leave, Mark, NoInput, NoContext, RunContext
<1>1. TypeOK'
  BY OutcomesType, SecretResultsType, TextsType DEF TypeOK
<1>2. Phases'
  BY OutcomesType, SecretResultsType DEF Phases, TypeOK
<1>3. Scanned'
  BY OutcomesType, SecretResultsType DEF Scanned, Phases, TypeOK
<1>4. Noted'
  BY OutcomesType, SecretResultsType DEF Noted, Phases, Scanned, Contexts, TypeOK, BlocksHold
<1>5. Contexts'
  BY OutcomesType, SecretResultsType DEF Contexts, Phases, Scanned, TypeOK, BlocksHold
<1>6. Reported'
  BY OutcomesType, SecretResultsType DEF Reported
<1>7. BlocksHold'
  BY OutcomesType, SecretResultsType DEF BlocksHold, Phases, Scanned, TypeOK
<1>8. NothingUnexamined'
  BY OutcomesType, SecretResultsType DEF NothingUnexamined, EndedEarly, Phases, Scanned, Noted, TypeOK
<1>9. SecretsStayIn'
  BY OutcomesType, SecretResultsType DEF SecretsStayIn, Phases, Noted, Contexts, Scanned, Seen, TypeOK
<1> QED  BY <1>1, <1>2, <1>3, <1>4, <1>5, <1>6, <1>7, <1>8, <1>9

LEMMA JudgeFailsStep == ASSUME IInv, JudgeFails PROVE IInv'
<1> USE PipelineAssumption, ListedType DEF IInv, JudgeFails, PrePlaces, PostPlaces, Unreported, Troubles, Detected, Outcome, Kinds, Scanners, OfAFile, PassOn, AnswerPre, AnswerPost, Leave, Mark, NoInput, NoContext, RunContext
<1>1. TypeOK'
  BY OutcomesType, SecretResultsType, TextsType DEF TypeOK
<1>2. Phases'
  BY OutcomesType, SecretResultsType DEF Phases, TypeOK
<1>3. Scanned'
  BY OutcomesType, SecretResultsType DEF Scanned, Phases, TypeOK
<1>4. Noted'
  BY OutcomesType, SecretResultsType DEF Noted, Phases, Scanned, Contexts, TypeOK, BlocksHold
<1>5. Contexts'
  BY OutcomesType, SecretResultsType DEF Contexts, Phases, Scanned, TypeOK, BlocksHold
<1>6. Reported'
  BY OutcomesType, SecretResultsType DEF Reported
<1>7. BlocksHold'
  BY OutcomesType, SecretResultsType DEF BlocksHold, Phases, Scanned, TypeOK
<1>8. NothingUnexamined'
  BY OutcomesType, SecretResultsType DEF NothingUnexamined, EndedEarly, Phases, Scanned, Noted, TypeOK
<1>9. SecretsStayIn'
  BY OutcomesType, SecretResultsType DEF SecretsStayIn, Phases, Noted, Contexts, Scanned, Seen, TypeOK
<1> QED  BY <1>1, <1>2, <1>3, <1>4, <1>5, <1>6, <1>7, <1>8, <1>9

LEMMA InspectStep == ASSUME IInv, Inspect PROVE IInv'
<1> USE PipelineAssumption, ListedType DEF IInv, Inspect, PrePlaces, PostPlaces, Unreported, Troubles, Detected, Outcome, Kinds, Scanners, OfAFile, PassOn, AnswerPre, AnswerPost, Leave, Mark, NoInput, NoContext, RunContext
<1>1. TypeOK'
  BY OutcomesType, SecretResultsType, TextsType DEF TypeOK
<1>2. Phases'
  BY OutcomesType, SecretResultsType DEF Phases, TypeOK
<1>3. Scanned'
  BY OutcomesType, SecretResultsType DEF Scanned, Phases, TypeOK
<1>4. Noted'
  BY OutcomesType, SecretResultsType DEF Noted, Phases, Scanned, Contexts, TypeOK, BlocksHold
<1>5. Contexts'
  BY OutcomesType, SecretResultsType DEF Contexts, Phases, Scanned, TypeOK, BlocksHold
<1>6. Reported'
  BY OutcomesType, SecretResultsType DEF Reported
<1>7. BlocksHold'
  BY OutcomesType, SecretResultsType DEF BlocksHold, Phases, Scanned, TypeOK
<1>8. NothingUnexamined'
  BY OutcomesType, SecretResultsType DEF NothingUnexamined, EndedEarly, Phases, Scanned, Noted, TypeOK
<1>9. SecretsStayIn'
  BY OutcomesType, SecretResultsType DEF SecretsStayIn, Phases, Noted, Contexts, Scanned, Seen, TypeOK
<1> QED  BY <1>1, <1>2, <1>3, <1>4, <1>5, <1>6, <1>7, <1>8, <1>9

LEMMA ShellStep == ASSUME IInv, Shell PROVE IInv'
<1> USE PipelineAssumption, ListedType DEF IInv, Shell, PrePlaces, PostPlaces, Unreported, Troubles, Detected, Outcome, Kinds, Scanners, OfAFile, PassOn, AnswerPre, AnswerPost, Leave, Mark, NoInput, NoContext, RunContext
<1>1. TypeOK'
  BY OutcomesType, SecretResultsType, TextsType DEF TypeOK
<1>2. Phases'
  BY OutcomesType, SecretResultsType DEF Phases, TypeOK
<1>3. Scanned'
  BY OutcomesType, SecretResultsType DEF Scanned, Phases, TypeOK
<1>4. Noted'
  BY OutcomesType, SecretResultsType DEF Noted, Phases, Scanned, Contexts, TypeOK, BlocksHold
<1>5. Contexts'
  BY OutcomesType, SecretResultsType DEF Contexts, Phases, Scanned, TypeOK, BlocksHold
<1>6. Reported'
  BY OutcomesType, SecretResultsType DEF Reported
<1>7. BlocksHold'
  BY OutcomesType, SecretResultsType DEF BlocksHold, Phases, Scanned, TypeOK
<1>8. NothingUnexamined'
  BY OutcomesType, SecretResultsType DEF NothingUnexamined, EndedEarly, Phases, Scanned, Noted, TypeOK
<1>9. SecretsStayIn'
  BY OutcomesType, SecretResultsType DEF SecretsStayIn, Phases, Noted, Contexts, Scanned, Seen, TypeOK
<1> QED  BY <1>1, <1>2, <1>3, <1>4, <1>5, <1>6, <1>7, <1>8, <1>9

LEMMA LocateStep == ASSUME IInv, Locate PROVE IInv'
<1> USE PipelineAssumption, ListedType DEF IInv, Locate, PrePlaces, PostPlaces, Unreported, Troubles, Detected, Outcome, Kinds, Scanners, OfAFile, PassOn, AnswerPre, AnswerPost, Leave, Mark, NoInput, NoContext, RunContext
<1>1. TypeOK'
  BY OutcomesType, SecretResultsType, TextsType DEF TypeOK
<1>2. Phases'
  BY OutcomesType, SecretResultsType DEF Phases, TypeOK
<1>3. Scanned'
  BY OutcomesType, SecretResultsType DEF Scanned, Phases, TypeOK
<1>4. Noted'
  BY OutcomesType, SecretResultsType DEF Noted, Phases, Scanned, Contexts, TypeOK, BlocksHold
<1>5. Contexts'
  BY OutcomesType, SecretResultsType DEF Contexts, Phases, Scanned, TypeOK, BlocksHold
<1>6. Reported'
  BY OutcomesType, SecretResultsType DEF Reported
<1>7. BlocksHold'
  BY OutcomesType, SecretResultsType DEF BlocksHold, Phases, Scanned, TypeOK
<1>8. NothingUnexamined'
  BY OutcomesType, SecretResultsType DEF NothingUnexamined, EndedEarly, Phases, Scanned, Noted, TypeOK
<1>9. SecretsStayIn'
  BY OutcomesType, SecretResultsType DEF SecretsStayIn, Phases, Noted, Contexts, Scanned, Seen, TypeOK
<1> QED  BY <1>1, <1>2, <1>3, <1>4, <1>5, <1>6, <1>7, <1>8, <1>9

LEMMA OpenStep == ASSUME IInv, Open PROVE IInv'
<1> USE PipelineAssumption, ListedType DEF IInv, Open, PrePlaces, PostPlaces, Unreported, Troubles, Detected, Outcome, Kinds, Scanners, OfAFile, PassOn, AnswerPre, AnswerPost, Leave, Mark, NoInput, NoContext, RunContext
<1>1. TypeOK'
  BY OutcomesType, SecretResultsType, TextsType DEF TypeOK
<1>2. Phases'
  BY OutcomesType, SecretResultsType DEF Phases, TypeOK
<1>3. Scanned'
  BY OutcomesType, SecretResultsType DEF Scanned, Phases, TypeOK
<1>4. Noted'
  BY OutcomesType, SecretResultsType DEF Noted, Phases, Scanned, Contexts, TypeOK, BlocksHold
<1>5. Contexts'
  BY OutcomesType, SecretResultsType DEF Contexts, Phases, Scanned, TypeOK, BlocksHold
<1>6. Reported'
  BY OutcomesType, SecretResultsType DEF Reported
<1>7. BlocksHold'
  BY OutcomesType, SecretResultsType DEF BlocksHold, Phases, Scanned, TypeOK
<1>8. NothingUnexamined'
  BY OutcomesType, SecretResultsType DEF NothingUnexamined, EndedEarly, Phases, Scanned, Noted, TypeOK
<1>9. SecretsStayIn'
  BY OutcomesType, SecretResultsType DEF SecretsStayIn, Phases, Noted, Contexts, Scanned, Seen, TypeOK
<1> QED  BY <1>1, <1>2, <1>3, <1>4, <1>5, <1>6, <1>7, <1>8, <1>9

LEMMA LoadStep == ASSUME IInv, Load PROVE IInv'
<1> USE PipelineAssumption, ListedType DEF IInv, Load, PrePlaces, PostPlaces, Unreported, Troubles, Detected, Outcome, Kinds, Scanners, OfAFile, PassOn, AnswerPre, AnswerPost, Leave, Mark, NoInput, NoContext, RunContext
<1>1. TypeOK'
  BY OutcomesType, SecretResultsType, TextsType DEF TypeOK
<1>2. Phases'
  BY OutcomesType, SecretResultsType DEF Phases, TypeOK
<1>3. Scanned'
  <2>1. i' = 1 /\ \A s \in Scanners : first'[s] = "none"
    BY DEF Phases
  <2>2. 1 .. (i' - 1) = {}
    BY <2>1
  <2> QED  BY <2>1, <2>2 DEF Scanned, FailClosed
<1>4. Noted'
  BY OutcomesType, SecretResultsType DEF Noted, Phases, Scanned, Contexts, TypeOK, BlocksHold
<1>5. Contexts'
  BY OutcomesType, SecretResultsType DEF Contexts, Phases, Scanned, TypeOK, BlocksHold
<1>6. Reported'
  BY OutcomesType, SecretResultsType DEF Reported
<1>7. BlocksHold'
  BY OutcomesType, SecretResultsType DEF BlocksHold, Phases, Scanned, TypeOK
<1>8. NothingUnexamined'
  BY OutcomesType, SecretResultsType DEF NothingUnexamined, EndedEarly, Phases, Scanned, Noted, TypeOK
<1>9. SecretsStayIn'
  BY OutcomesType, SecretResultsType DEF SecretsStayIn, Phases, Noted, Contexts, Scanned, Seen, TypeOK
<1> QED  BY <1>1, <1>2, <1>3, <1>4, <1>5, <1>6, <1>7, <1>8, <1>9

LEMMA LoadNothingStep == ASSUME IInv, LoadNothing PROVE IInv'
<1> USE PipelineAssumption, ListedType DEF IInv, LoadNothing, PrePlaces, PostPlaces, Unreported, Troubles, Detected, Outcome, Kinds, Scanners, OfAFile, PassOn, AnswerPre, AnswerPost, Leave, Mark, NoInput, NoContext, RunContext
<1>1. TypeOK'
  BY OutcomesType, SecretResultsType, TextsType DEF TypeOK
<1>2. Phases'
  BY OutcomesType, SecretResultsType DEF Phases, TypeOK
<1>3. Scanned'
  BY OutcomesType, SecretResultsType DEF Scanned, Phases, TypeOK
<1>4. Noted'
  BY OutcomesType, SecretResultsType DEF Noted, Phases, Scanned, Contexts, TypeOK, BlocksHold
<1>5. Contexts'
  BY OutcomesType, SecretResultsType DEF Contexts, Phases, Scanned, TypeOK, BlocksHold
<1>6. Reported'
  BY OutcomesType, SecretResultsType DEF Reported
<1>7. BlocksHold'
  BY OutcomesType, SecretResultsType DEF BlocksHold, Phases, Scanned, TypeOK
<1>8. NothingUnexamined'
  BY OutcomesType, SecretResultsType DEF NothingUnexamined, EndedEarly, Phases, Scanned, Noted, TypeOK
<1>9. SecretsStayIn'
  BY OutcomesType, SecretResultsType DEF SecretsStayIn, Phases, Noted, Contexts, Scanned, Seen, TypeOK
<1> QED  BY <1>1, <1>2, <1>3, <1>4, <1>5, <1>6, <1>7, <1>8, <1>9

LEMMA ScanStep == ASSUME IInv, Scan PROVE IInv'
<1> USE PipelineAssumption, ListedType DEF IInv, Scan, PrePlaces, PostPlaces, Unreported, Troubles, Detected, Outcome, Kinds, Scanners, OfAFile, PassOn, AnswerPre, AnswerPost, Leave, Mark, NoInput, NoContext, RunContext, FailClosed
<1>1. TypeOK'
  BY OutcomesType, SecretResultsType, TextsType DEF TypeOK
<1>2. Phases'
  BY OutcomesType, SecretResultsType DEF Phases, TypeOK
<1>3. Scanned'
  BY OutcomesType, SecretResultsType DEF Scanned, Phases, TypeOK
<1>4. Noted'
  BY OutcomesType, SecretResultsType DEF Noted, Phases, Scanned, Contexts, TypeOK, BlocksHold
<1>5. Contexts'
  BY OutcomesType, SecretResultsType DEF Contexts, Phases, Scanned, TypeOK, BlocksHold
<1>6. Reported'
  BY OutcomesType, SecretResultsType DEF Reported
<1>7. BlocksHold'
  BY OutcomesType, SecretResultsType DEF BlocksHold, Phases, Scanned, TypeOK
<1>8. NothingUnexamined'
  BY OutcomesType, SecretResultsType DEF NothingUnexamined, EndedEarly, Phases, Scanned, Noted, TypeOK
<1>9. SecretsStayIn'
  BY OutcomesType, SecretResultsType DEF SecretsStayIn, Phases, Noted, Contexts, Scanned, Seen, TypeOK
<1> QED  BY <1>1, <1>2, <1>3, <1>4, <1>5, <1>6, <1>7, <1>8, <1>9

LEMMA QueryEnginesStep == ASSUME IInv, QueryEngines PROVE IInv'
<1> USE PipelineAssumption, ListedType DEF IInv, QueryEngines, PrePlaces, PostPlaces, Unreported, Troubles, Detected, Outcome, Kinds, Scanners, OfAFile, PassOn, AnswerPre, AnswerPost, Leave, Mark, NoInput, NoContext, RunContext, AtSecrets
<1>1. TypeOK'
  BY OutcomesType, SecretResultsType, TextsType DEF TypeOK
<1>2. Phases'
  BY OutcomesType, SecretResultsType DEF Phases, TypeOK
<1>3. Scanned'
  BY OutcomesType, SecretResultsType DEF Scanned, Phases, TypeOK
<1>4. Noted'
  BY OutcomesType, SecretResultsType DEF Noted, Phases, Scanned, Contexts, TypeOK, BlocksHold
<1>5. Contexts'
  BY OutcomesType, SecretResultsType DEF Contexts, Phases, Scanned, TypeOK, BlocksHold
<1>6. Reported'
  BY OutcomesType, SecretResultsType DEF Reported
<1>7. BlocksHold'
  BY OutcomesType, SecretResultsType DEF BlocksHold, Phases, Scanned, TypeOK
<1>8. NothingUnexamined'
  BY OutcomesType, SecretResultsType DEF NothingUnexamined, EndedEarly, Phases, Scanned, Noted, TypeOK
<1>9. SecretsStayIn'
  BY OutcomesType, SecretResultsType DEF SecretsStayIn, Phases, Noted, Contexts, Scanned, Seen, TypeOK
<1> QED  BY <1>1, <1>2, <1>3, <1>4, <1>5, <1>6, <1>7, <1>8, <1>9

LEMMA ScanSecretsStep == ASSUME IInv, ScanSecrets PROVE IInv'
<1> USE PipelineAssumption, ListedType DEF IInv, ScanSecrets, PrePlaces, PostPlaces, Unreported, Troubles, Detected, Outcome, Kinds, Scanners, OfAFile, PassOn, AnswerPre, AnswerPost, Leave, Mark, NoInput, NoContext, RunContext, AtSecrets
<1>1. TypeOK'
  <2>1. first' \in [Scanners -> Outcome]
    BY SecretResultsType DEF TypeOK
  <2>2. pc = "scan" /\ i <= Len(Pipeline)
    BY DEF Phases
  <2> QED  BY <2>1, <2>2 DEF TypeOK
<1>2. Phases'
  BY OutcomesType, SecretResultsType DEF Phases, TypeOK
<1>3. Scanned'
  <2>1. pc = "scan" /\ i <= Len(Pipeline) /\ Pipeline[i] = "secret"
    BY DEF Phases
  <2>2. PICK o \in SecretResults : first' = [first EXCEPT !["secret"] = o]
    BY DEF ScanSecrets
  <2>3. \A k \in 1 .. (i' - 1) : first'[Pipeline[k]] # "none"
    <3> SUFFICES ASSUME NEW k \in 1 .. (i' - 1)
                 PROVE  first'[Pipeline[k]] # "none"
      OBVIOUS
    <3>1. k \in 1 .. i /\ k \in 1 .. Len(Pipeline) /\ Pipeline[k] \in Scanners
      BY <2>1 DEF TypeOK
    <3>2. k # i => first[Pipeline[k]] # "none"
      BY <2>1, <3>1 DEF Scanned, TypeOK
    <3> QED  BY <2>1, <2>2, <3>1, <3>2, SecretResultsType DEF TypeOK
  <2> QED  BY <2>1, <2>2, <2>3, SecretResultsType DEF Scanned, TypeOK, FailClosed
<1>4. Noted'
  BY OutcomesType, SecretResultsType DEF Noted, Phases, Scanned, Contexts, TypeOK, BlocksHold
<1>5. Contexts'
  BY OutcomesType, SecretResultsType DEF Contexts, Phases, Scanned, TypeOK, BlocksHold
<1>6. Reported'
  BY OutcomesType, SecretResultsType DEF Reported
<1>7. BlocksHold'
  BY OutcomesType, SecretResultsType DEF BlocksHold, Phases, Scanned, TypeOK
<1>8. NothingUnexamined'
  BY OutcomesType, SecretResultsType DEF NothingUnexamined, EndedEarly, Phases, Scanned, Noted, TypeOK
<1>9. SecretsStayIn'
  BY OutcomesType, SecretResultsType DEF SecretsStayIn, Phases, Noted, Contexts, Scanned, Seen, TypeOK
<1> QED  BY <1>1, <1>2, <1>3, <1>4, <1>5, <1>6, <1>7, <1>8, <1>9

LEMMA DecidePreStep == ASSUME IInv, DecidePre PROVE IInv'
<1> USE PipelineAssumption, ListedType DEF IInv, DecidePre, PrePlaces, PostPlaces, Unreported, Troubles, Detected, Outcome, Kinds, Scanners, OfAFile, PassOn, AnswerPre, AnswerPost, Leave, Mark, NoInput, NoContext, RunContext, ReadContext, Claims, Blocks, FailClosed
<1>1. TypeOK'
  BY OutcomesType, SecretResultsType, TextsType DEF TypeOK
<1>2. Phases'
  BY OutcomesType, SecretResultsType DEF Phases, TypeOK
<1>3. Scanned'
  BY OutcomesType, SecretResultsType DEF Scanned, Phases, TypeOK
<1>4. Noted'
  BY OutcomesType, SecretResultsType DEF Noted, Phases, Scanned, Contexts, TypeOK, BlocksHold
<1>5. Contexts'
  <2>1. CASE UNCHANGED ctx
    BY <2>1 DEF Contexts
  <2>2. CASE ctx' = NoContext
    BY <2>2 DEF Contexts, Phases
  <2>3. CASE ctx' = ReadContext /\ \A s \in Listed : ~Blocks(s)
    <3>1. \A s \in Listed : first[s] # "none" /\ first[s] # "blocked"
      BY <2>3, AllAsked
    <3>2. first["secret"] \in Unreported
      BY <3>1, PipelineAssumption DEF Scanned, TypeOK
    <3>3. \A s \in Claims : s \in {"injection", "poison"} => first[s] \in Unreported
      BY <3>1 DEF Scanned, TypeOK
    <3>4. OfAFile(ctx)'
      BY <2>3, <3>2, <3>3
    <3> QED  BY <3>4 DEF Contexts, Phases
  <2> QED  BY <2>1, <2>2, <2>3
<1>6. Reported'
  BY OutcomesType, SecretResultsType DEF Reported
<1>7. BlocksHold'
  BY OutcomesType, SecretResultsType DEF BlocksHold, Phases, Scanned, TypeOK
<1>8. NothingUnexamined'
  BY OutcomesType, SecretResultsType, AllAsked DEF NothingUnexamined, EndedEarly, Phases, Scanned, Noted, TypeOK
<1>9. SecretsStayIn'
  BY OutcomesType, SecretResultsType DEF SecretsStayIn, Phases, Noted, Contexts, Scanned, Seen, TypeOK
<1> QED  BY <1>1, <1>2, <1>3, <1>4, <1>5, <1>6, <1>7, <1>8, <1>9

LEMMA ToolStep == ASSUME IInv, Tool PROVE IInv'
<1> USE PipelineAssumption, ListedType DEF IInv, Tool, PrePlaces, PostPlaces, Unreported, Troubles, Detected, Outcome, Kinds, Scanners, OfAFile, PassOn, AnswerPre, AnswerPost, Leave, Mark, NoInput, NoContext, RunContext
<1>1. TypeOK'
  <2>1. CASE UNCHANGED content
    BY <2>1 DEF TypeOK
  <2>2. CASE \E T \in Texts : \E H \in Annotated(T) : text' = T /\ hidden' = H
    <3>1. text' \subseteq Scanners /\ hidden' \subseteq text'
      BY <2>2, TextsType
    <3> QED  BY <3>1 DEF TypeOK
  <2> QED  BY <2>1, <2>2
<1>2. Phases'
  BY OutcomesType, SecretResultsType DEF Phases, TypeOK
<1>3. Scanned'
  BY OutcomesType, SecretResultsType DEF Scanned, Phases, TypeOK
<1>4. Noted'
  BY OutcomesType, SecretResultsType DEF Noted, Phases, Scanned, Contexts, TypeOK, BlocksHold
<1>5. Contexts'
  BY OutcomesType, SecretResultsType DEF Contexts, Phases, Scanned, TypeOK, BlocksHold
<1>6. Reported'
  BY OutcomesType, SecretResultsType DEF Reported
<1>7. BlocksHold'
  BY OutcomesType, SecretResultsType DEF BlocksHold, Phases, Scanned, TypeOK
<1>8. NothingUnexamined'
  BY OutcomesType, SecretResultsType DEF NothingUnexamined, EndedEarly, Phases, Scanned, Noted, TypeOK
<1>9. SecretsStayIn'
  BY OutcomesType, SecretResultsType DEF SecretsStayIn, Phases, Noted, Contexts, Scanned, Seen, TypeOK
<1> QED  BY <1>1, <1>2, <1>3, <1>4, <1>5, <1>6, <1>7, <1>8, <1>9

LEMMA HookFailsStep == ASSUME IInv, HookFails PROVE IInv'
<1> USE PipelineAssumption, ListedType DEF IInv, HookFails, PrePlaces, PostPlaces, Unreported, Troubles, Detected, Outcome, Kinds, Scanners, OfAFile, PassOn, AnswerPre, AnswerPost, Leave, Mark, NoInput, NoContext, RunContext
<1>1. TypeOK'
  BY OutcomesType, SecretResultsType, TextsType DEF TypeOK
<1>2. Phases'
  BY OutcomesType, SecretResultsType DEF Phases, TypeOK
<1>3. Scanned'
  BY OutcomesType, SecretResultsType DEF Scanned, Phases, TypeOK
<1>4. Noted'
  BY OutcomesType, SecretResultsType DEF Noted, Phases, Scanned, Contexts, TypeOK, BlocksHold
<1>5. Contexts'
  BY OutcomesType, SecretResultsType DEF Contexts, Phases, Scanned, TypeOK, BlocksHold
<1>6. Reported'
  BY OutcomesType, SecretResultsType DEF Reported
<1>7. BlocksHold'
  BY OutcomesType, SecretResultsType DEF BlocksHold, Phases, Scanned, TypeOK
<1>8. NothingUnexamined'
  BY OutcomesType, SecretResultsType DEF NothingUnexamined, EndedEarly, Phases, Scanned, Noted, TypeOK
<1>9. SecretsStayIn'
  BY OutcomesType, SecretResultsType DEF SecretsStayIn, Phases, Noted, Contexts, Scanned, Seen, TypeOK
<1> QED  BY <1>1, <1>2, <1>3, <1>4, <1>5, <1>6, <1>7, <1>8, <1>9

LEMMA NoOutputStep == ASSUME IInv, NoOutput PROVE IInv'
<1> USE PipelineAssumption, ListedType DEF IInv, NoOutput, PrePlaces, PostPlaces, Unreported, Troubles, Detected, Outcome, Kinds, Scanners, OfAFile, PassOn, AnswerPre, AnswerPost, Leave, Mark, NoInput, NoContext, RunContext
<1>1. TypeOK'
  BY OutcomesType, SecretResultsType, TextsType DEF TypeOK
<1>2. Phases'
  BY OutcomesType, SecretResultsType DEF Phases, TypeOK
<1>3. Scanned'
  BY OutcomesType, SecretResultsType DEF Scanned, Phases, TypeOK
<1>4. Noted'
  BY OutcomesType, SecretResultsType DEF Noted, Phases, Scanned, Contexts, TypeOK, BlocksHold
<1>5. Contexts'
  BY OutcomesType, SecretResultsType DEF Contexts, Phases, Scanned, TypeOK, BlocksHold
<1>6. Reported'
  BY OutcomesType, SecretResultsType DEF Reported
<1>7. BlocksHold'
  BY OutcomesType, SecretResultsType DEF BlocksHold, Phases, Scanned, TypeOK
<1>8. NothingUnexamined'
  BY OutcomesType, SecretResultsType DEF NothingUnexamined, EndedEarly, Phases, Scanned, Noted, TypeOK
<1>9. SecretsStayIn'
  BY OutcomesType, SecretResultsType DEF SecretsStayIn, Phases, Noted, Contexts, Scanned, Seen, TypeOK
<1> QED  BY <1>1, <1>2, <1>3, <1>4, <1>5, <1>6, <1>7, <1>8, <1>9

LEMMA ScanPasswordsStep == ASSUME IInv, ScanPasswords PROVE IInv'
<1> USE PipelineAssumption, ListedType DEF IInv, ScanPasswords, PrePlaces, PostPlaces, Unreported, Troubles, Detected, Outcome, Kinds, Scanners, OfAFile, PassOn, AnswerPre, AnswerPost, Leave, Mark, NoInput, NoContext, RunContext
<1>1. TypeOK'
  <2>1. later' \in [Scanners -> Outcome]
    BY OutcomesType DEF TypeOK
  <2>2. UNCHANGED <<kind, onError, text, hidden, i, first, bypass, pre>>
    OBVIOUS
  <2>3. pc' \in PostPlaces \cup {"done"}
    OBVIOUS
  <2>4. post' \in {"none", "allow", "block"} /\ delivered' \in {"all", "redacted", "nothing"}
        /\ advanced' \in BOOLEAN
    BY DEF TypeOK
  <2> QED  BY <2>1, <2>2, <2>3, <2>4 DEF TypeOK
<1>2. Phases'
  BY OutcomesType, SecretResultsType DEF Phases, TypeOK
<1>3. Scanned'
  BY OutcomesType, SecretResultsType DEF Scanned, Phases, TypeOK
<1>4. Noted'
  BY OutcomesType, SecretResultsType DEF Noted, Phases, Scanned, Contexts, TypeOK, BlocksHold
<1>5. Contexts'
  BY OutcomesType, SecretResultsType DEF Contexts, Phases, Scanned, TypeOK, BlocksHold
<1>6. Reported'
  BY OutcomesType, SecretResultsType DEF Reported
<1>7. BlocksHold'
  BY OutcomesType, SecretResultsType DEF BlocksHold, Phases, Scanned, TypeOK
<1>8. NothingUnexamined'
  BY OutcomesType, SecretResultsType DEF NothingUnexamined, EndedEarly, Phases, Scanned, Noted, TypeOK
<1>9. SecretsStayIn'
  BY OutcomesType, SecretResultsType DEF SecretsStayIn, Phases, Noted, Contexts, Scanned, Seen, TypeOK
<1> QED  BY <1>1, <1>2, <1>3, <1>4, <1>5, <1>6, <1>7, <1>8, <1>9

LEMMA RecallStep == ASSUME IInv, Recall PROVE IInv'
<1> USE PipelineAssumption, ListedType DEF IInv, Recall, PrePlaces, PostPlaces, Unreported, Troubles, Detected, Outcome, Kinds, Scanners, OfAFile, PassOn, AnswerPre, AnswerPost, Leave, Mark, NoInput, NoContext, RunContext
<1>1. TypeOK'
  BY OutcomesType, SecretResultsType, TextsType DEF TypeOK
<1>2. Phases'
  BY OutcomesType, SecretResultsType DEF Phases, TypeOK
<1>3. Scanned'
  BY OutcomesType, SecretResultsType DEF Scanned, Phases, TypeOK
<1>4. Noted'
  BY OutcomesType, SecretResultsType DEF Noted, Phases, Scanned, Contexts, TypeOK, BlocksHold
<1>5. Contexts'
  BY OutcomesType, SecretResultsType DEF Contexts, Phases, Scanned, TypeOK, BlocksHold
<1>6. Reported'
  BY OutcomesType, SecretResultsType DEF Reported
<1>7. BlocksHold'
  BY OutcomesType, SecretResultsType DEF BlocksHold, Phases, Scanned, TypeOK
<1>8. NothingUnexamined'
  BY OutcomesType, SecretResultsType DEF NothingUnexamined, EndedEarly, Phases, Scanned, Noted, TypeOK
<1>9. SecretsStayIn'
  BY OutcomesType, SecretResultsType DEF SecretsStayIn, Phases, Noted, Contexts, Scanned, Seen, TypeOK
<1> QED  BY <1>1, <1>2, <1>3, <1>4, <1>5, <1>6, <1>7, <1>8, <1>9

LEMMA ScanSecretsAgainStep == ASSUME IInv, ScanSecretsAgain PROVE IInv'
<1> USE PipelineAssumption, ListedType DEF IInv, ScanSecretsAgain, PrePlaces, PostPlaces, Unreported, Troubles, Detected, Outcome, Kinds, Scanners, OfAFile, PassOn, AnswerPre, AnswerPost, Leave, Mark, NoInput, NoContext, RunContext, SkipSecrets, EndsSecrets
<1>1. TypeOK'
  <2>1. later' \in [Scanners -> Outcome]
    BY SecretResultsType DEF TypeOK
  <2>2. UNCHANGED <<kind, onError, text, hidden, i, first, bypass, pre>>
    OBVIOUS
  <2>3. pc' \in PostPlaces \cup {"done"}
    OBVIOUS
  <2>4. post' \in {"none", "allow", "block"} /\ delivered' \in {"all", "redacted", "nothing"}
        /\ advanced' \in BOOLEAN
    BY DEF TypeOK
  <2> QED  BY <2>1, <2>2, <2>3, <2>4 DEF TypeOK
<1>2. Phases'
  BY OutcomesType, SecretResultsType DEF Phases, TypeOK
<1>3. Scanned'
  BY OutcomesType, SecretResultsType DEF Scanned, Phases, TypeOK
<1>4. Noted'
  BY OutcomesType, SecretResultsType DEF Noted, Phases, Scanned, Contexts, TypeOK, BlocksHold
<1>5. Contexts'
  BY OutcomesType, SecretResultsType DEF Contexts, Phases, Scanned, TypeOK, BlocksHold
<1>6. Reported'
  BY OutcomesType, SecretResultsType DEF Reported
<1>7. BlocksHold'
  BY OutcomesType, SecretResultsType DEF BlocksHold, Phases, Scanned, TypeOK
<1>8. NothingUnexamined'
  BY OutcomesType, SecretResultsType DEF NothingUnexamined, EndedEarly, Phases, Scanned, Noted, TypeOK
<1>9. SecretsStayIn'
  BY OutcomesType, SecretResultsType DEF SecretsStayIn, Phases, Noted, Contexts, Scanned, Seen, TypeOK
<1> QED  BY <1>1, <1>2, <1>3, <1>4, <1>5, <1>6, <1>7, <1>8, <1>9

LEMMA SkipSecretScanStep == ASSUME IInv, SkipSecretScan PROVE IInv'
<1> USE PipelineAssumption, ListedType DEF IInv, SkipSecretScan, PrePlaces, PostPlaces, Unreported, Troubles, Detected, Outcome, Kinds, Scanners, OfAFile, PassOn, AnswerPre, AnswerPost, Leave, Mark, NoInput, NoContext, RunContext, SkipSecrets
<1>1. TypeOK'
  <2>1. later' \in [Scanners -> Outcome]
    BY OutcomesType DEF TypeOK
  <2>2. UNCHANGED <<kind, onError, text, hidden, i, first, bypass, pre>>
    OBVIOUS
  <2>3. pc' \in PostPlaces \cup {"done"}
    OBVIOUS
  <2>4. post' \in {"none", "allow", "block"} /\ delivered' \in {"all", "redacted", "nothing"}
        /\ advanced' \in BOOLEAN
    BY DEF TypeOK
  <2> QED  BY <2>1, <2>2, <2>3, <2>4 DEF TypeOK
<1>2. Phases'
  BY OutcomesType, SecretResultsType DEF Phases, TypeOK
<1>3. Scanned'
  BY OutcomesType, SecretResultsType DEF Scanned, Phases, TypeOK
<1>4. Noted'
  BY OutcomesType, SecretResultsType DEF Noted, Phases, Scanned, Contexts, TypeOK, BlocksHold
<1>5. Contexts'
  BY OutcomesType, SecretResultsType DEF Contexts, Phases, Scanned, TypeOK, BlocksHold
<1>6. Reported'
  BY OutcomesType, SecretResultsType DEF Reported
<1>7. BlocksHold'
  BY OutcomesType, SecretResultsType DEF BlocksHold, Phases, Scanned, TypeOK
<1>8. NothingUnexamined'
  BY OutcomesType, SecretResultsType DEF NothingUnexamined, EndedEarly, Phases, Scanned, Noted, TypeOK
<1>9. SecretsStayIn'
  BY OutcomesType, SecretResultsType DEF SecretsStayIn, Phases, Noted, Contexts, Scanned, Seen, TypeOK
<1> QED  BY <1>1, <1>2, <1>3, <1>4, <1>5, <1>6, <1>7, <1>8, <1>9

LEMMA ScanPiiStep == ASSUME IInv, ScanPii PROVE IInv'
<1> USE PipelineAssumption, ListedType DEF IInv, ScanPii, PrePlaces, PostPlaces, Unreported, Troubles, Detected, Outcome, Kinds, Scanners, OfAFile, PassOn, AnswerPre, AnswerPost, Leave, Mark, NoInput, NoContext, RunContext, EndPii
<1>1. TypeOK'
  <2>1. later' \in [Scanners -> Outcome]
    BY OutcomesType DEF TypeOK
  <2>2. UNCHANGED <<kind, onError, text, hidden, i, first, bypass, pre>>
    OBVIOUS
  <2>3. pc' \in PostPlaces \cup {"done"}
    OBVIOUS
  <2>4. post' \in {"none", "allow", "block"} /\ delivered' \in {"all", "redacted", "nothing"}
        /\ advanced' \in BOOLEAN
    BY DEF TypeOK
  <2> QED  BY <2>1, <2>2, <2>3, <2>4 DEF TypeOK
<1>2. Phases'
  BY OutcomesType, SecretResultsType DEF Phases, TypeOK
<1>3. Scanned'
  BY OutcomesType, SecretResultsType DEF Scanned, Phases, TypeOK
<1>4. Noted'
  BY OutcomesType, SecretResultsType DEF Noted, Phases, Scanned, Contexts, TypeOK, BlocksHold
<1>5. Contexts'
  BY OutcomesType, SecretResultsType DEF Contexts, Phases, Scanned, TypeOK, BlocksHold
<1>6. Reported'
  BY OutcomesType, SecretResultsType DEF Reported
<1>7. BlocksHold'
  BY OutcomesType, SecretResultsType DEF BlocksHold, Phases, Scanned, TypeOK
<1>8. NothingUnexamined'
  BY OutcomesType, SecretResultsType DEF NothingUnexamined, EndedEarly, Phases, Scanned, Noted, TypeOK
<1>9. SecretsStayIn'
  BY OutcomesType, SecretResultsType DEF SecretsStayIn, Phases, Noted, Contexts, Scanned, Seen, TypeOK
<1> QED  BY <1>1, <1>2, <1>3, <1>4, <1>5, <1>6, <1>7, <1>8, <1>9

LEMMA ScanOffensiveStep == ASSUME IInv, ScanOffensive PROVE IInv'
<1> USE PipelineAssumption, ListedType DEF IInv, ScanOffensive, PrePlaces, PostPlaces, Unreported, Troubles, Detected, Outcome, Kinds, Scanners, OfAFile, PassOn, AnswerPre, AnswerPost, Leave, Mark, NoInput, NoContext, RunContext
<1>1. TypeOK'
  <2>1. later' \in [Scanners -> Outcome]
    BY OutcomesType DEF TypeOK
  <2> QED  BY <2>1 DEF TypeOK
<1>2. Phases'
  BY OutcomesType, SecretResultsType DEF Phases, TypeOK
<1>3. Scanned'
  BY OutcomesType, SecretResultsType DEF Scanned, Phases, TypeOK
<1>4. Noted'
  BY OutcomesType, SecretResultsType DEF Noted, Phases, Scanned, Contexts, TypeOK, BlocksHold
<1>5. Contexts'
  BY OutcomesType, SecretResultsType DEF Contexts, Phases, Scanned, TypeOK, BlocksHold
<1>6. Reported'
  BY OutcomesType, SecretResultsType DEF Reported
<1>7. BlocksHold'
  BY OutcomesType, SecretResultsType DEF BlocksHold, Phases, Scanned, TypeOK
<1>8. NothingUnexamined'
  BY OutcomesType, SecretResultsType DEF NothingUnexamined, EndedEarly, Phases, Scanned, Noted, TypeOK
<1>9. SecretsStayIn'
  BY OutcomesType, SecretResultsType DEF SecretsStayIn, Phases, Noted, Contexts, Scanned, Seen, TypeOK
<1> QED  BY <1>1, <1>2, <1>3, <1>4, <1>5, <1>6, <1>7, <1>8, <1>9

LEMMA ScanSteeringStep ==
    ASSUME IInv, NEW s \in {"injection", "poison"}, NEW next,
           (s = "injection" /\ next = "poison") \/ (s = "poison" /\ next = "offensive"),
           ScanSteering(s, next)
    PROVE  IInv'
<1> USE PipelineAssumption, ListedType DEF IInv, ScanSteering, PrePlaces, PostPlaces, Unreported, Troubles, Detected, Outcome, Kinds, Scanners, OfAFile, PassOn, AnswerPre, AnswerPost, Leave, Mark, NoInput, NoContext, RunContext, FailClosed
<1>1. TypeOK'
  <2>1. later' \in [Scanners -> Outcome]
    BY OutcomesType DEF TypeOK
  <2>2. UNCHANGED <<kind, onError, text, hidden, i, first, bypass, pre>>
    OBVIOUS
  <2>3. pc' \in PostPlaces \cup {"done"}
    OBVIOUS
  <2>4. post' \in {"none", "allow", "block"} /\ delivered' \in {"all", "redacted", "nothing"}
        /\ advanced' \in BOOLEAN
    BY DEF TypeOK
  <2> QED  BY <2>1, <2>2, <2>3, <2>4 DEF TypeOK
<1>2. Phases'
  BY OutcomesType, SecretResultsType DEF Phases, TypeOK
<1>3. Scanned'
  BY OutcomesType, SecretResultsType DEF Scanned, Phases, TypeOK
<1>4. Noted'
  BY OutcomesType, SecretResultsType DEF Noted, Phases, Scanned, Contexts, TypeOK, BlocksHold
<1>5. Contexts'
  BY OutcomesType, SecretResultsType DEF Contexts, Phases, Scanned, TypeOK, BlocksHold
<1>6. Reported'
  BY OutcomesType, SecretResultsType DEF Reported
<1>7. BlocksHold'
  BY OutcomesType, SecretResultsType DEF BlocksHold, Phases, Scanned, TypeOK
<1>8. NothingUnexamined'
  BY OutcomesType, SecretResultsType DEF NothingUnexamined, EndedEarly, Phases, Scanned, Noted, TypeOK
<1>9. SecretsStayIn'
  BY OutcomesType, SecretResultsType DEF SecretsStayIn, Phases, Noted, Contexts, Scanned, Seen, TypeOK
<1> QED  BY <1>1, <1>2, <1>3, <1>4, <1>5, <1>6, <1>7, <1>8, <1>9

(* A step that changes nothing.                                                *)
LEMMA StutterStep == ASSUME IInv, UNCHANGED vars PROVE IInv'
<1> USE DEF IInv, vars
<1>1. TypeOK' /\ Phases' /\ Scanned' /\ Noted' /\ Reported'
  BY DEF TypeOK, Phases, Scanned, Noted, Reported
<1>2. Contexts'
  BY DEF Contexts, OfAFile
<1>3. BlocksHold' /\ NothingUnexamined' /\ SecretsStayIn'
  BY DEF BlocksHold, NothingUnexamined, EndedEarly, SecretsStayIn, Seen, Shown
<1> QED  BY <1>1, <1>2, <1>3

LEMMA InitHolds == Init => IInv
<1> SUFFICES ASSUME Init PROVE IInv
  OBVIOUS
<1> USE ListedType DEF Init, NoInput, NoContext
<1>1. TypeOK
  <2>1. i \in 1 .. Len(Pipeline) + 1
    BY PipelineAssumption
  <2>2. first \in [Scanners -> Outcome] /\ later \in [Scanners -> Outcome]
    BY DEF Outcome
  <2> QED  BY <2>1, <2>2 DEF TypeOK, Kinds
<1>2. Phases /\ Scanned /\ Noted /\ Contexts /\ Reported
  BY PipelineAssumption
  DEF Phases, Scanned, Noted, Contexts, Reported, PrePlaces, PostPlaces, Kinds, Scanners,
      FailClosed
<1>3. BlocksHold /\ NothingUnexamined /\ SecretsStayIn
  BY DEF BlocksHold, NothingUnexamined, SecretsStayIn, Scanners
<1> QED  BY <1>1, <1>2, <1>3 DEF IInv

LEMMA StepHolds == IInv /\ [Next]_vars => IInv'
<1> SUFFICES ASSUME IInv, [Next]_vars PROVE IInv'
  OBVIOUS
<1>1. ASSUME Pre PROVE IInv'
  BY <1>1, ClassifyStep, JudgeStep, JudgeFailsStep, InspectStep, ShellStep, LocateStep,
     OpenStep, LoadStep, LoadNothingStep, ScanStep, ScanSecretsStep, DecidePreStep DEF Pre
<1>2. ASSUME Post PROVE IInv'
  BY <1>2, NoOutputStep, ScanPasswordsStep, RecallStep, ScanSecretsAgainStep,
     SkipSecretScanStep, ScanPiiStep, ScanSteeringStep, ScanOffensiveStep DEF Post
<1>3. CASE QueryEngines \/ Tool \/ HookFails
  BY <1>3, QueryEnginesStep, ToolStep, HookFailsStep
<1>4. CASE Done \/ UNCHANGED vars
  BY <1>4, StutterStep DEF Done
<1> QED  BY <1>1, <1>2, <1>3, <1>4 DEF Next

LEMMA Invariant == Spec => []IInv
BY InitHolds, StepHolds, PTL DEF Spec

-----------------------------------------------------------------------------
(* Every variable keeps its type (hook_processing.py, post_tool_use.py).       *)
THEOREM TypeCorrect == Spec => []TypeOK
<1>1. IInv => TypeOK
  BY DEF IInv
<1> QED  BY Invariant, <1>1, PTL

(* For any pipeline: no block of either hook is lost behind later scanners and *)
(* approvals; and where on_scan_error = "block", of the scans that fail only   *)
(* those of LetThrough, which the setting's words do not except, let a call or *)
(* its output pass (run_content_pipeline, handle_post_tool_use).               *)
THEOREM BlocksAreKept == Spec => []BlocksHold
<1>1. IInv => BlocksHold
  BY DEF IInv
<1> QED  BY Invariant, <1>1, PTL

(* For any pipeline: what runs, and what the agent gets whole, every scanner   *)
(* has looked at, but for the exceptions the property names                    *)
(* (run_content_pipeline, handle_post_tool_use).                               *)
THEOREM EverythingExamined == Spec => []NothingUnexamined
<1>1. IInv => NothingUnexamined
  BY DEF IInv
<1> QED  BY Invariant, <1>1, PTL

(* For any pipeline and engines: the context PreToolUse saves never makes      *)
(* PostToolUse pass on what PreToolUse had reported (hook_context.py,          *)
(* handle_post_tool_use).                                                      *)
THEOREM ReportedSecretsStayIn == Spec => []SecretsStayIn
<1>1. IInv => SecretsStayIn
  BY DEF IInv
<1> QED  BY Invariant, <1>1, PTL

-----------------------------------------------------------------------------
(* The engines, in any number and with any threshold.                          *)

(* A set of numbers has a least one: the first engine that finds something,    *)
(* and the first place at which something would go wrong.                      *)
LEMMA Least ==
    ASSUME NEW S \in SUBSET Nat, S # {}
    PROVE  \E m \in S : \A n \in S : m <= n
<1>1. PICK m \in S : \A n \in S : ~(<<n, m>> \in OpToRel(<, Nat))
  BY NatLessThanWellFounded, WFMin
<1>2. \A n \in S : ~(n < m)
  BY <1>1 DEF OpToRel
<1> QED  BY <1>2

(* The engines that are asked are some of those in the settings.               *)
LEMMA AskedEngines ==
    ASSUME NEW inquiry \in Inquiries
    PROVE  DOMAIN inquiry.reports \subseteq Nat
<1>1. PICK asked \in SUBSET DOMAIN Engines : inquiry \in Inquiry(asked)
  BY DEF Inquiries
<1>2. DOMAIN inquiry.reports = asked
  BY <1>1 DEF Inquiry, Reports
<1> QED  BY <1>2, EnginesAssumption

(* When some engine finds something, so does one that is tried.                *)
LEMMA FirstFinder ==
    ASSUME NEW reports, DOMAIN reports \subseteq Nat,
           NEW k \in DOMAIN reports, reports[k].found # {}
    PROVE  \E j \in Tried(reports) : reports[j].found # {}
<1> DEFINE finders == {j \in DOMAIN reports : reports[j].found # {}}
<1>1. finders \subseteq Nat /\ k \in finders
  OBVIOUS
<1>2. PICK j \in finders : \A l \in finders : j <= l
  BY <1>1, Least
<1>3. \A l \in finders : ~(l < j)
  BY <1>1, <1>2
<1>4. j \in Tried(reports)
  BY <1>3 DEF Tried
<1> QED  BY <1>4

(* What is agreed on was found by an engine, since the threshold is positive.  *)
LEMMA AgreedIsFound ==
    ASSUME NEW reports
    PROVE  Agreed(reports) \subseteq FoundBy(reports, DOMAIN reports)
<1> SUFFICES ASSUME NEW p \in Agreed(reports)
             PROVE  p \in FoundBy(reports, DOMAIN reports)
  OBVIOUS
<1>1. Cardinality(Votes(reports, p)) >= Threshold
  BY DEF Agreed
<1>2. Cardinality({}) = 0
  BY FS_EmptySet
<1>3. Votes(reports, p) # {}
  <2>1. ~(0 >= Threshold)
    BY EnginesAssumption
  <2> QED  BY <1>1, <1>2, <2>1
<1>4. PICK k \in DOMAIN reports : p \in reports[k].found
  BY <1>3 DEF Votes
<1> QED  BY <1>4 DEF FoundBy

(* Of a scan that counts as clean, an engine has been asked and has answered,  *)
(* or another one was first whose findings were all excused.                   *)
LEMMA CleanMeansAll ==
    ASSUME NEW inquiry \in Inquiries, NEW strategy \in Strategies,
           Result(strategy, inquiry) = "clean"
    PROVE  LET reports == inquiry.reports IN
           /\ DOMAIN reports # {} /\ ~inquiry.refused
           /\ \A k \in DOMAIN reports :
                  \/ k \in Ran(strategy, reports) /\ ~reports[k].error
                  \/ /\ strategy = "first-match" /\ Excused(strategy, inquiry)
                     /\ \E j \in DOMAIN reports : j < k /\ reports[j].found # {}
<1> DEFINE reports == inquiry.reports
           found == Found(strategy, reports)
<1>1. (found = {} \/ Excused(strategy, inquiry)) /\ ~Incomplete(strategy, inquiry)
  BY DEF Result
<1>2. /\ Ran(strategy, reports) # {} /\ ~inquiry.refused
      /\ \A k \in Ran(strategy, reports) : ~reports[k].error
  BY <1>1 DEF Incomplete
<1>3. Ran(strategy, reports) \subseteq DOMAIN reports
  BY DEF Ran, Tried
<1>4. ASSUME NEW k \in DOMAIN reports, k \notin Ran(strategy, reports)
      PROVE  /\ strategy = "first-match" /\ Excused(strategy, inquiry)
             /\ \E j \in DOMAIN reports : j < k /\ reports[j].found # {}
  <2>1. strategy = "first-match" /\ k \notin Tried(reports)
    BY <1>4 DEF Ran
  <2>2. PICK j \in DOMAIN reports : j < k /\ reports[j].found # {}
    BY <2>1 DEF Tried
  <2>3. \E l \in Tried(reports) : reports[l].found # {}
    BY <2>2, AskedEngines, FirstFinder
  <2>4. found # {}
    BY <2>1, <2>3 DEF Found, FoundBy
  <2> QED  BY <1>1, <2>1, <2>2, <2>4
<1> QED  BY <1>2, <1>3, <1>4

(* For any engines, threshold, filters and strategy: first-match and any-match *)
(* agree whether engines find something, consensus finds no more, and "clean"  *)
(* means that the engines that can run have answered, but for those behind a   *)
(* first finding that was excused (scanners/strategies.py; check_secrets).     *)
THEOREM EnginesAlwaysAgree == Spec => []EnginesAgree
<1>1. Reported => EnginesAgree
  <2> SUFFICES ASSUME input.stage = "engines", input.inquiry \in Inquiries
               PROVE  EnginesAgree
    BY DEF Reported, EnginesAgree
  <2> DEFINE reports == input.inquiry.reports
  <2>1. Found("first-match", reports) = FoundBy(reports, Tried(reports))
        /\ Found("any-match", reports) = FoundBy(reports, DOMAIN reports)
        /\ Found("consensus", reports) = Agreed(reports)
    BY DEF Found
  <2>2. FoundBy(reports, Tried(reports)) = {} <=> FoundBy(reports, DOMAIN reports) = {}
    BY AskedEngines, FirstFinder DEF FoundBy, Tried
  <2>3. Agreed(reports) \subseteq FoundBy(reports, DOMAIN reports)
    BY AgreedIsFound
  <2> QED  BY <2>1, <2>2, <2>3, CleanMeansAll DEF EnginesAgree
<1>2. IInv => Reported
  BY DEF IInv
<1> QED  BY Invariant, <1>1, <1>2, PTL

-----------------------------------------------------------------------------
(* The permission rules, in lists of any length.                               *)

(* What the rules before k leave of a decision, by its definition.             *)
IsEvaluation(f, rules, n) ==
    f = [k \in 0 .. n |-> IF k = 0 THEN Undecided ELSE Apply(f[k - 1], rules[k])]

(* Every list can be evaluated: the first place up to which there is no        *)
(* evaluation would have one before it, and that can be continued.             *)
LEMMA EvaluationExists ==
    ASSUME NEW rules, NEW n \in Nat
    PROVE  \E f : IsEvaluation(f, rules, n)
<1> DEFINE bad == {m \in Nat : ~\E f : IsEvaluation(f, rules, m)}
<1> SUFFICES ASSUME bad # {} PROVE FALSE
  OBVIOUS
<1>1. PICK m \in bad : \A l \in bad : m <= l
  BY Least
<1>2. CASE m = 0
  <2> DEFINE f == [k \in 0 .. 0 |-> Undecided]
  <2>1. f = [k \in 0 .. 0 |-> IF k = 0 THEN Undecided ELSE Apply(f[k - 1], rules[k])]
    OBVIOUS
  <2> QED  BY <1>1, <1>2, <2>1 DEF IsEvaluation
<1>3. CASE m # 0
  <2>1. m - 1 \in Nat /\ m \in Nat /\ ~(m <= m - 1)
    BY <1>1, <1>3
  <2>2. PICK g : IsEvaluation(g, rules, m - 1)
    BY <1>1, <2>1
  <2>3. \A k \in 0 .. (m - 1) :
            g[k] = IF k = 0 THEN Undecided ELSE Apply(g[k - 1], rules[k])
    BY <2>2 DEF IsEvaluation
  <2> DEFINE f == [k \in 0 .. m |-> IF k = m THEN Apply(g[m - 1], rules[m]) ELSE g[k]]
  <2>4. \A k \in 0 .. m :
            f[k] = IF k = 0 THEN Undecided ELSE Apply(f[k - 1], rules[k])
    <3> TAKE k \in 0 .. m
    <3>1. CASE k = m
      <4>1. f[m - 1] = g[m - 1]
        BY <2>1
      <4> QED  BY <1>3, <3>1, <4>1
    <3>2. CASE k = 0
      BY <1>3, <2>1, <2>3, <3>2
    <3>3. CASE k # m /\ k # 0
      <4>1. k \in 0 .. (m - 1) /\ k - 1 \in 0 .. m /\ k - 1 # m
        BY <2>1, <3>3
      <4>2. f[k] = g[k] /\ f[k - 1] = g[k - 1]
        BY <3>3, <4>1
      <4> QED  BY <2>3, <3>3, <4>1, <4>2
    <3> QED  BY <3>1, <3>2, <3>3
  <2>5. f = [k \in 0 .. m |-> f[k]]
    OBVIOUS
  <2> HIDE DEF f
  <2>6. IsEvaluation(f, rules, m)
    BY <2>4, <2>5 DEF IsEvaluation
  <2> QED  BY <1>1, <2>6
<1> QED  BY <1>2, <1>3

LEMMA RulesAreApplied ==
    ASSUME NEW rules \in Seq(Rule)
    PROVE  \E f : /\ f[0] = Undecided
                  /\ \A k \in 1 .. Len(rules) : f[k] = Apply(f[k - 1], rules[k])
                  /\ Decide(rules) = f[Len(rules)]
<1>1. Len(rules) \in Nat
  OBVIOUS
<1> DEFINE f == CHOOSE g : g = [k \in 0 .. Len(rules) |->
                                  IF k = 0 THEN Undecided ELSE Apply(g[k - 1], rules[k])]
<1>2. Decide(rules) = f[Len(rules)]
  BY DEF Decide
<1>3. f = [k \in 0 .. Len(rules) |-> IF k = 0 THEN Undecided ELSE Apply(f[k - 1], rules[k])]
  <2>1. \E g : g = [k \in 0 .. Len(rules) |->
                      IF k = 0 THEN Undecided ELSE Apply(g[k - 1], rules[k])]
    BY <1>1, EvaluationExists DEF IsEvaluation
  <2> QED  BY <2>1
<1> HIDE DEF f
<1>4. \A k \in 0 .. Len(rules) :
          f[k] = IF k = 0 THEN Undecided ELSE Apply(f[k - 1], rules[k])
  BY <1>3
<1>5. f[0] = Undecided /\ \A k \in 1 .. Len(rules) : f[k] = Apply(f[k - 1], rules[k])
  BY <1>1, <1>4
<1> QED  BY <1>2, <1>5

(* The decision d that the first k rules have led to, in words of what the     *)
(* settings promise: the latest rule of those that decide is the one whose     *)
(* mode and action it has, and it is to allow when the latest hit does.        *)
IsLatest(l, S) == l \in S /\ \A other \in S : other <= l

HitsTo(rules, k) == {j \in Hits(rules) : j <= k}
DecidersTo(rules, k) == {j \in Hits(rules) \cup Fallbacks(rules) : j <= k}

DecidedBy(r) == [mode |-> IF r.hit THEN r.mode ELSE "deny", action |-> Denial(r)]

AllowedByHit(d, rules, k) ==
    \/ HitsTo(rules, k) = {} /\ d.mode # "allow"
    \/ \E l : /\ IsLatest(l, HitsTo(rules, k))
              /\ d.mode = "allow" <=> rules[l].mode = "allow"

AsPromised(d, rules, k) ==
    \/ DecidersTo(rules, k) = {} /\ d = Undecided
    \/ \E l : IsLatest(l, DecidersTo(rules, k)) /\ d = DecidedBy(rules[l])

LEMMA LatestIs ==
    ASSUME NEW S \in SUBSET Nat, NEW l, IsLatest(l, S)
    PROVE  Latest(S) = l
<1>1. \A k \in S : (\A other \in S : other <= k) => k = l
  BY DEF IsLatest
<1> QED  BY <1>1 DEF Latest, IsLatest

(* One rule more.                                                              *)
LEMMA OneRuleMore ==
    ASSUME NEW rules \in Seq(Rule), NEW k \in 1 .. Len(rules), NEW d,
           AllowedByHit(d, rules, k - 1), AsPromised(d, rules, k - 1)
    PROVE  /\ AllowedByHit(Apply(d, rules[k]), rules, k)
           /\ AsPromised(Apply(d, rules[k]), rules, k)
<1> DEFINE r == rules[k]
           after == Apply(d, r)
<1>1. DOMAIN rules = 1 .. Len(rules) /\ Len(rules) \in Nat /\ k \in Nat /\ r \in Rule
  OBVIOUS
<1>2. Hits(rules) \subseteq Nat /\ Fallbacks(rules) \subseteq Nat
  BY <1>1 DEF Hits, Fallbacks
<1>3. /\ HitsTo(rules, k) = IF r.hit THEN HitsTo(rules, k - 1) \cup {k} ELSE HitsTo(rules, k - 1)
      /\ \A j \in HitsTo(rules, k - 1) : j \in Nat /\ j <= k
  BY <1>1, <1>2 DEF HitsTo, Hits
<1>4. /\ DecidersTo(rules, k) = IF r.hit \/ k \in Fallbacks(rules)
                                THEN DecidersTo(rules, k - 1) \cup {k}
                                ELSE DecidersTo(rules, k - 1)
      /\ \A j \in DecidersTo(rules, k - 1) : j \in Nat /\ j <= k
  BY <1>1, <1>2 DEF DecidersTo, Hits
<1>5. k \in Fallbacks(rules) <=> ~r.hit /\ FallsBack(r) /\ d.mode # "allow"
  <2>1. {j \in Hits(rules) : j < k} = HitsTo(rules, k - 1)
    BY <1>1, <1>2 DEF HitsTo
  <2>2. k \in Fallbacks(rules) <=>
            /\ ~r.hit /\ FallsBack(r)
            /\ \/ HitsTo(rules, k - 1) = {}
               \/ rules[Latest(HitsTo(rules, k - 1))].mode = "deny"
    BY <1>1, <2>1 DEF Fallbacks
  <2>3. CASE HitsTo(rules, k - 1) = {}
    BY <2>2, <2>3 DEF AllowedByHit, IsLatest
  <2>4. CASE HitsTo(rules, k - 1) # {}
    <3>1. PICK l : /\ IsLatest(l, HitsTo(rules, k - 1))
                   /\ d.mode = "allow" <=> rules[l].mode = "allow"
      BY <2>4 DEF AllowedByHit
    <3>2. Latest(HitsTo(rules, k - 1)) = l
      BY <1>2, <3>1, LatestIs DEF HitsTo
    <3>3. rules[l] \in Rule
      BY <1>1, <3>1 DEF IsLatest, HitsTo, Hits
    <3>4. rules[l].mode = "deny" <=> rules[l].mode # "allow"
      BY <3>3 DEF Rule
    <3> QED  BY <2>2, <2>4, <3>1, <3>2, <3>4
  <2> QED  BY <2>3, <2>4
<1>6. CASE r.hit
  <2>1. after = [mode |-> r.mode, action |-> Denial(r)] /\ after = DecidedBy(r)
    BY <1>6 DEF Apply, DecidedBy
  <2>2. IsLatest(k, HitsTo(rules, k)) /\ IsLatest(k, DecidersTo(rules, k))
    BY <1>1, <1>3, <1>4, <1>6 DEF IsLatest
  <2> QED  BY <2>1, <2>2 DEF AllowedByHit, AsPromised
<1>7. CASE k \in Fallbacks(rules)
  <2>1. ~r.hit /\ FallsBack(r) /\ d.mode # "allow"
    BY <1>5, <1>7
  <2>2. after = [mode |-> "deny", action |-> r.action] /\ after = DecidedBy(r)
    BY <2>1 DEF Apply, DecidedBy, Denial, FallsBack
  <2>3. IsLatest(k, DecidersTo(rules, k)) /\ HitsTo(rules, k) = HitsTo(rules, k - 1)
    BY <1>1, <1>3, <1>4, <1>7, <2>1 DEF IsLatest
  <2>4. after.mode # "allow"
    BY <2>2
  <2> QED  BY <2>1, <2>2, <2>3, <2>4 DEF AllowedByHit, AsPromised
<1>8. CASE ~r.hit /\ k \notin Fallbacks(rules)
  <2>1. after = d
    BY <1>5, <1>8 DEF Apply
  <2>2. HitsTo(rules, k) = HitsTo(rules, k - 1) /\ DecidersTo(rules, k) = DecidersTo(rules, k - 1)
    BY <1>3, <1>4, <1>8
  <2> QED  BY <2>1, <2>2 DEF AllowedByHit, AsPromised
<1> QED  BY <1>6, <1>7, <1>8

(* The last match wins, whatever the rules.                                    *)
LEMMA DecideIsPromised ==
    ASSUME NEW rules \in Seq(Rule)
    PROVE  Decide(rules) = Promised(rules)
<1>1. PICK f : /\ f[0] = Undecided
               /\ \A k \in 1 .. Len(rules) : f[k] = Apply(f[k - 1], rules[k])
               /\ Decide(rules) = f[Len(rules)]
  BY RulesAreApplied
<1>2. DOMAIN rules = 1 .. Len(rules) /\ Len(rules) \in Nat
  OBVIOUS
<1> DEFINE Good(k) == AllowedByHit(f[k], rules, k) /\ AsPromised(f[k], rules, k)
           bad == {k \in 0 .. Len(rules) : ~Good(k)}
<1>3. Good(0)
  <2>1. HitsTo(rules, 0) = {} /\ DecidersTo(rules, 0) = {}
    BY <1>2 DEF HitsTo, DecidersTo, Hits, Fallbacks
  <2>2. Undecided.mode # "allow"
    BY DEF Undecided
  <2> QED  BY <1>1, <2>1, <2>2 DEF AllowedByHit, AsPromised
<1>4. ASSUME NEW k \in 1 .. Len(rules), Good(k - 1) PROVE Good(k)
  <2>1. f[k] = Apply(f[k - 1], rules[k])
    BY <1>1
  <2> QED  BY <1>4, <2>1, OneRuleMore
<1> HIDE DEF Good
<1>5. bad = {}
  <2> SUFFICES ASSUME bad # {} PROVE FALSE
    OBVIOUS
  <2>1. bad \in SUBSET Nat
    BY <1>2
  <2>2. PICK m \in bad : \A l \in bad : m <= l
    BY <2>1, Least
  <2>3. m \in 1 .. Len(rules) /\ m - 1 \in 0 .. Len(rules) /\ ~(m <= m - 1)
    BY <1>2, <1>3, <2>2
  <2>4. Good(m - 1)
    BY <2>2, <2>3
  <2> QED  BY <1>4, <2>2, <2>3, <2>4
<1>6. AsPromised(Decide(rules), rules, Len(rules))
  BY <1>1, <1>2, <1>5 DEF Good
<1>7. DecidersTo(rules, Len(rules)) = Hits(rules) \cup Fallbacks(rules)
  BY <1>2 DEF DecidersTo, Hits, Fallbacks
<1>8. CASE DecidersTo(rules, Len(rules)) = {}
  BY <1>6, <1>7, <1>8 DEF AsPromised, IsLatest, Promised
<1>9. CASE DecidersTo(rules, Len(rules)) # {}
  <2>1. PICK l : /\ IsLatest(l, DecidersTo(rules, Len(rules)))
                 /\ Decide(rules) = DecidedBy(rules[l])
    BY <1>6, <1>9 DEF AsPromised
  <2>2. DecidersTo(rules, Len(rules)) \subseteq Nat
    BY <1>2 DEF DecidersTo, Hits, Fallbacks
  <2>3. Latest(Hits(rules) \cup Fallbacks(rules)) = l
    BY <1>7, <2>1, <2>2, LatestIs
  <2> QED  BY <1>7, <1>9, <2>1, <2>3 DEF Promised, DecidedBy
<1> QED  BY <1>8, <1>9

(* The rules that a call is judged by are a list of rules.                     *)
Ruled == input.stage = "rules" => input.rules \in Seq(Rule)

LEMMA RulesAreRules == Spec => []Ruled
<1>1. Init => Ruled
  BY DEF Init, NoInput, Ruled
<1>2. Ruled /\ [Next]_vars => Ruled'
  <2> SUFFICES ASSUME Ruled, [Next]_vars PROVE Ruled'
    OBVIOUS
  <2>1. CASE Classify
    <3>1. <<>> \in Seq(Rule) /\ RuleLists \subseteq Seq(Rule)
      BY RulesAssumption
    <3>2. PICK guard \in {"deny", "allow", "rules"}, restricted \in BOOLEAN :
              \E rules \in IF guard = "rules" THEN RuleLists ELSE {<<>>} :
                  input' = [stage |-> "rules", guard |-> guard,
                            restricted |-> restricted, rules |-> rules]
      BY <2>1 DEF Classify
    <3>3. PICK rules \in IF guard = "rules" THEN RuleLists ELSE {<<>>} :
              input' = [stage |-> "rules", guard |-> guard,
                        restricted |-> restricted, rules |-> rules]
      BY <3>2
    <3>4. rules \in Seq(Rule)
      BY <3>1, <3>3
    <3> QED  BY <3>3, <3>4 DEF Ruled
  <2>2. CASE input' = input \/ input'.stage # "rules"
    BY <2>2 DEF Ruled
  <2>3. ASSUME Next, ~Classify PROVE input' = input \/ input'.stage # "rules"
    BY <2>3 DEF Next, Pre, Post, Done, vars, NoInput, AnswerPre, AnswerPost, PassOn, Leave,
       Judge, JudgeFails, Inspect, Shell, Locate, Open, Load, LoadNothing, Scan, ScanSecrets,
       DecidePre, QueryEngines, Tool, NoOutput, ScanPasswords, Recall, ScanSecretsAgain,
       SkipSecretScan, ScanPii, EndPii, ScanSteering, ScanOffensive, HookFails
  <2> QED  BY <2>1, <2>2, <2>3 DEF vars
<1> QED  BY <1>1, <1>2, PTL DEF Spec

(* For rule lists of any length: read in their order, with the fallbacks of    *)
(* old allow rules, they decide as the settings promise - the last hit wins,   *)
(* and a fallback never undoes an earlier allow (check_tool_allowed).          *)
THEOREM LastMatchAlwaysWins == Spec => []LastMatchWins
<1>1. Ruled => LastMatchWins
  BY DecideIsPromised DEF Ruled, LastMatchWins
<1> QED  BY RulesAreRules, <1>1, PTL
=============================================================================

------------------------------ MODULE ToolCall ------------------------------
(* One call of a tool, or one prompt, on its way past the hooks                *)
(* (hook_processing.py; hook_events/content_pipeline.py and post_tool_use.py): *)
(* PreToolUse judges the call by its rules and scans the file to be read, and  *)
(* saves what PostToolUse is to know of it (hook_context.py); the tool runs;   *)
(* PostToolUse scans the output before the agent gets it.  A text is the set   *)
(* of the scanners that would report it.  Messages and what is logged are left *)
(* out.                                                                        *)
EXTENDS PermissionRules, DirectoryRules, SecretEngines

CONSTANTS
    Pipeline,     \* the scanners of the text, in the registry's order
    RuleLists,    \* permission rules that match the tool's name
    Directories,  \* requests for a directory's file
    Strategy,     \* how the engines' answers are combined
    MaxThreats,   \* bound: scanners that would report a text
    MaxHidden,    \* bound: those that annotations concern
    MaxTroubles   \* bound: scanners that are off, fail or ignore the file

Scanners == {"injection", "poison", "supply", "offensive", "canary", "config",
             "secret", "password", "pii"}
Kinds == {"read", "run", "prompt"}
Listed == {Pipeline[k] : k \in DOMAIN Pipeline}

(* What the settings list for a tool are rules, in any number.                 *)
ASSUME RulesAssumption == RuleLists \subseteq Seq(Rule)

ASSUME PipelineAssumption ==
    /\ Pipeline \in Seq(Scanners)
    /\ "secret" \in Listed
    /\ Strategy \in Strategies
    /\ MaxThreats \in Nat /\ MaxHidden \in Nat /\ MaxTroubles \in Nat

NoInput == [stage |-> "none"]
NoContext == [saved |-> FALSE]

VARIABLES
    pc,         \* the stage that comes next, "done" at the end
    kind,       \* a file is read, another tool runs, or a prompt is sent
    onError,    \* on_scan_error, "block" or "allow"
    input,      \* what the stage looks at: rules, a directory, engine reports
    text,       \* the scanners that would report what is read or printed
    hidden,     \* those that only see it on annotated lines
    i,          \* PreToolUse: the next scanner of the pipeline
    first,      \* PreToolUse: what became of each scanner
    later,      \* PostToolUse: the same
    bypass,     \* why a hook let through what it has not scanned
    ctx,        \* the context saved for PostToolUse
    pre, post,  \* the answers of the two hooks
    delivered,  \* what the agent gets: "all", "redacted", "nothing"
    advanced    \* is the transcript's position behind this output?

request == <<kind, onError>>
content == <<text, hidden>>
scans == <<i, first, later>>
memory == <<bypass, ctx>>
answers == <<pre, post, delivered, advanced>>
vars == <<pc, kind, onError, input, text, hidden, i, first, later, bypass, ctx,
          pre, post, delivered, advanced>>

Init ==
    /\ kind \in Kinds
    /\ pc = IF kind = "prompt" THEN "load" ELSE "judge"
    /\ onError \in {"block", "allow"}
    /\ input = NoInput
    /\ text = {} /\ hidden = {}
    /\ i = 1
    /\ first = [s \in Scanners |-> "none"]
    /\ later = [s \in Scanners |-> "none"]
    /\ bypass = "none"
    /\ ctx = NoContext
    /\ pre = "none" /\ post = "none"
    /\ delivered = "nothing"
    /\ advanced = FALSE

-----------------------------------------------------------------------------
(* Shared by the stages.                                                       *)
Detected == {"blocked", "allowed"}    \* by the action: block or redact, warn or log-only, ask
Troubles == {"off", "failed", "broke", "lost", "ignored"}

Troubled == Cardinality({s \in Scanners : first[s] \in Troubles})
            + Cardinality({s \in Scanners : later[s] \in Troubles})
MayFail == Troubled < MaxTroubles

(* What a scanner may say of a text T.  A user who is asked approves or not.   *)
Outcomes(s, T) ==
    (IF s \in T THEN Detected ELSE {"clean"})
    \cup (IF MayFail THEN {"off", "failed"} ELSE {})
    \cup (IF MayFail /\ s = "pii" THEN {"ignored"} ELSE {})
    \cup (IF MayFail /\ s = "password" THEN {"blocked"} ELSE {})

Texts == {T \in SUBSET Listed : Cardinality(T) <= MaxThreats}
Annotated(T) == {H \in SUBSET T : Cardinality(H) <= MaxHidden}

AnswerPre(a) ==
    /\ pc' = IF a = "allow" /\ kind # "prompt" THEN "tool" ELSE "done"
    /\ pre' = a
    /\ input' = NoInput
    /\ UNCHANGED <<request, post, delivered, advanced>>

(* Every return of PostToolUse moves the transcript's position.                *)
AnswerPost(a, d) ==
    /\ pc' = "done"
    /\ post' = a /\ delivered' = d
    /\ advanced' = TRUE
    /\ input' = NoInput
    /\ UNCHANGED <<request, content, i, first, ctx, pre>>

PassOn(next) == pc' = next /\ UNCHANGED <<request, answers>>

(* A failure that no stage handles: _hook_failure_response.                    *)
HookFails ==
    /\ pc \notin {"tool", "done"}
    /\ bypass' = "failure"
    /\ UNCHANGED later
    /\ IF pre = "none"
       THEN AnswerPre(onError) /\ UNCHANGED <<content, i, first, ctx>>
       ELSE AnswerPost(onError, IF onError = "block" THEN "nothing" ELSE "all")

-----------------------------------------------------------------------------
(* PreToolUse: the rules.  Before them come the guards that no setting turns   *)
(* off, and what lets a call pass without rules: permissions that are off, a   *)
(* developer's own source, preferences in an agent's settings file, the        *)
(* attested MCP server.                                                        *)
Classify ==
    /\ pc = "judge" /\ input = NoInput
    /\ \E guard \in {"deny", "allow", "rules"}, restricted \in BOOLEAN :
           \E rules \in IF guard = "rules" THEN RuleLists ELSE {<<>>} :
               input' = [stage |-> "rules", guard |-> guard,
                         restricted |-> restricted, rules |-> rules]
    /\ PassOn("judge")
    /\ UNCHANGED <<content, scans, memory>>

Judgement ==
    CASE input.guard = "deny" -> "block"
      [] input.guard = "allow" -> "allow"
      [] OTHER -> Verdict(input.rules, input.restricted)

Judge ==
    /\ pc = "judge" /\ input.stage = "rules"
    /\ \/ /\ Judgement # "block"    \* allowed, or approved by the user
          /\ PassOn("inspect") /\ input' = NoInput
       \/ /\ Judgement \in {"block", "ask"}
          /\ AnswerPre("block")
    /\ UNCHANGED <<content, scans, memory>>

(* The settings of the rules cannot be read.                                   *)
JudgeFails ==
    /\ pc = "judge" /\ input = NoInput
    /\ IF onError = "block" THEN AnswerPre("block")
       ELSE PassOn("inspect") /\ UNCHANGED input
    /\ UNCHANGED <<content, scans, memory>>

(* Passwords in the tool's input, then by the kind of tool.                    *)
Inspect ==
    /\ pc = "inspect"
    /\ \/ PassOn(IF kind = "read" THEN "open" ELSE "shell") /\ UNCHANGED input
       \/ AnswerPre("block")
    /\ UNCHANGED <<content, scans, memory>>

(* Tools that read no file: what a shell command may carry off, the security   *)
(* of code about to be written, and a context that claims nothing.             *)
RunContext == [saved |-> TRUE, file |-> FALSE, claims |-> {}, ignored |-> FALSE,
               piiSkipped |-> FALSE]

Shell ==
    /\ pc = "shell"
    /\ \/ AnswerPre("block") /\ ctx' \in {NoContext, RunContext}
       \/ AnswerPre("allow") /\ ctx' \in {NoContext, RunContext}
    /\ UNCHANGED <<content, scans, bypass>>

-----------------------------------------------------------------------------
(* PreToolUse: the file.                                                       *)
Locate ==
    /\ pc = "open" /\ input = NoInput
    /\ \E d \in Directories : input' = [stage |-> "directory", file |-> d]
    /\ PassOn("open")
    /\ UNCHANGED <<content, scans, memory>>

(* The content of a denied file is never read: when the user approves it there *)
(* is nothing to scan, and the call is allowed as a file that has no content.  *)
Open ==
    /\ pc = "open" /\ input.stage = "directory"
    /\ \/ /\ Access(input.file) # "denied"
          /\ PassOn("load") /\ input' = NoInput
          /\ UNCHANGED bypass
       \/ /\ Access(input.file) = "denied"
          /\ AnswerPre("block")
          /\ UNCHANGED bypass
       \/ /\ Access(input.file) = "denied" /\ input.file.action = "ask"
          /\ AnswerPre("allow")
          /\ bypass' = "approved"
    /\ UNCHANGED <<content, scans, ctx>>

(* The file's content or the prompt; only a file has annotations.              *)
Load ==
    /\ pc = "load"
    /\ \E T \in Texts : \E H \in IF kind = "read" THEN Annotated(T) ELSE {{}} :
           text' = T /\ hidden' = H
    /\ PassOn("scan")
    /\ UNCHANGED <<input, scans, memory>>

(* A test of the program itself, a file that cannot be read, a picture without *)
(* text or whose scan failed; an empty prompt.                                 *)
LoadNothing ==
    /\ pc = "load"
    /\ \/ AnswerPre("allow") /\ bypass' = "unread"
       \/ AnswerPre("block") /\ onError = "block" /\ UNCHANGED bypass
    /\ UNCHANGED <<content, scans, ctx>>

-----------------------------------------------------------------------------
(* The scan of the pipeline; the results are acted on in the registry's order. *)
(* Annotations hide a line from the scans of secrets and PII only.             *)
Shown(s) == IF s \in {"secret", "pii"} THEN text \ hidden ELSE text

FailClosed == {"injection", "config"}

Blocks_OnlyDetected(s) == first[s] = "blocked"    \* mutant: without on_scan_error

Blocks(s) ==
    \/ first[s] = "blocked"
    \/ first[s] = "failed" /\ onError = "block" /\ s \in {"secret", "pii"}

Scan_UntilFinding ==    \* mutant: a finding that is allowed ends the scan
    /\ pc = "scan" /\ i <= Len(Pipeline)
    /\ LET s == Pipeline[i] IN
         /\ s # "secret"
         /\ \E o \in Outcomes(s, Shown(s)) :
              /\ first' = [first EXCEPT ![s] = o]
              /\ IF o = "failed" /\ s \in FailClosed /\ onError = "block"
                 THEN AnswerPre("block") /\ UNCHANGED i
                 ELSE /\ PassOn("scan") /\ UNCHANGED input
                      /\ i' = IF o = "allowed" THEN Len(Pipeline) + 1 ELSE i + 1
    /\ UNCHANGED <<content, later, memory>>

Scan ==
    /\ pc = "scan" /\ i <= Len(Pipeline)
    /\ LET s == Pipeline[i] IN
         /\ s # "secret"
         /\ \E o \in Outcomes(s, Shown(s)) :
              /\ first' = [first EXCEPT ![s] = o]
              /\ IF o = "failed" /\ s \in FailClosed /\ onError = "block"
                 THEN AnswerPre("block") /\ UNCHANGED i
                 ELSE PassOn("scan") /\ i' = i + 1 /\ UNCHANGED input
    /\ UNCHANGED <<content, later, memory>>

AtSecrets == pc = "secret" \/ (pc = "scan" /\ i <= Len(Pipeline) /\ Pipeline[i] = "secret")

SkipSecrets_Saved == ctx.saved    \* mutant: any saved context

(* What PostToolUse takes from the context: PreToolUse found nothing.          *)
SkipSecrets == ctx.saved /\ ("secret" \in ctx.claims \/ ctx.ignored)

Seen == IF pre = "none" THEN Shown("secret")
        ELSE IF ctx.saved /\ ctx.file THEN text \ hidden ELSE text

(* The engines that can be asked answer, in whatever way they can.             *)
QueryEngines ==
    /\ AtSecrets /\ input = NoInput
    /\ pre = "none" \/ ~SkipSecrets
    /\ \E inquiry \in Inquiries :
         /\ \A k \in DOMAIN inquiry.reports :
                /\ inquiry.reports[k].found # {} => "secret" \in Seen
                /\ inquiry.reports[k].error => MayFail
         /\ inquiry.refused => MayFail
         /\ input' = [stage |-> "engines", inquiry |-> inquiry]
    /\ PassOn(pc)
    /\ UNCHANGED <<content, scans, memory>>

(* They are off, the file is ignored, or the scan breaks: "broke" when engines *)
(* cannot be run, with a warning for an answer, and "lost" after any other     *)
(* exception, which makes it a clean scan.                                     *)
SecretResults ==
    IF input.stage = "engines"
    THEN {LET r == Result(Strategy, input.inquiry)
          IN  IF r = "found" THEN "blocked" ELSE r}
    ELSE IF MayFail THEN {"off", "ignored", "broke", "lost"} ELSE {}

ScanSecrets ==
    /\ AtSecrets /\ pre = "none"
    /\ \E o \in SecretResults : first' = [first EXCEPT !["secret"] = o]
    /\ PassOn("scan") /\ i' = i + 1 /\ input' = NoInput
    /\ UNCHANGED <<content, later, memory>>

(* The context says "scanned" of each scanner of the pipeline, and "found" of  *)
(* what was detected, except that of secrets it always says not found.         *)
Claims == {s \in {"secret", "injection", "poison"} \cap Listed :
              s = "secret" \/ first[s] \notin Detected}

ReadContext == [saved |-> TRUE, file |-> TRUE, claims |-> Claims,
                ignored |-> first["secret"] = "ignored",
                piiSkipped |-> first["pii"] = "ignored"]

(* One block blocks, whatever other scanners said or users approved.  The      *)
(* transcript of a prompt is scanned then.                                     *)
DecidePre ==
    /\ pc = "scan" /\ i > Len(Pipeline)
    /\ \/ /\ \E s \in Listed : Blocks(s)
          /\ AnswerPre("block") /\ UNCHANGED ctx
       \/ /\ \A s \in Listed : ~Blocks(s)
          /\ \/ kind = "read" /\ AnswerPre("allow") /\ ctx' \in {NoContext, ReadContext}
             \/ kind = "prompt" /\ AnswerPre("allow") /\ UNCHANGED ctx
             \/ kind = "prompt" /\ onError = "block" /\ AnswerPre("block") /\ UNCHANGED ctx
    /\ UNCHANGED <<content, scans, bypass>>

-----------------------------------------------------------------------------
Tool_KeepHidden ==    \* mutant: annotations of the file as PreToolUse read it
    /\ pc = "tool"
    /\ \/ kind = "read" /\ bypass = "none" /\ UNCHANGED content
       \/ text' \in Texts /\ UNCHANGED hidden
    /\ PassOn("output")
    /\ UNCHANGED <<input, scans, memory>>

(* The tool.  It reads what PreToolUse scanned, or something else: another     *)
(* process has written the file, or PreToolUse has not scanned it at all.      *)
Tool ==
    /\ pc = "tool"
    /\ \/ kind = "read" /\ bypass = "none" /\ UNCHANGED content
       \/ \E T \in Texts : \E H \in Annotated(T) : text' = T /\ hidden' = H
    /\ PassOn("output")
    /\ UNCHANGED <<input, scans, memory>>

-----------------------------------------------------------------------------
(* PostToolUse.                                                                *)
Mark(s, o) == later' = [later EXCEPT ![s] = o]

Leave(next) ==
    /\ PassOn(next)
    /\ UNCHANGED <<input, content, i, first, memory>>

NoOutput ==
    /\ pc = "output" /\ text = {}
    /\ AnswerPost("allow", "all")
    /\ UNCHANGED <<later, bypass>>

(* Passwords are looked for before annotations apply and whatever was claimed. *)
ScanPasswords ==
    /\ pc = "output"
    /\ \E o \in IF "password" \in Listed THEN Outcomes("password", text) ELSE {"off"} :
         /\ Mark("password", o)
         /\ IF o = "blocked" THEN AnswerPost("block", "nothing") /\ UNCHANGED bypass
            ELSE PassOn("recall") /\ UNCHANGED <<input, content, i, first, memory>>

(* The context may have expired, or its session ended.                         *)
Recall ==
    /\ pc = "recall"
    /\ ctx' \in {ctx, NoContext}
    /\ PassOn("secret")
    /\ UNCHANGED <<input, content, scans, bypass>>

(* Secret scanning that is off ends the scan of the output, so does one that   *)
(* is incomplete where errors are let through, and one that broke.             *)
EndsSecrets(o) == o \in {"off", "broke"} \/ (o = "failed" /\ onError = "allow")

(* A finding is redacted, or blocked when redaction is off, cannot be set up,  *)
(* fails or redacts nothing.  It may also redact something else than what the  *)
(* engines found.                                                              *)
ScanSecretsAgain ==
    /\ pc = "secret" /\ ~SkipSecrets
    /\ \E o \in SecretResults :
         /\ Mark("secret", o)
         /\ IF EndsSecrets(o) THEN AnswerPost("allow", "all") /\ UNCHANGED bypass
            ELSE IF o \in {"blocked", "failed"}
            THEN /\ \/ AnswerPost("block", "nothing")
                    \/ AnswerPost("allow", "redacted")
                 /\ UNCHANGED bypass
            ELSE /\ PassOn("pii") /\ input' = NoInput
                 /\ UNCHANGED <<content, i, first, memory>>

(* That the scan is off is looked at before the context is.                    *)
SkipSecretScan ==
    /\ pc = "secret" /\ input = NoInput /\ SkipSecrets
    /\ \/ Mark("secret", "skipped") /\ Leave("pii")
       \/ MayFail /\ Mark("secret", "off") /\ AnswerPost("allow", "all") /\ UNCHANGED bypass

(* PII that is found ends the scan of the output, whatever its action.         *)
EndPii(o) ==
    \/ /\ o = "blocked" \/ (o = "failed" /\ onError = "block")
       /\ AnswerPost("block", "nothing")
    \/ o = "blocked" /\ AnswerPost("allow", "redacted")
    \/ o = "allowed" /\ AnswerPost("allow", "all")

ScanPii ==
    /\ pc = "pii"
    /\ \/ ctx.saved /\ ctx.piiSkipped /\ Mark("pii", "skipped") /\ Leave("injection")
       \/ /\ ~(ctx.saved /\ ctx.piiSkipped)
          /\ \E o \in Outcomes("pii", Seen) :
               /\ Mark("pii", o)
               /\ \/ EndPii(o) /\ UNCHANGED bypass
                  \/ o \notin Detected /\ ~(o = "failed" /\ onError = "block") /\ Leave("injection")

(* A scan of the tool's output for what would steer the agent.                 *)
ScanSteering(s, next) ==
    /\ pc = s
    /\ IF ctx.saved /\ (s \in ctx.claims \/ ctx.ignored)
       THEN Mark(s, "skipped") /\ Leave(next)
       ELSE \E o \in IF s \in Listed THEN Outcomes(s, Seen) ELSE {"off"} :
              /\ Mark(s, o)
              /\ IF o = "blocked" \/ (o = "failed" /\ s \in FailClosed /\ onError = "block")
                 THEN AnswerPost("block", "nothing") /\ UNCHANGED bypass
                 ELSE Leave(next)

ScanOffensive ==
    /\ pc = "offensive"
    /\ \E o \in IF "offensive" \in Listed THEN Outcomes("offensive", Seen) ELSE {"off"} :
         /\ Mark("offensive", o)
         /\ IF o = "blocked" THEN AnswerPost("block", "nothing") ELSE AnswerPost("allow", "all")
    /\ UNCHANGED bypass

-----------------------------------------------------------------------------
Pre == \/ Classify \/ Judge \/ JudgeFails \/ Inspect \/ Shell \/ Locate \/ Open
       \/ Load \/ LoadNothing \/ Scan \/ ScanSecrets \/ DecidePre
Post == \/ NoOutput \/ ScanPasswords \/ Recall \/ ScanSecretsAgain \/ SkipSecretScan
        \/ ScanPii \/ ScanSteering("injection", "poison")
        \/ ScanSteering("poison", "offensive") \/ ScanOffensive
Done == pc = "done" /\ UNCHANGED vars

Next == Pre \/ QueryEngines \/ Tool \/ Post \/ HookFails \/ Done

Spec == Init /\ [][Next]_vars

-----------------------------------------------------------------------------
(* Every variable keeps its type.                                              *)
Outcome == Detected \cup Troubles \cup {"none", "clean", "skipped"}

TypeOK ==
    /\ pc \in {"judge", "inspect", "shell", "open", "load", "scan", "tool", "output",
               "recall", "secret", "pii", "injection", "poison", "offensive", "done"}
    /\ kind \in Kinds /\ onError \in {"block", "allow"}
    /\ text \subseteq Scanners /\ hidden \subseteq text
    /\ i \in 1 .. Len(Pipeline) + 1
    /\ first \in [Scanners -> Outcome] /\ later \in [Scanners -> Outcome]
    /\ bypass \in {"none", "failure", "approved", "unread"}
    /\ advanced \in BOOLEAN
    /\ pre \in {"none", "allow", "block"} /\ post \in {"none", "allow", "block"}
    /\ delivered \in {"all", "redacted", "nothing"}

(* Rules read in order say what the settings promise of them: the last hit     *)
(* decides, and an allow rule's fallback does not undo an earlier allow.       *)
LastMatchWins ==
    input.stage = "rules" =>
        LET decided == Decide(input.rules)
            promised == Promised(input.rules)
        IN  /\ decided.mode = promised.mode
            /\ decided.mode = "deny" => decided.action = promised.action

(* Whether the engines find something does not depend on first-match or        *)
(* any-match, and consensus finds no more.  A scan that counts as clean is one *)
(* in which the engines that can run were asked and answered, but for those    *)
(* that first-match left out because of findings that filters then excused.    *)
EnginesAgree ==
    input.stage = "engines" =>
        LET inquiry == input.inquiry
            reports == inquiry.reports
        IN
        /\ Found("first-match", reports) = {} <=> Found("any-match", reports) = {}
        /\ Found("consensus", reports) \subseteq Found("any-match", reports)
        /\ \A strategy \in Strategies :
               Result(strategy, inquiry) = "clean" =>
                   /\ DOMAIN reports # {} /\ ~inquiry.refused
                   /\ \A k \in DOMAIN reports :
                          \/ k \in Ran(strategy, reports) /\ ~reports[k].error
                          \/ /\ strategy = "first-match" /\ Excused(strategy, inquiry)
                             /\ \E j \in DOMAIN reports : j < k /\ reports[j].found # {}

(* Scans that have failed and are let through under on_scan_error = "block".   *)
(* The schema says of it "block the operation if scanning or hook processing   *)
(* fails", of any exception (ai-guardian-config.schema.json:2690); the code    *)
(* looks at the setting for the other scanners only.                           *)
LetThrough(s, o) ==
    \/ o = "failed" /\ s \in {"poison", "supply", "offensive", "canary", "password"}
    \/ o \in {"broke", "lost"}    \* of secrets only

Stops(s, o) ==
    \/ o = "blocked"
    \/ onError = "block" /\ o \in {"failed", "broke", "lost"} /\ ~LetThrough(s, o)

(* A block of either hook, found early, is not lost behind later scanners and  *)
(* approvals; nor is, under on_scan_error = "block", a scan that has failed,   *)
(* but for those named above.                                                  *)
BlocksHold ==
    bypass # "failure" =>
        /\ pre = "allow" => \A s \in Listed : ~Stops(s, first[s])
        /\ delivered = "all" => \A s \in Scanners : ~Stops(s, later[s])

(* Who gets the whole output: PostToolUse's scan has ended in one of the early *)
(* returns of its code, or each scanner has had its say.                       *)
EndedEarly ==
    \/ later["secret"] \in {"off", "broke", "failed"}
    \/ later["pii"] = "allowed"
    \/ bypass = "failure"
    \/ text = {}

(* What runs or is delivered has been looked at by every scanner, but for the  *)
(* named exceptions: a file that was not read, a hook that failed, and the     *)
(* early returns of PostToolUse.                                               *)
NothingUnexamined ==
    /\ pre = "allow" /\ kind # "run" /\ bypass = "none" =>
           \A s \in Listed : first[s] # "none"
    /\ delivered = "all" /\ ~EndedEarly =>
           \A s \in {"secret", "pii", "injection", "poison", "offensive", "password"} :
               later[s] # "none"

(* A secret on a line that no annotation hides reaches the agent only when the *)
(* scan it relies on, PostToolUse's own or the one of the file that the saved  *)
(* context stands for, did not report it, or a hook failed; and what           *)
(* PreToolUse did report of steering is looked at again.                       *)
Unreported == Troubles \cup {"clean"}

SecretsStayIn ==
    /\ delivered = "all" /\ "secret" \in Seen /\ bypass # "failure" =>
           \/ later["secret"] \in Unreported
           \/ later["secret"] = "skipped" /\ ctx.saved /\ ctx.file
              /\ first["secret"] \in Unreported
    /\ \A s \in {"injection", "poison"} :
           later[s] = "skipped" /\ ~ctx.ignored => first[s] \in Unreported

(* "never present an unsuccessful engine as a clean scan" (a comment of        *)
(* scanners/secret_scanning.py): a scan that failed in PreToolUse is not       *)
(* PostToolUse's reason to leave the same text unscanned.                      *)
FailedScanNotClean ==
    later["secret"] = "skipped" /\ ~ctx.ignored => first["secret"] # "failed"
=============================================================================

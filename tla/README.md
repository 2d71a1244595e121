# A TLA+ verification project for ai-guardian

ai-guardian inspects what AI coding agents do (prompts, tool calls, tool output)
and allows, warns about, asks about or blocks it. An agent runs the `ai-guardian`
command as a hook; the hook's process asks a long-running daemon, or decides by
itself when there is none. A tray application, on the same host or another,
shows prompts and notifications and controls one or several daemons.

What is recognised as a secret or an injection is text processing, and left to
tests. This project is about the rest: a decision that many scanners, rules and two
hooks make together, and several processes, threads, hosts and restarts that share a
few files and must still give one answer to a hook, at most one alert for a
violation, one copy of it in a history, and one daemon per user. Paths below are relative to
`src/src/ai_guardian/`.

## 1. Inventory

Modelled, each by a module of its own:

| Component | State it keeps | Operations | What is hard | What makes it correct |
|---|---|---|---|---|
| Daemon lifecycle (`daemon/server.py`, `cli_handlers.py`, `daemon/__init__.py`) | `daemon.pid.lock`, `daemon.pid`, `daemon.sock`, `_running`, `_stop_lock` | `start`, `stop` from three kinds of thread, crash, `daemon stop`, `daemon reset` | overlapping starts, two stops, a signal inside `stop`, a crash between two files, a ping that times out | a daemon that serves can be found; a crash never keeps the next one from starting; an orderly end leaves no lock; a stop comes to its end |
| Hook requests (`cli.py`, `daemon/client.py`, `daemon/server.py`) | the hook's progress, the `daemon.stop-requested` marker, the pause as memory, file and copies of it | ask, start a daemon, send, wait, fall back; `daemon start`/`stop`, pause, resume | a daemon that is slow, dies or is stopped at any moment; hooks that start it at once; writes that fail while the command answers success | every hook is answered; pauses are neither outlived nor missed; a stop is kept |
| Pause control (`daemon/state.py`) | deadlines in memory, `daemon.paused` | pause, resume, expiry, status, persist, load | two clocks, the file written without the lock, suspension, reboot | no pause lasts longer than ordered; the file errs on the side of scanning |
| Security instructions (`daemon/state.py`, `hook_processing.py`) | injected and flagged sessions, `sessions.json` | check, mark, flag, end, debounced save, flush, load | check, mark and reply are separate, and the reply may be lost; timers that cannot be cancelled; a flush that the end of the process cuts off | a block is followed by the rules; no change is forgotten |
| Ask prompts (`daemon/state.py`, `ui/ask_dialog.py`, `tray/app.py`, `daemon/rest_api.py`) | pending prompts, decisions, events, open dialogs | queue, poll, show, decide, time out, clean up | late, double and stale decisions; dialogs without a result; restart under open dialogs | a hook acts only on a decision about itself, the first one, and always gets an answer |
| Notifications (`violations/notifications.py`, `daemon/notification_relay.py`, `tray/notifications.py`) | an SQLite ledger on each of two hosts, delivery slots | register, claim, send, record, poll, relay, prune | lost answers, several pollers, crashes between commit and alert | at most one alert; what the source did not send the other host takes up |
| Hook decision (`hook_processing.py`, `hook_events/`) | what each scanner said, `on_scan_error`, the context PreToolUse saves for PostToolUse, the transcript's position | judge, open, scan, decide, save; recall, skip, scan again, redact | some forty early returns, four ways to treat a scanner that fails, a file that changes between the hooks, a context that expires | a block is not lost; nothing is delivered unscanned but by a named exception; a reported secret stays in |
| Tool policy (`tools/policy.py`, `_check_directory_rules`) | none: rules, exclusions and markers of the settings | `check_tool_allowed`, `check_directory_denied` | rules of several sources and two generations in one list, fallbacks of old allow rules | the last rule that matches decides |
| Secret engines (`scanners/strategies.py`, `scanners/secret_scanning.py`) | none: the engines' answers | first-match, any-match, consensus, the filters after them | engines missing, refused, failing or disagreeing; findings that are filtered out after the search has ended | strategies agree on what they must; a scan is called clean only when every engine has had its say, but for named exceptions |
| Violation history (`violations/logger.py`, `daemon/violation_mirroring.py`) | a log per daemon, the index of imported violations, what a process remembers of the file | fetch, import, mark, rotate, clear | rotation by several processes, a crash between append and mark, a limit on entries | imported once, and in the end; the limit removes what it says |

How they interact: a **hook request** finds or starts a daemon (**lifecycle**) over
its PID file and socket; the daemon looks at its **pause** first, and so does the
hook's direct mode, in the file the daemon has written; then it decides, by the **tool policy** for a call and by
the scanners, **secret engines** among them, for a text, in one **hook decision** before
the tool runs and another after it. A decision may wait for an **ask prompt** that a tray polls over REST, flags the
session for the **security instructions**, and logs a violation, whose
**notification** is sent here or relayed by the tray of another host, which also copies
the violation itself into its own **history**. A stop or
crash of the daemon cuts across all of them; each module has it.

Not modelled yet, and planned (section 2): the long-lived leaktk process
(`scanners/listen_mode.py`), the settings store (`config/writer.py`), resolution marks,
counters and the rescan of the history (`violations/logger.py`, `counter.py`), the direct
mode's session record (`session_state.py`), the loading of machine-learning engines
(`daemon/state.py`), OTEL emitters and traces, event subscribers, SSH tunnels.

Not meant to be modelled: detectors and redaction (regular expressions and models
over text: data without control), installation of scanners and set-up of agents
(downloads and edits of one file at a time), hook adapters, integrations and
session readers (translation of formats), pattern files, reports, web pages, forms
and menus, sandbox, doctor and other one-shot commands, discovery of daemons in
containers, and the Rust proxy in `rust/openshell-middleware` (stateless per request).
`PROJECT.json` lists all of them with their files.

## 2. Plan

Written, in this order (each but the helpers with an MC module and proofs):

1. **DaemonLifecycle** - who is the daemon: the ground everything stands on.
2. **PauseControl** - the switch that turns scanning off.
3. **SecurityInjection** - state that must survive the daemon.
4. **AskPrompts** - a decision that crosses hosts.
5. **NotificationOutbox**, which implements the abstract **AlertOnce**.
6. **HookRequest** - composes, coarsely, lifecycle, marker, pause and the fallback: it
   keeps one daemon and one pause without deadlines, so that the two modules that
   have the details need not be multiplied.

7. **ToolCall**, the decision, over three modules of pure operators: **PermissionRules**,
   **DirectoryRules** and **SecretEngines**. It details the one verdict that HookRequest's
   scan takes.
8. **ViolationMirror** - records copied between hosts into a file that two processes rotate.

Next, most important first:

9. **ConfigStore** - locked updates, the daemon's cached settings, unreadable files.
10. **ViolationHistory** - resolution marks, counters and the rescan over one's own log,
    with ViolationMirror's rotation.
11. **SecurityInjection with the direct mode's record**, then **MLLoad**, **ListenMode**,
    **OtelEmitter**, **SubscriberHub**, **TraceSync**, **TunnelLife**.

Every safety property and action property of a passing run is proved (section 5). Worth
proving next: that after pause commands that overlapped the next one brings file and memory
together again, and the safety of the planned modules.

## 3. The modules and the code

One action is one step another process can observe: a system call on a shared file,
a critical section under `_lock` with the local code around it, one SQLite
transaction, one message. Definitions keep the code's names where there is one.
`PROJECT.json` maps each to its lines. Mutated definitions (`Name_Change`, marked
"mutant") stand before the definition they corrupt and are used by no specification;
each property is known to fail under at least one of them.

**DaemonLifecycle.** `lockFile`, `pidFile`, `sockFile` are the three files, by the
process that owns them; `wrote` tells an empty lock file from one with a PID. `pc` is
the main thread (`_acquire_pid_lock`, `_cleanup_stale`, `_setup_socket`,
`_write_pid_file`, accept loop, `finally`), `stopPc` each thread in `stop()`, which is
guarded by `stopLock` and `running`. A signal's handler runs on the main thread: `Again` is
the frame of one that comes while that thread is in `stop()`, and `Runs` has the frame
beneath wait for it. `Crash` removes a process and leaves its files.
`CliStop...` and `CliReset...` are the commands that unlink the same files by path.
A PID is used once; TCP mode and the REST listener are left out.

**HookRequest.** `at` is the hook's process through `main` of `cli.py`: input,
`is_daemon_running`, `start_daemon_background`, `send_hook_request`, fallback. `task`
is its request in the daemon, which goes on after the hook has given up. `starter` is
each `daemon start`: it removes the marker, builds `DaemonServer` (which reads the
pause file) and only then becomes the daemon. `user` is the command under way.
Writes may fail and are not reported: a pause or resume then answers as if its file had
been written, a `daemon stop` as if its marker had. `want`, `seen` and `kept` are history:
what the last pause or resume asked for ("doubt" when its write has failed), and what each
hook has seen of it; `stopped` and `missed` say that the last stop reported success, and that
it left no marker or did not reach a daemon that was up but slow. A scan is one verdict, also
when it fails and `on_scan_error` decides. What DaemonLifecycle shows (one daemon when starts
do not race) is assumed by `StarterServes`. That a pause file cannot be read is left out.

**PauseControl.** `mem` are deadlines of the monotonic clock, `disk` of the wall clock,
0 for "until resumed" as in the code; `awake`, `slept` and `boot` make the two clocks.
`Order`/`Cancel` change memory, `Snapshot` copies under the lock, `WriteFile` and
`WriteError` are the write without it; `ReadPaused`, `ReadDir`, `ListDirs` and `Status`
are the readers, which drop what has expired. Session pauses are memory only and left out.

**SecurityInjection.** `injected` and `reinject` are the two sets, `at` the hook between
check, mark and reply, `timer` the debounce threads with the copy each writes, `main`
how far the process is in `stop()` and `flush_sessions`, and `stopper` whose thread that is:
for a shutdown message or the idle timeout the main thread does not wait, and `Exit` may cut
the flush off. `Reply` delivers the rules, `ReplyLost` does not (a later exception answers
without them, the connection ends, the client has given up). `owed` and `lost` are history:
the sessions due the rules, and those of them whose rules went with a lost reply or whose
flag with a process that had not saved it. `old` are sessions past their TTL. That the file
cannot be read is left out.

**AskPrompts.** `pending`, `result` and `event` are the daemon's prompts; `id` the
identifiers made of the daemon's start and a counter; `polled`, `inFlight` and
`dialogs` each tray. A dialog ends in a decision (`Decide`), without a result, for which the
tray posts the fallback's decision at once (`NoResult`), or in an error (`Fail`).
`Restart` forgets the daemon's part and leaves the dialogs.

**NotificationOutbox.** `row` and `status` are the two ledgers, `task` what a worker still
has to do, `heard` an answer of the source not yet applied, `slots` the bound on
deliveries. The source answers a poll with its newest rows, at most 1000 of up to 10,000:
`Bury` pushes an event out of them, and `buried` ones are not heard of any more. `Send` is the
only step that shows an alert, and what the sender reports is
not always what happened (`MaySay`). Pruning by age and sources without a ledger are
left out. **AlertOnce** is its promise: the right to send lies with one host, passes
from the source to the local host at most, and is spent by the alert.

**ToolCall.** `pc` is the stage that comes next: `judge` (permission rules), `inspect`
(passwords in the tool's input), `shell` or `open` (directory rules), `load` and `scan`
(`run_content_pipeline`) in PreToolUse; `tool`; `output`, `recall`, `secret` to `offensive`
(`handle_post_tool_use`) in PostToolUse. `kind` is a read, another tool, or a prompt.
A text is data: the set of scanners that would report it (`text`) and those of them that
only see it on annotated lines (`hidden`); the tool may return another text than the one
scanned. `first` and `later` are what each scanner did in either hook: `off`, `failed`,
`broke` (the secret engines cannot be run: a warning, which also ends PostToolUse's scan),
`lost` (another exception of theirs, which counts as a clean scan), `ignored`, `skipped`,
`clean`, or detected and by its action
`blocked` or `allowed`. `ctx` is the saved context with its claims. `bypass` names why
a hook let through what it has not scanned. `HookFails` is `_hook_failure_response`, at any
stage. The guards before the rules and the patterns' hits are choices.

**PermissionRules** and **DirectoryRules** are the two decisions over settings as operators
(`Decide`, `Verdict`; `Denied`, `Access`), **SecretEngines** the three strategies (`Found`)
and what the scan is called after them (`Result`). An `Inquiry` holds the reports of the
engines that are installed and apply to the file, whether the cloud's engine was `refused`,
and the `filters` that apply after the strategy: an allowlist, a stopword list, known hashes or
the check that a secret is alive, each as the set of places it excuses. Findings that one
filter excuses altogether make a scan clean. `Promised` is what the settings'
documentation says of a list of rules, stated without its order of evaluation.

**ViolationMirror.** Violations are numbered; `appended` is the history of all appends,
and `file` holds the places of those that the file still has, so that its order is known.
`exists` tells an empty file from none, `cleared` where the log was last cleared, `index`
the marks in the persistent index; `pc`, `todo` and `seen` are the tray inside
`mirror_remote_violations`, `state` is what it remembers of the file between rotations.
`rot` is each process's `_rotate_log_if_needed`: what it has read, what it will keep,
and whether it has truncated (`write`) or its file has been taken away (`orphan`).
`exposed` and `disturbed` are history: records the file lost before they were marked, and
rewrites that were cut short or met another process; `faults` counts crashes and failed calls.
After a failed rotation the next append tries again, so the file may outgrow its bound by
a record for each fault, and HistoryKept allows no more than that. Left out: the inode (one that is
removed and made anew may come back), the length of lines (all are of one), reads of
the file that see it in the middle of a rewrite, and a failing look-up of one record's ID.

## 4. Runs

| Run | What it asks | Bounds, and why they are enough |
|---|---|---|
| lifecycle_sequential | ServingReachable, LockCoversLife, LoneStartServes | three processes one after another, two crashes: a third start meets what any two predecessors left, in every combination of files; slow pings and failing PID writes on |
| lifecycle_contended | LoneStartSucceeds, NoLockLeftBehind, StopEnds | two overlapping starts, one crash, one CLI command: every pair of the parties that touch the lock. One of the two daemons (`Stopped`) is stopped by three parties at once: a handler thread, a signal on the main thread and a second signal that interrupts it; the other ends only by its own failures or a kill. A third signal finds the same lock as the second; `stop()` waits for nothing outside its process, so stops of both daemons at once add nothing to StopEnds |
| hook_answers | SkippedOnlyWhenPaused, PauseHonoured, StopIsKept, HookIsAnswered | two hooks (one starts a daemon the other meets), one crash and one command after any earlier stop or pause: initial states have the daemon up or down, stopped or not, paused or not; any write of the marker or the pause file may fail |
| pause_sequential | FallbackFailsSafe, PauseSurvives, PauseBounded | one command at a time, one directory beside the global scope, time to 3 with one suspension: a pause of 2 can expire, be cut by a restart or outlast it |
| pause_overlap | FallbackFailsSafe fails when commands overlap | two handler threads |
| injection_settles | RulesFollowBlock, QuietIsSaved, FlushSaves, SettledIsSaved | two handlers on one session and two timers: one fires while the other is set; a stop in the main thread or another, any reply lost; sessions do not interact but through the file, which is copied whole |
| ask_restart | OwnDecision, FallbackInTime, FirstDecisionCounts, HookIsAnswered | two invocations and a tray that may show one prompt twice and so acts for two, one restart |
| outbox_once | AtMostOnce, OneHolder, FailureIsRelayed | one event on two channels, one slot (so that one of them finds none), one crash of either host; ledger rows of different events do not interact but by pruning, which may come at any time |
| tool_call | LastMatchWins, EnginesAgree, BlocksHold, NothingUnexamined, SecretsStayIn, and that no call gets stuck | four scanners (one that `on_scan_error` stops at once, one that stays open, secrets, PII), two engines whose consensus is both, one of them the cloud's, with and without a filter that excuses a place, every list of up to two rules and of three where order can matter, every directory request with up to two rules, two threats, one annotation; one trouble a call, which is enough to make a stage skip what another relies on |
| tool_clean_claim | FailedScanNotClean fails | as above |
| mirror_history | ImportedOnce, HistoryKept, AllImported | two violations for a file that holds one, so that each import rotates, and one fault: the second import meets whatever state the first, a rotation or a crash has left. What the limit keeps is tested here; its bound on the size bites from three violations on, and is proved for any number |
| mirror_order | KeepsMostRecent fails | three violations for the same file, no fault |

TypeOK is checked in one run of each module. Deadlock is checked in tool_call, where a
call must always have an answer. Elsewhere it is not: those bounded systems stop when
their bounds are used up, and a daemon that nobody calls waits.

**What the failing runs show.** *pause_overlap*: of two commands the older copy may be
written last; after a resume the file says "paused", and hooks without a daemon skip their
scans. *tool_clean_claim*: with `on_scan_error` "allow" a secret scan that fails lets the
read pass, and the context saved for PostToolUse says "scanned, nothing found" whatever
became of the scan; PostToolUse then skips its own. *mirror_order*: a source answers newest
first, the tray appends in that order, and rotation keeps the last lines, so the limit on
entries drops the newest violations of a first import and the index never lets them back.

**Liveness and fairness.** StopEnds and LoneStartServes assume that a live process runs on
(every wait in `start` and `stop` is a timed call or for `_stop_lock`, whose holder runs on
too); never that a process starts, that `stop` is called or that nobody crashes. StopEnds has
one exception, which the run reaches: `SelfLocked`, a signal's handler that waits for the
`_stop_lock` its own thread holds. Without the exception the property fails. HookIsAnswered of HookRequest assumes only that
the hook's own process runs on: its connects, pings and reads have timeouts. It assumes
nothing of the daemon. SettledIsSaved assumes handler and timer threads run.
HookIsAnswered of AskPrompts assumes the clock and the waiting thread (`Event.wait` with a
timeout), of no tray or user. FailureIsRelayed assumes the tray polls every event again
and again (strongly: a poll is possible only while the last answer is applied), as long as
newer ones have not buried it, and nothing of senders. AllImported assumes that the tray polls and that a rotation once begun
goes on in either process; nothing of the console, the user or the source, which may drop
a violation first. ToolCall has no fairness: it is sequential, and its claim is that no
state is stuck.

## 5. Proofs

All theorems are about the specification without fairness and for every value of the
constants that the modules' ASSUMEs allow: any number of processes, threads, hooks,
trays, events, scanners and engines, any lists of rules and any bounds.

| Theorem | Says | Argument |
|---|---|---|
| TypeCorrect (eight modules) | TypeOK | inductive, with the lines that tie variables together (a hook under way has a session; an answer exists exactly at the end) |
| NoLockLeft | NoLockLeftBehind | `LockOwnership`: a process before its lock has never written one, one after its release owns none, and a holder that ends passes a release |
| LoneStartRuns | LoneStartSucceeds | nobody else is alive, so no PID in a file is active and nobody answers a ping (`SocketClosed`: an open socket is a live process's); `LoneWay` says of each point of `start` what the lone starter has cleared from its way. No assumption on what overlapped before |
| SequentialDaemon, ServersAreFound | LockCoversLife and ServingReachable, if starts do not overlap and one signal stops a daemon | the inductive invariant says of each program point which of the three files are the process's own, and that at most one process is past the lock |
| OneDaemon | if starts do not overlap, at most one process is `running`, and has the lock; any number of threads may stop it | `ServiceInv`: LockCoversLife but for its last part, which a second `stop()` breaks when it releases the lock before the first is done. A thread reaches `stop` only once `start` is through (`StoppedForGood`), so what a late thread unlinks is never the lock of another process |
| StopLasts | StopIsKept, if no command overlaps a start: after a stop that reported success, unless it left no marker or missed a slow daemon (`missed`) | `StopHolds`: from the moment the marker is written until a user starts the daemon the marker is there and no start is under way. StopIsKept alone is not inductive: it does not see the hook that has found no marker yet |
| NoPauseSurvives, NoPauseIsMissed | SkippedOnlyWhenPaused, PauseHonoured, under the same assumption | `PausesHold`: when a resume has reached the file no copy of the pause is left in memory, file or a starting process; when a pause has, all have it; while a write has failed neither is claimed; and what the daemon made of a request agrees with what its hook has seen |
| NoPauseOutlastsItsOrder | PauseBounded | every deadline in memory, in a thread's copy and in the file is bounded by `granted`, converted between the clocks; conversions move a deadline only towards the past |
| FallbackSafe | FallbackFailsSafe, if commands do not overlap (OneCommandAtATime) | the file is the memory's image, or the image of what it was before the command under way |
| PausesSurvive | PauseSurvives, under the same assumption | the converse inclusion (`CoverInv`): every pause in memory is in the file for as long (`Covers`), or in the copy a thread is about to write; without suspension the two clocks differ by a constant, which the conversions cancel |
| RulesAreGiven | RulesFollowBlock, if a write is shorter than the debounce (PromptWrites) | a session owed the rules is flagged, or a handler between check and reply is about to give them, over restarts whenever the file had the flag; `lost` is exactly what a lost reply and an unsaved flag take away. After an orderly stop the file has it: that rests on FlushSaves, and so on PromptWrites |
| NothingForgotten | QuietIsSaved, under the same assumption | a change not in the file is in a copy being written, or dirty with a timer or a handler about to set one |
| OrderlyStopSaves | FlushSaves, under the same assumption | `FlushInv`: after a stop whose flush came to its end and that neither a hook nor a timer's write overlapped the copy being flushed, and then the file, is what memory holds, and nothing is dirty |
| DialogsDecideTheirOwn | OwnDecision | identifiers differ between daemons and within one, so a dialog's prompt is the one with its identifier or none |
| FirstDecisionIsFinal | FirstDecisionCounts | `Committed`: a decision in time has set the event, so its waiter cannot find the time up any more, and the prompt is no longer found by another decision |
| NoEarlyFallback | FallbackInTime: the fallback comes after the whole time, or for a dialog about that very hook that gave no result | `Waited`: an event without a decision comes from the clean-up, which takes only prompts past their time, and a fallback that a tray posts is one that `unanswered` names, since identifiers are never used twice |
| NoAlertTwice | AtMostOnce | `Claims`: an alert shown or about to be shown is a claim in a committed row, and a row gives a claim once; an email is claimed here only when the source is known not to have sent it |
| RightIsHandedOver | OneHolder: emails implement AlertOnce | initial states and steps map under the same invariant |
| BlocksAreKept, EverythingExamined, ReportedSecretsStayIn | BlocksHold (of both hooks; of failed scans under `on_scan_error` "block", all but those of `LetThrough`), NothingUnexamined, SecretsStayIn | one inductive invariant: `Phases` (what exists at which stage), `Scanned` (the scanners before `i` have had their say), `Noted` (what each stage of PostToolUse has settled for the next), `Contexts` (a claim in the saved context matches what PreToolUse reported) and `Reported` (the engines' reports are of their type). The properties look at the end of the call and are not inductive: they do not say what the stages before have settled |
| EnginesAlwaysAgree | EnginesAgree: whatever the reports, the refusals and the filters, strategies agree as far as they must, and a clean scan means that every engine that can run was asked and answered, but for those behind a first match that filters have excused | `Found` under the strategies is compared for any reports; if any engine finds something there is a first that does (`FirstFinder`), and it is tried |
| LastMatchAlwaysWins | LastMatchWins | `DecideIsPromised`: for every list of rules the evaluation exists, and after each rule it is what `Promised` says of the rules so far (`OneRuleMore`). Both are shown by a least rule where they would fail, since the induction theorems cannot be used |
| HistoryIsKept | HistoryKept | for what is kept: of the lines a rotation has read it keeps every recent one (`ReadersKeep`), and from its truncation on it holds those that the file lacks (`KeptOrHeld`). For the bound: only the tray appends, what a process remembers of an undisturbed file never undercounts it (`CountIsEnough`), a rotation that has read the whole file keeps at most `MaxEntries`, and each record above `MaxEntries + Batch` has a fault of its own (`Room`) |
| NothingImportedTwice | ImportedOnce | `Recognised`: an imported violation is marked, expired, in the file or in the hand of the tray that rewrites it, unless the file lost it unmarked; `CopyIsCurrent`: the tray's copy of the index misses no mark; `RotatesAlone`: it does not import while it rotates |

The inductive invariants were model-checked before they were proved. Two first attempts were
wrong, which says something about the code: the plain bound `MaxEntries + Batch` on the log fails when a rotation
does, and LockCoversLife fails as a whole when two threads stop a daemon.

Model-checked only, since temporal reasoning under fairness and ENABLED are beyond this
prover: the liveness properties LoneStartServes, StopEnds, HookIsAnswered (of two modules),
SettledIsSaved, FailureIsRelayed and AllImported. What the failing runs show is shown by
their counterexamples.

## 6. Limits

* Three assumptions of section 5 are not enforced by the code. *Starts and commands that do
  not overlap* (`Sequential`, `OneStartAtATime`, `~Overlap`, `OneCommandAtATime`): the lock
  file is created empty and filled by a second call, so another starter may take it for
  stale in between and two processes serve (the project's
  `docs/TROUBLESHOOTING.md` knows of two daemons); a hook looks for the marker before it
  spawns `daemon start`, which removes the marker and does not look, so a `daemon stop` in
  between reports success and is undone; overlapping pause commands are the run
  pause_overlap. *Writes shorter than the debounce*: otherwise `flush_sessions` may find
  nothing dirty while a timer's thread holds the copy that it has yet to write.
* *A signal inside `stop()`.* Its docstring calls it idempotent and thread-safe
  (`daemon/server.py:278`), but `_stop_lock` is not reentrant and a second SIGTERM or SIGINT
  that comes while the main thread holds it, at the section itself or during the clean-up of
  a second caller, has `_signal_handler` wait for ever for its own thread (`SelfLocked`).
  StopEnds claims that a stop hangs in no other way.
* *What `on_scan_error` "block" does not stop.* `schemas/ai-guardian-config.schema.json:2690` says that
  it blocks when a scanner raises or is not available ("block the operation if scanning or hook
  processing fails"), and the repository's `docs/CONFIGURATION.md:131,145` calls it fail-closed for scanner
  failures. The code asks for the setting only
  where prompt injection, config files, PII and, for one kind of failure, secrets are scanned: failures
  of context poisoning, supply chain, offensive content, canaries and passwords, and of
  secret engines that cannot be run or raise, let the call pass. BlocksHold names them (`LetThrough`).
* *Writes whose failure nobody is told.* `_atomic_write_json` swallows its error and `daemon stop`
  that of its marker, and both commands report success; so does a `daemon stop` that takes a slow
  daemon for none. A resume that failed in this way leaves hooks without a daemon unscanned, a pause is
  forgotten at the next start, a daemon that was stopped is started by the next hook.
  SkippedOnlyWhenPaused, PauseHonoured and StopIsKept are claimed of commands whose
  write succeeded and who found the daemon (`want` # "doubt", `~missed`).
* *Rules that do not arrive.* The session is marked before the reply is sent, so a reply that is lost after
  that takes the rules with it, and a crash before the next save takes the flag: nothing is
  claimed of that session until it is flagged again (`lost`).
* *A shutdown message or the idle timeout* has `stop()` run in a thread that the main thread does
  not wait for; the process may end before the sessions are written. FlushSaves is
  claimed of flushes that came to their end.
* *Dialogs that fail* are answered with the fallback at once, while the hook's time is not up and
  another tray may still show the prompt (`unanswered`).
* *Old events.* A poll answers with the newest rows only, so an event whose delivery failed at the source
  may never be heard of behind 1000 newer ones (`buried`).
* *Filters and first-match.* A finding that an allowlist or the like excuses ends the
  search all the same: the scan is clean and the later engines were not asked. EnginesAgree
  names the case. A filter excuses a scan's findings here by their places; the path
  with patterns of a server, which is tried before the engines, is not modelled.
* A desktop command that times out counts as failed although its alert may have appeared,
  and the other host may repeat it; AtMostOnce counts alerts per host for that reason.
* Rewrites of one log by two processes may lose what the other has appended, and so may a
  disk that fills up after the truncation: HistoryKept is claimed while nothing of this has
  happened (`disturbed`). A record lost before it was marked may be imported again (`exposed`).
* NothingUnexamined has named exceptions, which are the early returns of the code: secret
  scanning that is off, broke, or failed where errors are let through ends PostToolUse's
  scan, and so does PII that is let through by its action; then injection, poisoning and
  offensive content are not looked for in the output. A file whose directory is denied and
  that the user approves is read without a scan.
* Not in ToolCall: session events, agents without PostToolUse, the dialog over several
  findings, the scan of a prompt's transcript beyond its outcome.
* Reads of the pause file and of the sessions file that fail are not modelled.
* PID reuse, TCP mode (Windows), remote daemons over HTTP, a wall clock that is set
  back, session pauses, the direct mode's session record, tray registration and its TTL,
  age pruning, ledger-less sources, counters
  and resolution marks are not modelled.
* Signals between the installation of the handlers and `_running = True` are in
  DaemonLifecycle (`SignalPoints`) but in no passing run: such a daemon serves after its
  own `stop()`.
* A second `stop()`, or one in a handler thread that outlives the main thread, may remove
  a successor's socket; the reachability claims are for daemons that one signal stops, and
  OneDaemon is what holds beyond.
* A decision that reaches the daemon between a hook's fallback and the next clean-up is
  reported as accepted and applied to nothing.
* `DaemonServer` reads the pause file before it takes the lock; a starter that waits
  there while a daemon is resumed and dies brings the pause back. HookRequest has this
  behaviour with `Overlap = TRUE`.
* A hook that gives up on a slow daemon scans again, so one request may be recorded twice.

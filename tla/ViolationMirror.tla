--------------------------- MODULE ViolationMirror ---------------------------
(* The copy of a remote daemon's violations in a file of this host             *)
(* (daemon/violation_mirroring.py, violations/logger.py).  The tray asks the   *)
(* source for its violations, newest first, appends those that it has not seen *)
(* and marks them in an index that outlives the file's rotation.  The console  *)
(* is another process: when it reads the history it rotates the file, under    *)
(* locks of its own.  Violations are numbered in the order they happened.      *)
(* Lines are taken to be of one length, so that a file's size is its number of *)
(* records.  The file of the host's own violations is rotated by the same code.*)
EXTENDS Integers, Sequences, FiniteSets

CONSTANTS
    MaxEntries,    \* max_entries
    Batch,         \* _ROTATION_BATCH_SIZE
    MaxEvents,     \* bound: violations of the source
    MaxFaults      \* bound: crashes, failed calls and writes

ASSUME MirrorAssumption ==
    /\ MaxEntries \in Nat \ {0} /\ Batch \in Nat \ {0}
    /\ MaxEvents \in Nat /\ MaxFaults \in Nat

Events == 1 .. MaxEvents
Processes == {"tray", "console"}
NoState == [known |-> FALSE]

VARIABLES
    logged,     \* the source has had violations 1 .. logged,
    gone,       \* and has dropped 1 .. gone of them
    expired,    \* 1 .. expired are older than this host keeps them
    appended,   \* history: the violations that were appended, in order
    file,       \* which of these the file holds, by their place in appended
    exists,     \* there is a file
    cleared,    \* history: length of appended when the log was last cleared
    index,      \* the persistent set of violations marked as seen
    pc,         \* the tray's synchronisation
    todo,       \* records of the answer that it has not come to
    seen,       \* its copy of the index
    state,      \* what it remembers of the file between rotations
    rot,        \* each process's rotation under way
    exposed,    \* history: not marked yet when the file lost it
    disturbed,  \* history: a rewrite was cut short, or another process wrote
    faults      \* crashes and failures so far

remote == <<logged, gone, expired>>
store == <<appended, file, exists, cleared>>
sync == <<pc, todo, seen>>
history == <<exposed, disturbed, faults>>
vars == <<logged, gone, expired, appended, file, exists, cleared, index, pc, todo, seen,
          state, rot, exposed, disturbed, faults>>

NoRotation == [step |-> "none", lines |-> {}, keep |-> {}, delete |-> FALSE]

Init ==
    /\ logged = 0 /\ gone = 0 /\ expired = 0
    /\ appended = <<>> /\ file = {} /\ exists = FALSE /\ cleared = 0
    /\ index = {}
    /\ pc = "idle" /\ todo = {} /\ seen = {}
    /\ state = NoState
    /\ rot = [p \in Processes |-> NoRotation]
    /\ exposed = {} /\ disturbed = FALSE /\ faults = 0

-----------------------------------------------------------------------------
(* The source and the passing of time.                                         *)
Log == logged < MaxEvents /\ logged' = logged + 1 /\ UNCHANGED <<gone, expired>>
Drop == gone < logged /\ gone' = gone + 1 /\ UNCHANGED <<logged, expired>>
Age == expired < logged /\ expired' = expired + 1 /\ UNCHANGED <<logged, gone>>

Elsewhere ==
    /\ Log \/ Drop \/ Age
    /\ UNCHANGED <<store, index, sync, state, rot, history>>

-----------------------------------------------------------------------------
(* The file.                                                                   *)
HasId(e) == \E k \in file : appended[k] = e

Unexpired(log, F) == {k \in F : log[k] > expired}

Retained_First(log, F) ==    \* mutant: the first records stay
    {k \in Unexpired(log, F) :
        Cardinality({j \in Unexpired(log, F) : j < k}) < MaxEntries}

(* What rotation keeps: of the records in retention the last max_entries.      *)
Retained(log, F) ==
    {k \in Unexpired(log, F) :
        Cardinality({j \in Unexpired(log, F) : j > k}) < MaxEntries}

(* Records that leave the file before they are marked.                         *)
Unmarked(K) == {appended[k] : k \in K} \ index

(* A file that is put into another's place or removed takes with it what a     *)
(* process that has it open has yet to write.                                  *)
Orphaned == [p \in Processes |->
                IF rot[p].step = "write" THEN [rot[p] EXCEPT !.step = "orphan"] ELSE rot[p]]

BeginRotation(p, log, F, delete) ==
    [rot EXCEPT ![p] = [step |-> "decide", lines |-> F,
                        keep |-> Retained(log, F), delete |-> delete]]

Larger(a, b) == IF a > b THEN a ELSE b

(* _remember_rotation_state, after maintenance.  What the console remembers    *)
(* only spares it rotations, which may be due at any time.  The file's inode   *)
(* is left out: one that is removed and made anew may be given it again.       *)
Remember(p, size, count) ==
    state' = IF p = "tray" /\ ~exists THEN NoState
             ELSE IF p = "tray"
             THEN [known |-> TRUE, size |-> size, count |-> count,
                   next |-> Larger(MaxEntries + 1, count + Batch)]
             ELSE state

EndRotation(p) == rot' = [rot EXCEPT ![p] = NoRotation]

(* _rotate_log_if_needed, when it has read the file: nothing is to be dropped, *)
(* nothing is left, the file has gone, or it is emptied to be written anew.    *)
KeepAll(p) ==
    /\ rot[p].step = "decide" /\ rot[p].keep = rot[p].lines
    /\ ~(rot[p].delete /\ rot[p].keep = {})
    /\ EndRotation(p)
    /\ Remember(p, Cardinality(file), Cardinality(rot[p].keep))
    /\ UNCHANGED <<remote, store, index, sync, history>>

RemoveEmpty(p) ==
    /\ rot[p].step = "decide" /\ rot[p].keep = {} /\ rot[p].delete
    /\ file' = {} /\ exists' = FALSE
    /\ exposed' = exposed \cup Unmarked(file)
    /\ disturbed' = (disturbed \/ file # rot[p].lines \/ Orphaned # rot)
    /\ rot' = [Orphaned EXCEPT ![p] = NoRotation]
    /\ state' = IF p = "tray" THEN NoState ELSE state
    /\ UNCHANGED <<remote, appended, cleared, index, sync, faults>>

FileHasGone(p) ==
    /\ rot[p].step = "decide" /\ rot[p].keep # rot[p].lines /\ ~exists
    /\ ~(rot[p].delete /\ rot[p].keep = {})
    /\ EndRotation(p)
    /\ UNCHANGED <<remote, store, index, sync, state, history>>

Truncate(p) ==
    /\ rot[p].step = "decide" /\ rot[p].keep # rot[p].lines
    /\ ~(rot[p].delete /\ rot[p].keep = {})
    /\ exists
    /\ file' = {}
    /\ exposed' = exposed \cup Unmarked(file \ (IF p = "tray" THEN rot[p].keep ELSE {}))
    /\ disturbed' = (disturbed \/ file # rot[p].lines)
    /\ rot' = [rot EXCEPT ![p].step = "write"]
    /\ UNCHANGED <<remote, appended, exists, cleared, index, sync, state, faults>>

(* It writes from the start of the file, over what others have written there.  *)
Overwritten(keep) ==
    {k \in file \ keep : Cardinality({j \in file : j <= k}) <= Cardinality(keep)}

Write(p) ==
    /\ rot[p].step = "write"
    /\ LET rest == file \ Overwritten(rot[p].keep) IN
         /\ file' = rot[p].keep \cup rest
         /\ Remember(p, Cardinality(rot[p].keep \cup rest), Cardinality(rot[p].keep))
    /\ exposed' = exposed \cup Unmarked(Overwritten(rot[p].keep))
    /\ disturbed' = (disturbed \/ file # {})
    /\ EndRotation(p)
    /\ UNCHANGED <<remote, appended, exists, cleared, index, sync, faults>>

WriteOrphan(p) ==
    /\ rot[p].step = "orphan"
    /\ EndRotation(p)
    /\ Remember(p, Cardinality(file), Cardinality(rot[p].keep))
    /\ exposed' = exposed \cup Unmarked(rot[p].keep \ file)
    /\ UNCHANGED <<remote, store, index, sync, disturbed, faults>>

Rotate(p) ==
    \/ KeepAll(p) \/ RemoveEmpty(p) \/ FileHasGone(p)
    \/ Truncate(p) \/ Write(p) \/ WriteOrphan(p)

(* The console shows the history, and rotates the file when that is due.       *)
ReadHistory ==
    /\ rot["console"].step = "none" /\ exists
    /\ rot' = BeginRotation("console", appended, file, TRUE)
    /\ UNCHANGED <<remote, store, index, sync, state, history>>

(* clear_log, by the console or the command line.  The index stays.            *)
Clear ==
    /\ exists
    /\ file' = {} /\ exists' = FALSE
    /\ cleared' = Len(appended)
    /\ exposed' = exposed \cup Unmarked(file)
    /\ rot' = Orphaned
    /\ UNCHANGED <<remote, appended, index, sync, state, disturbed, faults>>

-----------------------------------------------------------------------------
(* The tray: mirror_remote_violations.                                         *)
Free == rot["tray"].step = "none"

Full == state.count > MaxEntries /\ state.count >= state.next

NotDue == state.known /\ state.size = Cardinality(file) /\ ~Full

StartSync ==
    /\ pc = "idle"
    /\ pc' = "fetch"
    /\ \/ ~exists /\ state' = NoState /\ UNCHANGED rot
       \/ exists /\ NotDue /\ UNCHANGED <<state, rot>>
       \/ exists /\ rot' = BeginRotation("tray", appended, file, TRUE) /\ UNCHANGED state
    /\ UNCHANGED <<remote, store, index, todo, seen, history>>

Fetch_OneMore ==    \* mutant: a record that the source does not have
    /\ pc = "fetch" /\ Free
    /\ pc' = "import"
    /\ todo' = gone + 1 .. logged + 1
    /\ seen' = index
    /\ UNCHANGED <<remote, store, index, state, rot, history>>

(* The source's answer, and what the index has of it.                          *)
Fetch ==
    /\ pc = "fetch" /\ Free
    /\ pc' = "import"
    /\ todo' = gone + 1 .. logged
    /\ seen' = index
    /\ UNCHANGED <<remote, store, index, state, rot, history>>

(* The answer's next record.                                                   *)
Newest(e) == e \in todo /\ \A other \in todo : other <= e

NextRecord(e, S) == pc' = "import" /\ todo' = todo \ {e} /\ seen' = S

SkipSeen(e) ==
    /\ pc = "import" /\ e \in seen
    /\ NextRecord(e, seen)
    /\ UNCHANGED <<remote, store, index, state, rot, history>>

(* What has expired or is in the file already is only marked.                  *)
PassOver(e) ==
    /\ pc = "import" /\ e \notin seen
    /\ e <= expired \/ HasId(e)
    /\ pc' = "mark"
    /\ UNCHANGED <<remote, store, index, todo, seen, state, rot, history>>

(* _maybe_rotate_after_append.  The interval may have passed at any time.      *)
Appended(F) ==
    \/ /\ ~state.known /\ file = {}
       /\ state' = [known |-> TRUE, size |-> Cardinality(F), count |-> Cardinality(F),
                    next |-> MaxEntries + 1]
       /\ UNCHANGED rot
    \/ /\ \/ ~state.known /\ file # {}
          \/ state.known /\ Cardinality(file) < state.size
       /\ rot' = BeginRotation("tray", appended', F, FALSE)
       /\ UNCHANGED state
    \/ /\ state.known /\ Cardinality(file) >= state.size
       /\ LET count == state.count + Cardinality(F) - state.size IN
            /\ state' = [state EXCEPT !.size = Cardinality(F), !.count = count]
            /\ \/ rot' = BeginRotation("tray", appended', F, FALSE)
               \/ ~(count > MaxEntries /\ count >= state.next) /\ UNCHANGED rot

Import_Blind(e) ==    \* mutant: the file is not looked at
    /\ pc = "import" /\ e \notin seen /\ e > expired
    /\ pc' = "mark"
    /\ appended' = Append(appended, e)
    /\ file' = file \cup {Len(appended) + 1} /\ exists' = TRUE
    /\ rot' = rot /\ state' = state
    /\ UNCHANGED <<remote, cleared, index, todo, seen, history>>

Import(e) ==
    /\ pc = "import" /\ e \notin seen
    /\ e > expired /\ ~HasId(e)
    /\ pc' = "mark"
    /\ appended' = Append(appended, e)
    /\ exists' = TRUE
    /\ LET F == file \cup {Len(appended) + 1} IN file' = F /\ Appended(F)
    /\ UNCHANGED <<remote, cleared, index, todo, seen, history>>

(* Marks older than a year, and than the retention, go.                        *)
Mark(e) ==
    /\ pc = "mark" /\ Free
    /\ \E old \in SUBSET {m \in index : m <= expired} : index' = (index \cup {e}) \ old
    /\ NextRecord(e, seen \cup {e})
    /\ UNCHANGED <<remote, store, state, rot, history>>

EndSync ==
    /\ pc = "import" /\ todo = {}
    /\ pc' = "idle" /\ seen' = {}
    /\ UNCHANGED <<remote, store, index, todo, state, rot, history>>

Tray ==
    \/ StartSync \/ Fetch \/ EndSync
    \/ \E e \in todo : Newest(e) /\ (SkipSeen(e) \/ PassOver(e) \/ Import(e) \/ Mark(e))

-----------------------------------------------------------------------------
(* Faults.                                                                     *)
Fault == faults < MaxFaults /\ faults' = faults + 1

(* The source does not answer, or the index cannot be read.                    *)
SyncFails ==
    /\ Fault
    /\ pc = "fetch" /\ Free
    /\ pc' = "idle"
    /\ UNCHANGED <<remote, store, index, todo, seen, state, rot, exposed, disturbed>>

RecordFails_Marks(e) ==    \* mutant: what was not appended is marked
    /\ Fault
    /\ \/ pc = "import" /\ e \notin seen
       \/ pc = "mark" /\ Free
    /\ index' = index \cup {e}
    /\ NextRecord(e, seen)
    /\ UNCHANGED <<remote, store, state, rot, exposed, disturbed>>

(* The record cannot be appended, or not be marked: the next one's turn.       *)
RecordFails(e) ==
    /\ Fault
    /\ \/ pc = "import" /\ e \notin seen
       \/ pc = "mark" /\ Free
    /\ NextRecord(e, seen)
    /\ UNCHANGED <<remote, store, index, state, rot, exposed, disturbed>>

(* The disk is full, or the process dies, when the file has been emptied.      *)
CutShort(p) ==
    /\ exposed' = exposed \cup (IF rot[p].step \in {"write", "orphan"}
                               THEN Unmarked(rot[p].keep \ file) ELSE {})
    /\ disturbed' = (disturbed \/ rot[p].step = "write")
    /\ EndRotation(p)

RotationFails(p) ==
    /\ Fault
    /\ rot[p].step # "none"
    /\ CutShort(p)
    /\ UNCHANGED <<remote, store, index, sync, state>>

Crash(p) ==
    /\ Fault
    /\ CutShort(p)
    /\ IF p = "tray" THEN pc' = "idle" /\ todo' = {} /\ seen' = {} /\ state' = NoState
       ELSE UNCHANGED <<sync, state>>
    /\ UNCHANGED <<remote, store, index>>

-----------------------------------------------------------------------------
Next ==
    \/ Elsewhere
    \/ Tray
    \/ \E p \in Processes : Rotate(p)
    \/ ReadHistory
    \/ Clear
    \/ SyncFails
    \/ \E e \in todo : Newest(e) /\ RecordFails(e)
    \/ \E p \in Processes : RotationFails(p) \/ Crash(p)

Spec == Init /\ [][Next]_vars

(* The tray polls again and again, and what a rotation has begun it ends.      *)
FairSpec == Spec /\ WF_vars(Tray) /\ \A p \in Processes : WF_vars(Rotate(p))

-----------------------------------------------------------------------------
Imported == {appended[k] : k \in DOMAIN appended}

State == [known : {TRUE}, size : Nat, count : Nat, next : Nat]

TypeOK ==
    /\ logged \in 0 .. MaxEvents /\ gone \in 0 .. logged /\ expired \in 0 .. logged
    /\ appended \in Seq(1 .. logged)
    /\ file \subseteq DOMAIN appended /\ exists \in BOOLEAN /\ (file # {} => exists)
    /\ cleared \in 0 .. Len(appended)
    /\ index \subseteq 1 .. logged /\ seen \subseteq 1 .. logged /\ todo \subseteq 1 .. logged
    /\ pc \in {"idle", "fetch", "import", "mark"}
    /\ pc = "mark" => todo # {}
    /\ state \in State \cup {NoState}
    /\ \A p \in Processes :
           /\ rot[p].step \in {"none", "decide", "write", "orphan"}
           /\ rot[p].keep \subseteq rot[p].lines /\ rot[p].lines \subseteq DOMAIN appended
    /\ exposed \subseteq Imported
    /\ disturbed \in BOOLEAN
    /\ faults \in 0 .. MaxFaults

(* A violation is imported once, over polls, crashes of the tray, rotations    *)
(* and clearing: only one that the file lost between its appending and its     *)
(* marking may come again.                                                     *)
ImportedOnce ==
    \A j, k \in DOMAIN appended :
        appended[j] = appended[k] => j = k \/ appended[j] \in exposed

(* As long as no rewrite was cut short and no other process has written during *)
(* one, the file holds the last max_entries records that were appended to it,  *)
(* save what has expired, and is bounded: beyond a rotation's batch it grows   *)
(* by a record at most for each fault, since the next append tries again.      *)
Bounded == ~disturbed => Cardinality(file) <= MaxEntries + Batch + faults

Recent ==
    {k \in DOMAIN appended :
        k > cleared /\ k > Len(appended) - MaxEntries /\ appended[k] > expired}

RecentKept ==
    ~disturbed /\ (\A p \in Processes : rot[p].step # "write") => Recent \subseteq file

HistoryKept == Bounded /\ RecentKept

(* Each violation of the source is imported in the end, or else it expires or  *)
(* the source drops it before.                                                 *)
AllImported ==
    \A e \in Events : (logged >= e) ~> (e \in Imported \/ e <= expired \/ e <= gone)

(* "Limit by max_entries (keep most recent)" (a comment of logger.py): what    *)
(* the limit has taken out of the file is older than what has stayed.          *)
KeepsMostRecent ==
    ~disturbed /\ (\A p \in Processes : rot[p].step # "write") =>
        \A k \in DOMAIN appended \ file : \A j \in file :
            k > cleared /\ appended[k] > expired => appended[k] < appended[j]
=============================================================================

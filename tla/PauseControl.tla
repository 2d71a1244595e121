---------------------------- MODULE PauseControl ----------------------------
(* Pausing and resuming the scanning of hooks: daemon/state.py, pause() to     *)
(* is_paused_on_disk().  A pause covers everything (Global) or one project     *)
(* directory, for some minutes or until it is resumed.  A command changes the  *)
(* daemon's memory under the lock, then copies it under the lock, then writes  *)
(* the copy to the pause file without the lock.  The daemon answers hooks from *)
(* memory; the hook process that finds no daemon reads the file.               *)
(*                                                                             *)
(* Memory holds deadlines of the monotonic clock, the file deadlines of the    *)
(* wall clock.  awake counts the time the machine has run, slept the time it   *)
(* was suspended (the wall clock goes on, the monotonic clock of Linux does    *)
(* not), and boot is the value of awake at the last reboot.                    *)
EXTENDS Integers

CONSTANTS
    Threads,      \* the daemon's handler threads
    Dirs,         \* project directories
    Global,       \* the scope of a daemon-wide pause
    NoPause,      \* "not paused": _paused is False, or no entry for the directory
    Durations,    \* the durations a command may give; 0 is "until resumed"
    MaxAwake, MaxSlept   \* bounds on the clocks

ASSUME PauseAssumption ==
    /\ Global \notin Dirs
    /\ "disk" \notin Threads
    /\ NoPause \notin Nat
    /\ Durations \subseteq Nat
    /\ MaxAwake \in Nat
    /\ MaxSlept \in Nat

Scopes == Dirs \cup {Global}

(* A deadline is 0 for a pause without one, as in the code.                    *)
Until == Nat \cup {NoPause}

VARIABLES
    awake, slept, boot,
    up,        \* is a daemon running?
    mem,       \* _paused and _paused_until, _paused_dirs
    disk,      \* the content of the pause file; all NoPause if there is none
    pc,        \* what each handler thread has still to do of its command
    snap,      \* the copy a thread is about to write
    granted,   \* history: the latest time each scope was ever paused to; 0 if for ever
    fresh,     \* history: the copies, and the file, no later command has overtaken
    failed     \* history: did the last write of the file fail?

clocks == <<awake, slept, boot>>
vars == <<awake, slept, boot, up, mem, disk, pc, snap, granted, fresh, failed>>

Mono == 1 + awake - boot
Wall == 1 + awake + slept

Running(until, now) == until # NoPause /\ (until = 0 \/ now < until)

InForce(s) == Running(mem[s], Mono)
OnDisk(s) == Running(disk[s], Wall)

(* What a hook of directory d is told: by the daemon (paused, is_dir_paused,   *)
(* get_pause_status) and by the file (is_paused_on_disk).                      *)
PausedInDaemon(d) == InForce(Global) \/ InForce(d)
PausedOnDisk(d) == OnDisk(Global) \/ OnDisk(d)

-----------------------------------------------------------------------------
Nothing == [s \in Scopes |-> NoPause]

Init ==
    /\ awake = 0 /\ slept = 0 /\ boot = 0
    /\ up = FALSE
    /\ mem = Nothing
    /\ disk = Nothing
    /\ pc = [t \in Threads |-> "idle"]
    /\ snap = [t \in Threads |-> Nothing]
    /\ granted = Nothing
    /\ fresh = {"disk"}
    /\ failed = FALSE

(* _load_pause_state, in the constructor: what has expired is left out, the    *)
(* rest is moved to the clock of this boot.                                    *)
Restored_KeepExpired(until, mono) ==    \* mutant: no check and no max(0, ...)
    IF until = NoPause \/ until = 0 THEN until ELSE mono + (until - Wall)

Restored_Unconverted(until, mono) ==    \* mutant: a wall deadline kept as it is
    IF ~Running(until, Wall) THEN NoPause ELSE until

Restored(until, mono) ==
    IF ~Running(until, Wall) THEN NoPause
    ELSE IF until = 0 THEN 0
    ELSE mono + (until - Wall)

(* The machine may have been rebooted since the last daemon.                   *)
StartDaemon ==
    /\ ~up
    /\ up' = TRUE
    /\ boot' \in {boot, awake}
    /\ mem' = [s \in Scopes |-> Restored(disk[s], 1 + awake - boot')]
    /\ pc' = [t \in Threads |-> "idle"]
    /\ snap' = [t \in Threads |-> Nothing]
    /\ fresh' = {"disk"}
    /\ failed' = FALSE
    /\ UNCHANGED <<awake, slept, disk, granted>>

(* The end of the daemon, wanted or not.  A command it cuts short stays        *)
(* unfinished until the next start, and mem stays as what was lost.            *)
Crash ==
    /\ up
    /\ up' = FALSE
    /\ UNCHANGED <<awake, slept, boot, mem, disk, pc, snap, granted, fresh, failed>>

-----------------------------------------------------------------------------
Later(s, minutes) ==
    IF minutes = 0 \/ granted[s] = 0 THEN 0
    ELSE IF granted[s] = NoPause \/ granted[s] < 1 + awake + minutes THEN 1 + awake + minutes
    ELSE granted[s]

(* pause, pause_dir: the change of memory.                                     *)
Order(t, s, minutes) ==
    /\ up /\ pc[t] = "idle"
    /\ mem' = [mem EXCEPT ![s] = IF minutes > 0 THEN Mono + minutes ELSE 0]
    /\ pc' = [pc EXCEPT ![t] = "persist"]
    /\ granted' = [granted EXCEPT ![s] = Later(s, minutes)]
    /\ fresh' = {}
    /\ UNCHANGED <<awake, slept, boot, up, disk, snap, failed>>

Cancel_NoPersist(t, s) ==    \* mutant: the file is not written
    /\ up /\ pc[t] = "idle"
    /\ mem' = [mem EXCEPT ![s] = NoPause]
    /\ UNCHANGED <<awake, slept, boot, up, disk, pc, snap, granted, fresh, failed>>

(* resume, resume_dir: also when there is nothing to resume.                   *)
Cancel(t, s) ==
    /\ up /\ pc[t] = "idle"
    /\ mem' = [mem EXCEPT ![s] = NoPause]
    /\ pc' = [pc EXCEPT ![t] = "persist"]
    /\ fresh' = {}
    /\ UNCHANGED <<awake, slept, boot, up, disk, snap, granted, failed>>

(* _persist_pause_state: the copy made under the lock.                         *)
Persisted_Monotonic(until) == until    \* mutant: deadline of the wrong clock

Persisted(until) ==
    IF until = NoPause \/ until = 0 THEN until ELSE Wall + (until - Mono)

Snapshot(t) ==
    /\ up /\ pc[t] = "persist"
    /\ snap' = [snap EXCEPT ![t] = [s \in Scopes |-> Persisted(mem[s])]]
    /\ pc' = [pc EXCEPT ![t] = "write"]
    /\ fresh' = fresh \cup {t}
    /\ UNCHANGED <<awake, slept, boot, up, mem, disk, granted, failed>>

(* _atomic_write_json: the file is replaced as a whole, or an OSError is       *)
(* swallowed and it stays.  Then the command is answered.                      *)
WriteFile(t) ==
    /\ up /\ pc[t] = "write"
    /\ disk' = snap[t]
    /\ snap' = [snap EXCEPT ![t] = Nothing]
    /\ fresh' = (fresh \ {t, "disk"}) \cup (IF t \in fresh THEN {"disk"} ELSE {})
    /\ failed' = FALSE
    /\ pc' = [pc EXCEPT ![t] = "idle"]
    /\ UNCHANGED <<awake, slept, boot, up, mem, granted>>

WriteError(t) ==
    /\ up /\ pc[t] = "write"
    /\ snap' = [snap EXCEPT ![t] = Nothing]
    /\ fresh' = fresh \ {t}
    /\ failed' = TRUE
    /\ pc' = [pc EXCEPT ![t] = "idle"]
    /\ UNCHANGED <<awake, slept, boot, up, mem, disk, granted>>

-----------------------------------------------------------------------------
Expired(s) == mem[s] # NoPause /\ ~InForce(s)

Drop(S) == mem' = [s \in Scopes |-> IF s \in S THEN NoPause ELSE mem[s]]

(* paused, is_dir_paused, get_paused_dirs forget what has expired and do not   *)
(* write the file.                                                             *)
ReadPaused ==
    /\ up /\ Expired(Global)
    /\ Drop({Global})
    /\ UNCHANGED <<awake, slept, boot, up, disk, pc, snap, granted, fresh, failed>>

ReadDir(d) ==
    /\ up /\ Expired(d)
    /\ Drop({d})
    /\ UNCHANGED <<awake, slept, boot, up, disk, pc, snap, granted, fresh, failed>>

ListDirs ==
    /\ up /\ \E d \in Dirs : Expired(d)
    /\ Drop({d \in Dirs : Expired(d)})
    /\ UNCHANGED <<awake, slept, boot, up, disk, pc, snap, granted, fresh, failed>>

(* get_pause_status(d): looks at d only if no daemon-wide pause is in force,   *)
(* and writes the file only when it ends without a pause to report.            *)
Status(t, d) ==
    LET gone == {s \in {Global, d} : Expired(s)} IN
    /\ up /\ pc[t] = "idle"
    /\ ~InForce(Global)
    /\ gone # {}
    /\ Drop(gone)
    /\ pc' = [pc EXCEPT ![t] = IF InForce(d) THEN "idle" ELSE "persist"]
    /\ UNCHANGED <<awake, slept, boot, up, disk, snap, granted, fresh, failed>>

-----------------------------------------------------------------------------
Tick ==
    /\ awake < MaxAwake
    /\ awake' = awake + 1
    /\ UNCHANGED <<slept, boot, up, mem, disk, pc, snap, granted, fresh, failed>>

Sleep ==
    /\ slept < MaxSlept
    /\ slept' = slept + 1
    /\ UNCHANGED <<awake, boot, up, mem, disk, pc, snap, granted, fresh, failed>>

Next ==
    \/ StartDaemon
    \/ Crash
    \/ \E t \in Threads, s \in Scopes, minutes \in Durations : Order(t, s, minutes)
    \/ \E t \in Threads, s \in Scopes : Cancel(t, s)
    \/ \E t \in Threads : Snapshot(t)
    \/ \E t \in Threads : WriteFile(t)
    \/ \E t \in Threads : WriteError(t)
    \/ ReadPaused
    \/ \E d \in Dirs : ReadDir(d)
    \/ ListDirs
    \/ \E t \in Threads, d \in Dirs : Status(t, d)
    \/ Tick
    \/ Sleep

Spec == Init /\ [][Next]_vars

-----------------------------------------------------------------------------
TypeOK ==
    /\ awake \in Nat /\ slept \in Nat /\ boot \in 0..awake
    /\ up \in BOOLEAN
    /\ mem \in [Scopes -> Until]
    /\ disk \in [Scopes -> Until]
    /\ pc \in [Threads -> {"idle", "persist", "write"}]
    /\ snap \in [Threads -> [Scopes -> Until]]
    /\ granted \in [Scopes -> Until]
    /\ fresh \subseteq Threads \cup {"disk"}
    /\ failed \in BOOLEAN

(* No command of the daemon is under way, or was cut short by its end.         *)
Quiet == \A t \in Threads : pc[t] = "idle"

(* Between commands a hook process that finds no daemon never skips the scan   *)
(* on the word of the pause file when the daemon, had it answered, would have  *)
(* scanned: through expiry, suspension, crashes and restarts the file may fall *)
(* behind the memory only on the side of scanning, unless its last write failed. *)
FallbackFailsSafe ==
    Quiet /\ ~failed => \A d \in Dirs : PausedOnDisk(d) => PausedInDaemon(d)

(* As long as the machine was never suspended and the file could be written,   *)
(* it also keeps every pause of the daemon: a pause that was answered survives *)
(* a crash.                                                                    *)
PauseSurvives ==
    Quiet /\ ~failed /\ slept = 0 => \A d \in Dirs : PausedInDaemon(d) => PausedOnDisk(d)

(* No scope stays paused, in memory or in the file, beyond the latest deadline *)
(* a command ever gave it, counted in the time the machine was awake, however  *)
(* the commands overlapped and the daemon and the machine restarted: the       *)
(* conversions between the clocks never lengthen a pause or lose its deadline. *)
PauseBounded ==
    \A s \in Scopes :
        InForce(s) \/ OnDisk(s) => granted[s] # NoPause /\ Running(granted[s], 1 + awake)
=============================================================================

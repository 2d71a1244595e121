------------------------- MODULE PauseControlProofs -------------------------
(* Proofs about PauseControl, for any number of threads and directories and    *)
(* any durations and bounds.                                                   *)
EXTENDS PauseControl, TLAPS

(* A deadline that a conversion produces is again a deadline.                  *)
LEMMA Clocks ==
    ASSUME TypeOK
    PROVE  Mono \in Nat \ {0} /\ Wall \in Nat \ {0} /\ Wall = Mono + slept + boot
BY DEF TypeOK, Mono, Wall

LEMMA RestoredType ==
    ASSUME TypeOK, NEW until \in Until, NEW mono \in Nat
    PROVE  Restored(until, mono) \in Until
<1>1. Wall \in Nat
  BY Clocks
<1>2. CASE Running(until, Wall) /\ until # 0
  <2>1. until \in Nat /\ Wall < until
    BY <1>2 DEF Until, Running
  <2>2. mono + (until - Wall) \in Nat
    BY <1>1, <2>1
  <2> QED  BY <1>2, <2>2 DEF Restored, Until
<1>3. CASE ~(Running(until, Wall) /\ until # 0)
  BY <1>3 DEF Restored, Until
<1> QED  BY <1>2, <1>3

LEMMA PersistedType ==
    ASSUME TypeOK, NEW s \in Scopes
    PROVE  Persisted(mem[s]) \in Until
<1>1. mem[s] \in Until
  BY DEF TypeOK
<1>2. Wall \in Nat /\ Mono \in Nat /\ slept \in Nat /\ boot \in Nat /\ Wall = Mono + slept + boot
  BY Clocks DEF TypeOK
<1>3. CASE mem[s] \in Nat
  <2>1. Wall + (mem[s] - Mono) = mem[s] + slept + boot
    BY <1>2, <1>3
  <2> QED  BY <1>2, <1>3, <2>1 DEF Persisted, Until
<1>4. CASE mem[s] = NoPause
  BY <1>4 DEF Persisted, Until
<1> QED  BY <1>1, <1>3, <1>4 DEF Until

(* Every variable keeps its type: pauses are absent, without end or have a     *)
(* deadline, in memory, in the copies and in the file (daemon/state.py).       *)
THEOREM TypeCorrect == Spec => []TypeOK
<1>1. Init => TypeOK
  <2> SUFFICES ASSUME Init
               PROVE  TypeOK
    OBVIOUS
  <2>1. Nothing \in [Scopes -> Until]
    BY DEF Nothing, Until
  <2>2. snap \in [Threads -> [Scopes -> Until]]
    BY <2>1 DEF Init
  <2>3. boot \in 0..awake /\ awake \in Nat /\ slept \in Nat
    BY DEF Init
  <2>4. pc \in [Threads -> {"idle", "persist", "write"}]
    BY DEF Init
  <2> QED  BY <2>1, <2>2, <2>3, <2>4 DEF Init, TypeOK
<1>2. TypeOK /\ [Next]_vars => TypeOK'
  <2> SUFFICES ASSUME TypeOK, [Next]_vars
               PROVE  TypeOK'
    OBVIOUS
  <2> USE PauseAssumption DEF Until
  <2>1. CASE StartDaemon
    <3>1. boot' \in 0..awake
      BY <2>1 DEF StartDaemon, TypeOK
    <3>2. 1 + awake - boot' \in Nat
      <4> DEFINE b == boot'
      <4>1. awake \in Nat /\ b \in Int /\ b =< awake
        BY <3>1 DEF TypeOK
      <4> HIDE DEF b
      <4>2. 1 + awake - b \in Nat
        BY <4>1
      <4> QED  BY <4>2 DEF b
    <3>3. \A s \in Scopes : Restored(disk[s], 1 + awake - boot') \in Until
      BY <3>2, RestoredType DEF TypeOK
    <3>4. mem' \in [Scopes -> Until]
      BY <2>1, <3>3 DEF StartDaemon
    <3>5. snap' \in [Threads -> [Scopes -> Until]] /\ pc' \in [Threads -> {"idle", "persist", "write"}]
      BY <2>1 DEF StartDaemon, Nothing
    <3> QED  BY <2>1, <3>1, <3>4, <3>5 DEF StartDaemon, TypeOK
  <2>2. CASE Crash
    BY <2>2 DEF Crash, TypeOK
  <2>3. ASSUME NEW t \in Threads, NEW s \in Scopes, NEW minutes \in Durations, Order(t, s, minutes)
        PROVE  TypeOK'
    <3>1. minutes \in Nat /\ Mono \in Nat /\ awake \in Nat
      BY Clocks DEF TypeOK
    <3>2. (IF minutes > 0 THEN Mono + minutes ELSE 0) \in Until
      BY <3>1
    <3>3. Later(s, minutes) \in Until
      BY <3>1 DEF Later, TypeOK
    <3>4. mem' \in [Scopes -> Until]
      BY <2>3, <3>2 DEF Order, TypeOK
    <3>5. granted' \in [Scopes -> Until]
      BY <2>3, <3>3 DEF Order, TypeOK
    <3>6. pc' \in [Threads -> {"idle", "persist", "write"}]
      BY <2>3 DEF Order, TypeOK
    <3> QED  BY <2>3, <3>4, <3>5, <3>6 DEF Order, TypeOK
  <2>4. ASSUME NEW t \in Threads, NEW s \in Scopes, Cancel(t, s)
        PROVE  TypeOK'
    <3>1. mem' \in [Scopes -> Until] /\ pc' \in [Threads -> {"idle", "persist", "write"}]
      BY <2>4 DEF Cancel, TypeOK
    <3> QED  BY <2>4, <3>1 DEF Cancel, TypeOK
  <2>5. ASSUME NEW t \in Threads, Snapshot(t)
        PROVE  TypeOK'
    <3>1. [s \in Scopes |-> Persisted(mem[s])] \in [Scopes -> Until]
      BY PersistedType
    <3>2. snap' \in [Threads -> [Scopes -> Until]] /\ pc' \in [Threads -> {"idle", "persist", "write"}]
      BY <2>5, <3>1 DEF Snapshot, TypeOK
    <3> QED  BY <2>5, <3>2 DEF Snapshot, TypeOK
  <2>6. ASSUME NEW t \in Threads, WriteFile(t)
        PROVE  TypeOK'
    <3>1. Nothing \in [Scopes -> Until]
      BY DEF Nothing
    <3>2. snap' \in [Threads -> [Scopes -> Until]] /\ pc' \in [Threads -> {"idle", "persist", "write"}]
      BY <2>6, <3>1 DEF WriteFile, TypeOK
    <3> QED  BY <2>6, <3>2 DEF WriteFile, TypeOK
  <2>7. ASSUME NEW t \in Threads, WriteError(t)
        PROVE  TypeOK'
    <3>1. Nothing \in [Scopes -> Until]
      BY DEF Nothing
    <3>2. snap' \in [Threads -> [Scopes -> Until]] /\ pc' \in [Threads -> {"idle", "persist", "write"}]
      BY <2>7, <3>1 DEF WriteError, TypeOK
    <3> QED  BY <2>7, <3>2 DEF WriteError, TypeOK
  <2>8. \A S : Drop(S) => mem' \in [Scopes -> Until]
    BY DEF Drop, TypeOK
  <2>9. CASE ReadPaused
    BY <2>8, <2>9 DEF ReadPaused, TypeOK
  <2>10. ASSUME NEW d \in Dirs, ReadDir(d)
         PROVE  TypeOK'
    BY <2>8, <2>10 DEF ReadDir, TypeOK
  <2>11. CASE ListDirs
    BY <2>8, <2>11 DEF ListDirs, TypeOK
  <2>12. ASSUME NEW t \in Threads, NEW d \in Dirs, Status(t, d)
         PROVE  TypeOK'
    <3>1. pc' \in [Threads -> {"idle", "persist", "write"}]
      BY <2>12 DEF Status, TypeOK
    <3> QED  BY <2>8, <2>12, <3>1 DEF Status, TypeOK
  <2>13. CASE Tick
    BY <2>13 DEF Tick, TypeOK
  <2>14. CASE Sleep
    BY <2>14 DEF Sleep, TypeOK
  <2>15. CASE UNCHANGED vars
    BY <2>15 DEF vars, TypeOK
  <2> QED  BY <2>1, <2>2, <2>3, <2>4, <2>5, <2>6, <2>7, <2>9, <2>10, <2>11, <2>12, <2>13, <2>14, <2>15 DEF Next
<1> QED  BY <1>1, <1>2, PTL DEF Spec

-----------------------------------------------------------------------------
(* The strengthening of PauseBounded: every deadline in memory, in the file    *)
(* and in the copies under way, carried back to the clock of the commands, is  *)
(* within what was granted.                                                    *)
MemBound(m, g, b) == m # NoPause => g # NoPause /\ (g # 0 => m # 0 /\ m + b =< g)
FileBound(w, g, n) == w # NoPause => g # NoPause /\ (g # 0 => w # 0 /\ w =< g + n)

BoundInv ==
    \A s \in Scopes :
        /\ MemBound(mem[s], granted[s], boot)
        /\ FileBound(disk[s], granted[s], slept)
        /\ \A t \in Threads : FileBound(snap[t][s], granted[s], slept)

(* The copy of a bounded pause is bounded.                                     *)
LEMMA PersistedBound ==
    ASSUME TypeOK, NEW s \in Scopes, MemBound(mem[s], granted[s], boot)
    PROVE  FileBound(Persisted(mem[s]), granted[s], slept)
<1>1. mem[s] \in Until /\ granted[s] \in Until
  BY DEF TypeOK
<1>2. Wall \in Nat /\ Mono \in Nat /\ slept \in Nat /\ boot \in Nat /\ Wall = Mono + slept + boot
  BY Clocks DEF TypeOK
<1>3. CASE mem[s] \in Nat /\ mem[s] # 0
  <2>1. Wall + (mem[s] - Mono) = mem[s] + slept + boot
    BY <1>2, <1>3
  <2>2. Persisted(mem[s]) = mem[s] + slept + boot
    BY <1>3, <2>1, PauseAssumption DEF Persisted
  <2> QED  BY <1>1, <1>2, <1>3, <2>2, PauseAssumption DEF MemBound, FileBound, Until
<1>4. CASE mem[s] = NoPause \/ mem[s] = 0
  BY <1>1, <1>4, PauseAssumption DEF Persisted, MemBound, FileBound, Until
<1> QED  BY <1>1, <1>3, <1>4 DEF Until

(* What a start restores from a bounded file is bounded, at either boot.       *)
LEMMA RestoredBound ==
    ASSUME TypeOK, NEW s \in Scopes, FileBound(disk[s], granted[s], slept), NEW b \in 0..awake
    PROVE  MemBound(Restored(disk[s], 1 + awake - b), granted[s], b)
<1>1. disk[s] \in Until /\ granted[s] \in Until
  BY DEF TypeOK
<1>2. awake \in Nat /\ slept \in Nat /\ b \in Nat /\ b =< awake
  BY DEF TypeOK
<1>3. CASE Running(disk[s], Wall) /\ disk[s] # 0
  <2>1. disk[s] \in Nat /\ 1 + awake + slept < disk[s]
    BY <1>1, <1>3 DEF Running, Until, Wall
  <2>2. Restored(disk[s], 1 + awake - b) = (1 + awake - b) + (disk[s] - (1 + awake + slept))
    BY <1>3 DEF Restored, Wall
  <2>3. Restored(disk[s], 1 + awake - b) = disk[s] - slept - b
    BY <1>2, <2>1, <2>2
  <2>4. disk[s] - slept - b # 0 /\ (disk[s] - slept - b) + b = disk[s] - slept
    BY <1>2, <2>1
  <2>5. ASSUME granted[s] # 0, granted[s] # NoPause, disk[s] =< granted[s] + slept
        PROVE  disk[s] - slept =< granted[s]
    <3>1. granted[s] \in Nat
      BY <1>1, <2>5 DEF Until
    <3> QED  BY <1>2, <2>1, <2>5, <3>1
  <2> QED  BY <1>1, <2>1, <2>3, <2>4, <2>5, PauseAssumption DEF MemBound, FileBound
<1>4. CASE ~(Running(disk[s], Wall) /\ disk[s] # 0)
  BY <1>1, <1>4, PauseAssumption DEF Restored, MemBound, FileBound, Running
<1> QED  BY <1>3, <1>4

(* An order grants what it puts in memory and takes nothing back.              *)
LEMMA OrderBound ==
    ASSUME TypeOK, NEW s \in Scopes, NEW minutes \in Nat
    PROVE  /\ MemBound(IF minutes > 0 THEN Mono + minutes ELSE 0, Later(s, minutes), boot)
           /\ \A w \in Until : FileBound(w, granted[s], slept) => FileBound(w, Later(s, minutes), slept)
<1>1. granted[s] \in Until /\ awake \in Nat /\ boot \in Nat /\ boot =< awake /\ slept \in Nat
  BY DEF TypeOK
<1>2. Mono + minutes + boot = 1 + awake + minutes /\ Mono + minutes # 0
  BY <1>1 DEF Mono
<1>3. /\ Later(s, minutes) \in Nat
      /\ Later(s, minutes) # 0 => minutes > 0 /\ 1 + awake + minutes =< Later(s, minutes)
      /\ Later(s, minutes) # 0 => granted[s] = NoPause \/ (granted[s] # 0 /\ granted[s] =< Later(s, minutes))
  BY <1>1, PauseAssumption DEF Later, Until
<1>4. MemBound(IF minutes > 0 THEN Mono + minutes ELSE 0, Later(s, minutes), boot)
  BY <1>2, <1>3, PauseAssumption DEF MemBound
<1>5. ASSUME NEW w \in Until, FileBound(w, granted[s], slept)
      PROVE  FileBound(w, Later(s, minutes), slept)
  <2>1. CASE w = NoPause \/ granted[s] = NoPause \/ Later(s, minutes) = 0
    BY <1>3, <1>5, <2>1, PauseAssumption DEF FileBound
  <2>2. CASE w # NoPause /\ granted[s] # NoPause /\ Later(s, minutes) # 0
    <3>1. w \in Nat /\ w # 0 /\ granted[s] \in Nat /\ w =< granted[s] + slept /\ granted[s] =< Later(s, minutes)
      BY <1>1, <1>3, <1>5, <2>2 DEF FileBound, Until
    <3>2. w =< Later(s, minutes) + slept
      BY <1>1, <1>3, <3>1
    <3> QED  BY <1>3, <3>1, <3>2, PauseAssumption DEF FileBound
  <2> QED  BY <2>1, <2>2
<1> QED  BY <1>4, <1>5

(* The copy, the file and the memory stay within what the commands granted, so *)
(* no pause outlasts its order: state.py's conversions between the clocks are  *)
(* right for every interleaving, crash, reboot and suspension.                 *)
THEOREM NoPauseOutlastsItsOrder == Spec => []PauseBounded
<1>1. Init => BoundInv
  BY DEF Init, BoundInv, Nothing, MemBound, FileBound
<1>2. TypeOK /\ TypeOK' /\ BoundInv /\ [Next]_vars => BoundInv'
  <2> SUFFICES ASSUME TypeOK, TypeOK', BoundInv, [Next]_vars, NEW s \in Scopes
               PROVE  /\ MemBound(mem'[s], granted'[s], boot')
                      /\ FileBound(disk'[s], granted'[s], slept')
                      /\ \A t \in Threads : FileBound(snap'[t][s], granted'[s], slept')
    BY DEF BoundInv
  <2>0. /\ MemBound(mem[s], granted[s], boot)
        /\ FileBound(disk[s], granted[s], slept)
        /\ \A t \in Threads : FileBound(snap[t][s], granted[s], slept)
    BY DEF BoundInv
  <2>n. MemBound(NoPause, granted[s], boot) /\ FileBound(NoPause, granted[s], slept) /\ FileBound(Nothing[s], granted[s], slept)
    BY DEF MemBound, FileBound, Nothing
  <2>d. ASSUME NEW S, Drop(S)
        PROVE  mem'[s] = mem[s] \/ mem'[s] = NoPause
    BY <2>d DEF Drop
  <2>1. CASE StartDaemon
    <3>1. boot' \in 0..awake
      BY <2>1 DEF StartDaemon, TypeOK
    <3>2. mem'[s] = Restored(disk[s], 1 + awake - boot')
      BY <2>1 DEF StartDaemon
    <3>3. MemBound(mem'[s], granted[s], boot')
      BY <2>0, <3>1, <3>2, RestoredBound
    <3>4. \A t \in Threads : snap'[t] = Nothing
      BY <2>1 DEF StartDaemon
    <3> QED  BY <2>0, <2>1, <2>n, <3>3, <3>4 DEF StartDaemon
  <2>2. CASE Crash
    BY <2>0, <2>2 DEF Crash
  <2>3. ASSUME NEW t \in Threads, NEW u \in Scopes, NEW minutes \in Durations, Order(t, u, minutes)
        PROVE  /\ MemBound(mem'[s], granted'[s], boot')
               /\ FileBound(disk'[s], granted'[s], slept')
               /\ \A r \in Threads : FileBound(snap'[r][s], granted'[s], slept')
    <3>1. CASE u = s
      <4>1. /\ mem'[s] = IF minutes > 0 THEN Mono + minutes ELSE 0
            /\ granted'[s] = Later(s, minutes)
            /\ UNCHANGED <<boot, slept, disk, snap>>
        BY <2>3, <3>1 DEF Order, TypeOK
      <4>2. disk[s] \in Until /\ \A r \in Threads : snap[r][s] \in Until
        BY DEF TypeOK
      <4>3. minutes \in Nat
        BY PauseAssumption
      <4> QED  BY <2>0, <4>1, <4>2, <4>3, OrderBound
    <3>2. CASE u # s
      <4>1. mem'[s] = mem[s] /\ granted'[s] = granted[s] /\ UNCHANGED <<boot, slept, disk, snap>>
        BY <2>3, <3>2 DEF Order, TypeOK
      <4> QED  BY <2>0, <4>1
    <3> QED  BY <3>1, <3>2
  <2>4. ASSUME NEW t \in Threads, NEW u \in Scopes, Cancel(t, u)
        PROVE  /\ MemBound(mem'[s], granted'[s], boot')
               /\ FileBound(disk'[s], granted'[s], slept')
               /\ \A r \in Threads : FileBound(snap'[r][s], granted'[s], slept')
    <3>1. mem'[s] = mem[s] \/ mem'[s] = NoPause
      BY <2>4 DEF Cancel, TypeOK
    <3> QED  BY <2>0, <2>4, <2>n, <3>1 DEF Cancel
  <2>5. ASSUME NEW t \in Threads, Snapshot(t)
        PROVE  \A r \in Threads : FileBound(snap'[r][s], granted[s], slept)
    <3>1. snap'[t][s] = Persisted(mem[s])
      BY <2>5 DEF Snapshot, TypeOK
    <3>2. \A r \in Threads : r # t => snap'[r] = snap[r]
      BY <2>5 DEF Snapshot, TypeOK
    <3> QED  BY <2>0, <3>1, <3>2, PersistedBound
  <2>6. ASSUME NEW t \in Threads, WriteFile(t) \/ WriteError(t)
        PROVE  \A r \in Threads : FileBound(snap'[r][s], granted[s], slept)
    <3>1. \A r \in Threads : snap'[r] = snap[r] \/ snap'[r] = Nothing
      BY <2>6 DEF WriteFile, WriteError, TypeOK
    <3> QED  BY <2>0, <2>n, <3>1
  <2>7. CASE \E t \in Threads : Snapshot(t)
    BY <2>0, <2>5, <2>7 DEF Snapshot
  <2>8. CASE \E t \in Threads : WriteFile(t)
    BY <2>0, <2>6, <2>8 DEF WriteFile
  <2>9. CASE \E t \in Threads : WriteError(t)
    BY <2>0, <2>6, <2>9 DEF WriteError
  <2>10. CASE ReadPaused
    BY <2>0, <2>10, <2>d, <2>n DEF ReadPaused
  <2>11. CASE \E d \in Dirs : ReadDir(d)
    BY <2>0, <2>11, <2>d, <2>n DEF ReadDir
  <2>12. CASE ListDirs
    BY <2>0, <2>12, <2>d, <2>n DEF ListDirs
  <2>13. CASE \E t \in Threads, d \in Dirs : Status(t, d)
    BY <2>0, <2>13, <2>d, <2>n DEF Status
  <2>14. CASE Tick
    BY <2>0, <2>14 DEF Tick
  <2>15. CASE Sleep
    <3>1. \A w \in Until, g \in Until, n \in Nat : FileBound(w, g, n) => FileBound(w, g, n + 1)
      BY PauseAssumption DEF FileBound, Until
    <3>2. disk[s] \in Until /\ granted[s] \in Until /\ slept \in Nat /\ \A t \in Threads : snap[t][s] \in Until
      BY DEF TypeOK
    <3> QED  BY <2>0, <2>15, <3>1, <3>2 DEF Sleep
  <2>16. CASE UNCHANGED vars
    BY <2>0, <2>16 DEF vars
  <2> QED  BY <2>1, <2>2, <2>3, <2>4, <2>7, <2>8, <2>9, <2>10, <2>11, <2>12, <2>13, <2>14, <2>15, <2>16 DEF Next
<1>3. TypeOK /\ BoundInv => PauseBounded
  <2> SUFFICES ASSUME TypeOK, BoundInv, NEW s \in Scopes, InForce(s) \/ OnDisk(s)
               PROVE  granted[s] # NoPause /\ Running(granted[s], 1 + awake)
    BY DEF PauseBounded
  <2>1. mem[s] \in Until /\ disk[s] \in Until /\ granted[s] \in Until /\ awake \in Nat /\ boot \in Nat /\ slept \in Nat
    BY DEF TypeOK
  <2>2. CASE InForce(s)
    <3>1. MemBound(mem[s], granted[s], boot) /\ Running(mem[s], 1 + awake - boot)
      BY <2>2 DEF BoundInv, InForce, Mono
    <3> QED  BY <2>1, <3>1 DEF MemBound, Running, Until
  <2>3. CASE OnDisk(s)
    <3>1. FileBound(disk[s], granted[s], slept) /\ Running(disk[s], 1 + awake + slept)
      BY <2>3 DEF BoundInv, OnDisk, Wall
    <3> QED  BY <2>1, <3>1 DEF FileBound, Running, Until
  <2> QED  BY <2>2, <2>3
<1> QED  BY <1>1, <1>2, <1>3, TypeCorrect, PTL DEF Spec

-----------------------------------------------------------------------------
(* At most one command is under way: one handler thread.                       *)
OneCommandAtATime == \A t, u \in Threads : t = u

(* A deadline of the file that is still in force lies within the one in        *)
(* memory, whose clock is behind the wall clock by lag.                        *)
Within(w, m, wall, lag) ==
    Running(w, wall) => m # NoPause /\ (w = 0 => m = 0) /\ (m # 0 => w =< m + lag)

FreshInv ==
    /\ "disk" \in fresh => \A s \in Scopes : Within(disk[s], mem[s], Wall, slept + boot)
    /\ \A t \in Threads : t \in fresh =>
           \A s \in Scopes : Within(snap[t][s], mem[s], Wall, slept + boot)
    /\ \A t \in Threads : pc[t] = "write" => t \in fresh
    /\ Quiet /\ ~failed => "disk" \in fresh

(* What the file says of a pause in force, the memory says too.                *)
LEMMA WithinInForce ==
    ASSUME TypeOK, NEW w \in Until, NEW m \in Until, Within(w, m, Wall, slept + boot), Running(w, Wall)
    PROVE  Running(m, Mono)
<1>1. Wall \in Nat /\ Mono \in Nat /\ slept \in Nat /\ boot \in Nat /\ Wall = Mono + slept + boot
  BY Clocks DEF TypeOK
<1>2. CASE m = 0
  BY <1>2, PauseAssumption DEF Running
<1>3. CASE m # 0
  <2>1. m \in Nat /\ w \in Nat /\ w # 0 /\ Wall < w /\ w =< m + (slept + boot)
    BY <1>3 DEF Within, Running, Until
  <2>2. Mono < m
    BY <1>1, <2>1
  <2> QED  BY <2>1, <2>2, PauseAssumption DEF Running
<1> QED  BY <1>2, <1>3

(* Forgetting an expired pause does not let the file get ahead.                *)
LEMMA DropWithin ==
    ASSUME TypeOK, NEW S, S \subseteq {s \in Scopes : Expired(s)}, Drop(S),
           NEW s \in Scopes, NEW w \in Until, Within(w, mem[s], Wall, slept + boot)
    PROVE  Within(w, mem'[s], Wall, slept + boot)
<1>1. CASE s \in S
  <2>1. mem[s] \in Until /\ ~Running(mem[s], Mono)
    BY <1>1 DEF Expired, InForce, TypeOK
  <2>2. ~Running(w, Wall)
    BY <2>1, WithinInForce
  <2> QED  BY <2>2 DEF Within
<1>2. CASE s \notin S
  BY <1>2 DEF Drop
<1> QED  BY <1>1, <1>2

(* Time that passes keeps the file within the memory.                          *)
LEMMA TimeWithin ==
    ASSUME NEW w \in Until, NEW m \in Until, NEW wall \in Nat, NEW lag \in Nat,
           NEW more \in {lag, lag + 1}, Within(w, m, wall, lag)
    PROVE  Within(w, m, wall + 1, more)
<1> SUFFICES ASSUME Running(w, wall + 1)
             PROVE  m # NoPause /\ (w = 0 => m = 0) /\ (m # 0 => w =< m + more)
  BY DEF Within
<1>1. Running(w, wall)
  BY PauseAssumption DEF Running, Until
<1>2. m # NoPause /\ (w = 0 => m = 0) /\ (m # 0 => w =< m + lag)
  BY <1>1 DEF Within
<1>3. m \in Nat /\ w \in Nat
  BY <1>1, <1>2 DEF Until, Running
<1> QED  BY <1>2, <1>3

(* What a start restores, and what a copy holds, is the same pause.            *)
LEMMA RestoredWithin ==
    ASSUME TypeOK, NEW s \in Scopes, NEW b \in 0..awake
    PROVE  Within(disk[s], Restored(disk[s], 1 + awake - b), Wall, slept + b)
<1> SUFFICES ASSUME Running(disk[s], Wall), disk[s] # 0
             PROVE  Within(disk[s], Restored(disk[s], 1 + awake - b), Wall, slept + b)
  BY PauseAssumption DEF Within, Restored
<1>1. awake \in Nat /\ slept \in Nat /\ b \in Nat /\ b =< awake
  BY DEF TypeOK
<1>2. disk[s] \in Nat /\ 1 + awake + slept < disk[s]
  BY DEF TypeOK, Running, Until, Wall
<1>3. Restored(disk[s], 1 + awake - b) = disk[s] - slept - b
  BY <1>1, <1>2 DEF Restored, Wall
<1>4. disk[s] - slept - b \in Nat /\ disk[s] =< (disk[s] - slept - b) + (slept + b)
  BY <1>1, <1>2
<1> QED  BY <1>3, <1>4, PauseAssumption DEF Within

LEMMA PersistedWithin ==
    ASSUME TypeOK, NEW s \in Scopes
    PROVE  Within(Persisted(mem[s]), mem[s], Wall, slept + boot)
<1>1. mem[s] \in Until
  BY DEF TypeOK
<1>2. Wall \in Nat /\ Mono \in Nat /\ slept \in Nat /\ boot \in Nat /\ Wall = Mono + slept + boot
  BY Clocks DEF TypeOK
<1>3. CASE mem[s] \in Nat /\ mem[s] # 0
  <2>1. Persisted(mem[s]) = Wall + (mem[s] - Mono)
    BY <1>3, PauseAssumption DEF Persisted
  <2>2. Wall + (mem[s] - Mono) = mem[s] + (slept + boot) /\ mem[s] + (slept + boot) # 0
    BY <1>2, <1>3
  <2>3. mem[s] + (slept + boot) \in Nat
    BY <1>2, <1>3
  <2> QED  BY <1>3, <2>1, <2>2, <2>3, PauseAssumption DEF Within
<1>4. CASE mem[s] = NoPause \/ mem[s] = 0
  BY <1>4, <1>2, PauseAssumption DEF Persisted, Within, Running
<1> QED  BY <1>1, <1>3, <1>4 DEF Until

(* The invariant holds when commands do not overlap: a copy is written before  *)
(* a later command changes what it was made from.                              *)
LEMMA FreshInvariant ==
    ASSUME OneCommandAtATime
    PROVE  Spec => []FreshInv
<1>1. Init => FreshInv
  BY DEF Init, FreshInv, Nothing, Within, Running, Quiet
<1>2. TypeOK /\ TypeOK' /\ FreshInv /\ [Next]_vars => FreshInv'
  <2> SUFFICES ASSUME TypeOK, TypeOK', FreshInv, [Next]_vars
               PROVE  FreshInv'
    OBVIOUS
  <2> DEFINE W(w, s) == Within(w, mem[s], Wall, slept + boot)
             Ordinary == UNCHANGED <<awake, slept, boot>>
  <2>t. /\ \A s \in Scopes : disk[s] \in Until /\ mem[s] \in Until
        /\ \A t \in Threads, s \in Scopes : snap[t][s] \in Until
        /\ awake \in Nat /\ slept \in Nat /\ boot \in Nat /\ Wall \in Nat
        /\ fresh \subseteq Threads \cup {"disk"}
    BY Clocks DEF TypeOK
  <2>w. Ordinary => Wall' = Wall
    BY DEF Wall
  <2>1. CASE StartDaemon
    <3>1. boot' \in 0..awake /\ Wall' = Wall
      BY <2>1 DEF StartDaemon, TypeOK, Wall
    <3>2. \A s \in Scopes : mem'[s] = Restored(disk[s], 1 + awake - boot')
      BY <2>1 DEF StartDaemon
    <3>3. \A s \in Scopes : Within(disk[s], mem'[s], Wall, slept + boot')
      BY <3>1, <3>2, RestoredWithin
    <3>4. \A t \in Threads : t \notin fresh' /\ pc'[t] # "write"
      BY <2>1, PauseAssumption DEF StartDaemon
    <3> QED  BY <2>1, <3>1, <3>3, <3>4 DEF StartDaemon, FreshInv
  <2>2. CASE Crash
    BY <2>2, <2>w DEF Crash, FreshInv, Quiet
  <2>3. ASSUME NEW t \in Threads, fresh' = {}, pc[t] = "idle",
               pc' = [pc EXCEPT ![t] = "persist"]
        PROVE  FreshInv'
    <3>1. ~Quiet' /\ \A u \in Threads : pc'[u] # "write"
      BY <2>3 DEF OneCommandAtATime, Quiet, TypeOK
    <3> QED  BY <2>3, <3>1 DEF FreshInv
  <2>4. CASE \E t \in Threads, s \in Scopes, minutes \in Durations : Order(t, s, minutes)
    BY <2>3, <2>4 DEF Order
  <2>5. CASE \E t \in Threads, s \in Scopes : Cancel(t, s)
    BY <2>3, <2>5 DEF Cancel
  <2>6. ASSUME NEW t \in Threads, Snapshot(t)
        PROVE  FreshInv'
    <3>1. \A s \in Scopes : snap'[t][s] = Persisted(mem[s])
      BY <2>6 DEF Snapshot, TypeOK
    <3>2. \A s \in Scopes : W(snap'[t][s], s)
      BY <3>1, PersistedWithin
    <3>3. \A u \in Threads : u # t => snap'[u] = snap[u] /\ pc'[u] = pc[u]
      BY <2>6 DEF Snapshot, TypeOK
    <3>4. pc'[t] = "write" /\ fresh' = fresh \cup {t} /\ ~Quiet'
      BY <2>6 DEF Snapshot, TypeOK, Quiet
    <3>5. UNCHANGED <<awake, slept, boot, mem, disk>> /\ Wall' = Wall
      BY <2>6, <2>w DEF Snapshot
    <3> QED  BY <3>2, <3>3, <3>4, <3>5, PauseAssumption DEF FreshInv
  <2>7. ASSUME NEW t \in Threads, WriteFile(t)
        PROVE  FreshInv'
    <3>1. t \in fresh
      BY <2>7 DEF WriteFile, FreshInv
    <3>2. fresh' = (fresh \ {t, "disk"}) \cup {"disk"} /\ disk' = snap[t]
      BY <2>7, <3>1 DEF WriteFile
    <3>3. \A s \in Scopes : W(disk'[s], s)
      BY <3>1, <3>2 DEF FreshInv
    <3>4. \A u \in Threads : u = t /\ u \notin fresh' /\ pc'[u] = "idle"
      BY <2>7, <3>2, PauseAssumption DEF WriteFile, OneCommandAtATime, TypeOK
    <3>5. UNCHANGED <<awake, slept, boot, mem>> /\ Wall' = Wall
      BY <2>7, <2>w DEF WriteFile
    <3> QED  BY <3>2, <3>3, <3>4, <3>5 DEF FreshInv
  <2>8. ASSUME NEW t \in Threads, WriteError(t)
        PROVE  FreshInv'
    <3>1. \A u \in Threads : u = t /\ u \notin fresh' /\ pc'[u] = "idle"
      BY <2>8 DEF WriteError, OneCommandAtATime, TypeOK
    <3>2. UNCHANGED <<awake, slept, boot, mem, disk>> /\ Wall' = Wall /\ failed'
      BY <2>8, <2>w DEF WriteError
    <3>3. "disk" \in fresh' => "disk" \in fresh
      BY <2>8 DEF WriteError
    <3> QED  BY <3>1, <3>2, <3>3 DEF FreshInv
  <2>9. ASSUME NEW S, S \subseteq {s \in Scopes : Expired(s)}, Drop(S),
               UNCHANGED <<awake, slept, boot, up, disk, snap, fresh, failed>>,
               \A t \in Threads : pc'[t] = pc[t] \/ (pc[t] = "idle" /\ pc'[t] = "persist")
        PROVE  FreshInv'
    <3>1. \A s \in Scopes, w \in Until : W(w, s) => Within(w, mem'[s], Wall, slept + boot)
      BY <2>9, DropWithin
    <3>2. Wall' = Wall
      BY <2>9, <2>w
    <3>3. "disk" \in fresh' => \A s \in Scopes : Within(disk'[s], mem'[s], Wall', slept' + boot')
      BY <2>9, <2>t, <3>1, <3>2 DEF FreshInv
    <3>4. \A t \in Threads : t \in fresh' =>
             \A s \in Scopes : Within(snap'[t][s], mem'[s], Wall', slept' + boot')
      BY <2>9, <2>t, <3>1, <3>2 DEF FreshInv
    <3>5. (\A t \in Threads : pc'[t] = "write" => pc[t] = "write") /\ (Quiet' => Quiet)
      BY <2>9 DEF Quiet
    <3> QED  BY <2>9, <3>3, <3>4, <3>5 DEF FreshInv
  <2>10. CASE ReadPaused
    <3>1. {Global} \subseteq {s \in Scopes : Expired(s)}
      BY <2>10 DEF ReadPaused, Scopes
    <3> QED  BY <2>9, <2>10, <3>1 DEF ReadPaused
  <2>11. ASSUME NEW d \in Dirs, ReadDir(d)
         PROVE  FreshInv'
    <3>1. {d} \subseteq {s \in Scopes : Expired(s)}
      BY <2>11 DEF ReadDir, Scopes
    <3> QED  BY <2>9, <2>11, <3>1 DEF ReadDir
  <2>12. CASE ListDirs
    <3>1. {d \in Dirs : Expired(d)} \subseteq {s \in Scopes : Expired(s)}
      BY DEF Scopes
    <3> QED  BY <2>9, <2>12, <3>1 DEF ListDirs
  <2>13. ASSUME NEW t \in Threads, NEW d \in Dirs, Status(t, d)
         PROVE  FreshInv'
    <3> DEFINE gone == {s \in {Global, d} : Expired(s)}
    <3>1. gone \subseteq {s \in Scopes : Expired(s)} /\ Drop(gone)
      BY <2>13 DEF Status, Scopes
    <3>2. \A u \in Threads : pc'[u] = pc[u] \/ (pc[u] = "idle" /\ pc'[u] = "persist")
      BY <2>13 DEF Status, TypeOK
    <3>3. UNCHANGED <<awake, slept, boot, up, disk, snap, fresh, failed>>
      BY <2>13 DEF Status
    <3> HIDE DEF gone
    <3> QED  BY <2>9, <3>1, <3>2, <3>3
  <2>14. ASSUME Tick \/ Sleep
         PROVE  FreshInv'
    <3> DEFINE lag == slept + boot
               more == slept' + boot'
    <3>1. UNCHANGED <<boot, up, mem, disk, pc, snap, granted, fresh, failed>>
      BY <2>14 DEF Tick, Sleep
    <3>2. Wall' = Wall + 1 /\ more \in {lag, lag + 1} /\ lag \in Nat
      <4>1. CASE Tick
        BY <2>t, <4>1 DEF Tick, Wall
      <4>2. CASE Sleep
        BY <2>t, <4>2 DEF Sleep, Wall
      <4> QED  BY <2>14, <4>1, <4>2
    <3> HIDE DEF lag, more
    <3>3. \A w \in Until, s \in Scopes : Within(w, mem[s], Wall, lag) => Within(w, mem[s], Wall + 1, more)
      BY <2>t, <3>2, TimeWithin
    <3>4. \A w \in Until, s \in Scopes : W(w, s) => Within(w, mem'[s], Wall', slept' + boot')
      BY <3>1, <3>2, <3>3 DEF lag, more
    <3> QED  BY <2>t, <3>1, <3>4 DEF FreshInv, Quiet
  <2>15. CASE UNCHANGED vars
    BY <2>15, <2>w DEF vars, FreshInv, Quiet
  <2> QED  BY <2>1, <2>2, <2>4, <2>5, <2>6, <2>7, <2>8, <2>10, <2>11, <2>12, <2>13, <2>14, <2>15 DEF Next
<1> QED  BY <1>1, <1>2, TypeCorrect, PTL DEF Spec

(* When commands do not overlap and no write has just failed, a hook process   *)
(* that falls back to the pause file never skips a scan the daemon would have  *)
(* made (is_paused_on_disk against paused and is_dir_paused).                  *)
THEOREM FallbackSafe ==
    ASSUME OneCommandAtATime
    PROVE  Spec => []FallbackFailsSafe
<1>1. TypeOK /\ FreshInv => FallbackFailsSafe
  <2> SUFFICES ASSUME TypeOK, FreshInv, Quiet, ~failed, NEW d \in Dirs, PausedOnDisk(d)
               PROVE  PausedInDaemon(d)
    BY DEF FallbackFailsSafe
  <2>1. \A s \in Scopes : OnDisk(s) => InForce(s)
    BY WithinInForce DEF FreshInv, OnDisk, InForce, TypeOK
  <2> QED  BY <2>1 DEF PausedOnDisk, PausedInDaemon, Scopes
<1> QED  BY <1>1, FreshInvariant, TypeCorrect, PTL

-----------------------------------------------------------------------------
(* The other direction, on a machine that is never suspended: a pause in       *)
(* memory that is in force is in the file, and lasts no shorter there.         *)
Covers(w, m, mono, lag) ==
    Running(m, mono) => w # NoPause /\ (m = 0 => w = 0) /\ (w # 0 => m + lag =< w)

CoverInv ==
    slept = 0 =>
        /\ "disk" \in fresh => \A s \in Scopes : Covers(disk[s], mem[s], Mono, boot)
        /\ \A t \in Threads : t \in fresh =>
               \A s \in Scopes : Covers(snap[t][s], mem[s], Mono, boot)

LEMMA CoversInForce ==
    ASSUME TypeOK, slept = 0, NEW w \in Until, NEW m \in Until,
           Covers(w, m, Mono, boot), Running(m, Mono)
    PROVE  Running(w, Wall)
<1>1. Wall \in Nat /\ Mono \in Nat /\ boot \in Nat /\ Wall = Mono + boot
  BY Clocks DEF TypeOK
<1>2. CASE w = 0
  BY <1>2, PauseAssumption DEF Running
<1>3. CASE w # 0
  <2>1. m \in Nat /\ w \in Nat /\ m # 0 /\ Mono < m /\ m + boot =< w
    BY <1>3 DEF Covers, Running, Until
  <2>2. Wall < w
    BY <1>1, <2>1
  <2> QED  BY <2>1, <2>2, PauseAssumption DEF Running
<1> QED  BY <1>2, <1>3

(* What a start restores and what a copy holds are covered.                    *)
LEMMA RestoredCovered ==
    ASSUME TypeOK, slept = 0, NEW s \in Scopes, NEW b \in 0..awake
    PROVE  Covers(disk[s], Restored(disk[s], 1 + awake - b), 1 + awake - b, b)
<1>1. awake \in Nat /\ b \in Nat /\ b =< awake /\ disk[s] \in Until
  BY DEF TypeOK
<1>2. CASE ~Running(disk[s], Wall)
  BY <1>2, PauseAssumption DEF Covers, Restored, Running
<1>3. CASE Running(disk[s], Wall) /\ disk[s] = 0
  BY <1>3, PauseAssumption DEF Covers, Restored
<1>4. CASE Running(disk[s], Wall) /\ disk[s] # 0
  <2>1. disk[s] \in Nat /\ 1 + awake < disk[s]
    BY <1>1, <1>4 DEF Running, Until, Wall
  <2>2. Restored(disk[s], 1 + awake - b) = disk[s] - b
    BY <1>1, <1>4, <2>1 DEF Restored, Wall
  <2>3. disk[s] - b \in Nat /\ disk[s] - b # 0 /\ (disk[s] - b) + b = disk[s]
    BY <1>1, <2>1
  <2> QED  BY <2>1, <2>2, <2>3, PauseAssumption DEF Covers
<1> QED  BY <1>2, <1>3, <1>4

LEMMA PersistedCovers ==
    ASSUME TypeOK, slept = 0, NEW s \in Scopes
    PROVE  Covers(Persisted(mem[s]), mem[s], Mono, boot)
<1>1. mem[s] \in Until
  BY DEF TypeOK
<1>2. Wall \in Nat /\ Mono \in Nat /\ boot \in Nat /\ Wall = Mono + boot
  BY Clocks DEF TypeOK
<1>3. CASE mem[s] \in Nat /\ mem[s] # 0
  <2>1. Persisted(mem[s]) = mem[s] + boot
    BY <1>2, <1>3, PauseAssumption DEF Persisted
  <2>2. mem[s] + boot \in Nat
    BY <1>2, <1>3
  <2> QED  BY <1>2, <1>3, <2>1, <2>2, PauseAssumption DEF Covers
<1>4. CASE mem[s] = NoPause \/ mem[s] = 0
  BY <1>4, <1>2, PauseAssumption DEF Persisted, Covers, Running
<1> QED  BY <1>1, <1>3, <1>4 DEF Until

(* A pause that is over needs no cover, and time only ends pauses.             *)
LEMMA CoversLater ==
    ASSUME NEW w, NEW m \in Until, NEW mono \in Nat, NEW lag, Covers(w, m, mono, lag)
    PROVE  Covers(w, m, mono + 1, lag) /\ Covers(w, NoPause, mono, lag)
BY PauseAssumption DEF Covers, Running, Until

LEMMA CoverStep ==
    ASSUME TypeOK, TypeOK', FreshInv, CoverInv, [Next]_vars
    PROVE  CoverInv'
<1> SUFFICES ASSUME slept' = 0 PROVE CoverInv'
  BY DEF CoverInv
<1>t. /\ awake \in Nat /\ boot \in Nat /\ slept \in Nat /\ Mono \in Nat
      /\ \A s \in Scopes : mem[s] \in Until
  BY Clocks DEF TypeOK
<1>0. slept = 0
  <2>1. CASE Sleep
    BY <2>1, <1>t DEF Sleep
  <2>2. CASE \/ StartDaemon \/ Crash \/ ReadPaused \/ ListDirs \/ Tick \/ UNCHANGED vars
    BY <2>2 DEF StartDaemon, Crash, ReadPaused, ListDirs, Tick, vars
  <2>3. CASE \/ \E t \in Threads, s \in Scopes, minutes \in Durations : Order(t, s, minutes)
             \/ \E t \in Threads, s \in Scopes : Cancel(t, s)
             \/ \E t \in Threads : Snapshot(t) \/ WriteFile(t) \/ WriteError(t)
    BY <2>3 DEF Order, Cancel, Snapshot, WriteFile, WriteError
  <2>4. CASE (\E d \in Dirs : ReadDir(d)) \/ (\E t \in Threads, d \in Dirs : Status(t, d))
    BY <2>4 DEF ReadDir, Status
  <2> QED  BY <2>1, <2>2, <2>3, <2>4 DEF Next
<1>m. UNCHANGED <<awake, boot>> => Mono' = Mono
  BY DEF Mono
<1>1. CASE StartDaemon
  <2>1. boot' \in 0..awake /\ Mono' = 1 + awake - boot'
    BY <1>1 DEF StartDaemon, TypeOK, Mono
  <2>2. \A s \in Scopes : Covers(disk[s], mem'[s], Mono', boot')
    BY <1>0, <1>1, <2>1, RestoredCovered DEF StartDaemon
  <2> QED  BY <1>1, <2>2, PauseAssumption DEF StartDaemon, CoverInv
<1>2. CASE Crash
  BY <1>0, <1>2, <1>m DEF Crash, CoverInv
<1>3. CASE \/ \E t \in Threads, s \in Scopes, minutes \in Durations : Order(t, s, minutes)
           \/ \E t \in Threads, s \in Scopes : Cancel(t, s)
  BY <1>3 DEF Order, Cancel, CoverInv
<1>4. ASSUME NEW t \in Threads, Snapshot(t)
      PROVE  CoverInv'
  <2>1. \A s \in Scopes : Covers(snap'[t][s], mem[s], Mono, boot)
    BY <1>0, <1>4, PersistedCovers DEF Snapshot, TypeOK
  <2>2. \A u \in Threads : u # t => snap'[u] = snap[u]
    BY <1>4 DEF Snapshot, TypeOK
  <2>3. UNCHANGED <<awake, boot, mem, disk>> /\ Mono' = Mono /\ fresh' = fresh \cup {t} /\ t # "disk"
    BY <1>4, <1>m, PauseAssumption DEF Snapshot
  <2> QED  BY <1>0, <2>1, <2>2, <2>3 DEF CoverInv
<1>5. ASSUME NEW t \in Threads, WriteFile(t)
      PROVE  CoverInv'
  <2>1. t \in fresh /\ disk' = snap[t] /\ UNCHANGED <<awake, boot, mem>> /\ Mono' = Mono
    BY <1>5, <1>m DEF WriteFile, FreshInv
  <2>2. \A u \in Threads : u \in fresh' => u \in fresh /\ snap'[u] = snap[u]
    BY <1>5, PauseAssumption DEF WriteFile, TypeOK
  <2> QED  BY <1>0, <2>1, <2>2 DEF CoverInv
<1>6. ASSUME NEW t \in Threads, WriteError(t)
      PROVE  CoverInv'
  <2>1. UNCHANGED <<awake, boot, mem, disk>> /\ Mono' = Mono /\ fresh' = fresh \ {t}
    BY <1>6, <1>m DEF WriteError
  <2>2. \A u \in Threads : u \in fresh' => u \in fresh /\ snap'[u] = snap[u]
    BY <1>6 DEF WriteError, TypeOK
  <2> QED  BY <1>0, <2>1, <2>2 DEF CoverInv
<1>7. ASSUME NEW S, Drop(S), UNCHANGED <<awake, boot, disk, snap, fresh>>
      PROVE  CoverInv'
  <2>1. \A s \in Scopes : mem'[s] = mem[s] \/ mem'[s] = NoPause
    BY <1>7 DEF Drop
  <2>2. \A s \in Scopes : \A w : Covers(w, mem[s], Mono, boot) => Covers(w, mem'[s], Mono, boot)
    BY <1>t, <2>1, CoversLater
  <2> QED  BY <1>0, <1>7, <1>m, <2>2 DEF CoverInv
<1>8. CASE \/ ReadPaused \/ \E d \in Dirs : ReadDir(d)
           \/ ListDirs \/ \E t \in Threads, d \in Dirs : Status(t, d)
  BY <1>7, <1>8 DEF ReadPaused, ReadDir, ListDirs, Status
<1>9. CASE Tick
  <2>1. Mono' = Mono + 1 /\ UNCHANGED <<boot, mem, disk, snap, fresh>>
    BY <1>9, <1>t DEF Tick, Mono
  <2>2. \A s \in Scopes : \A w : Covers(w, mem[s], Mono, boot) => Covers(w, mem[s], Mono + 1, boot)
    BY <1>t, CoversLater
  <2> QED  BY <1>0, <2>1, <2>2 DEF CoverInv
<1>10. CASE Sleep
  BY <1>10, <1>0 DEF Sleep
<1>11. CASE UNCHANGED vars
  BY <1>0, <1>11, <1>m DEF vars, CoverInv
<1> QED
  BY <1>1, <1>2, <1>3, <1>4, <1>5, <1>6, <1>8, <1>9, <1>10, <1>11 DEF Next

(* When commands do not overlap, a pause that was answered survives a crash:   *)
(* the file has every pause of the daemon's memory, for as long, through       *)
(* restarts and reboots of a machine that is not suspended, unless the last    *)
(* write failed (_persist_pause_state and _load_pause_state).                  *)
THEOREM PausesSurvive ==
    ASSUME OneCommandAtATime
    PROVE  Spec => []PauseSurvives
<1>1. Init => CoverInv
  BY PauseAssumption DEF Init, CoverInv, Nothing, Covers, Running
<1>2. TypeOK /\ TypeOK' /\ FreshInv /\ CoverInv /\ [Next]_vars => CoverInv'
  BY CoverStep
<1>3. TypeOK /\ FreshInv /\ CoverInv => PauseSurvives
  <2> SUFFICES ASSUME TypeOK, FreshInv, CoverInv, Quiet, ~failed, slept = 0,
                      NEW d \in Dirs, PausedInDaemon(d)
               PROVE  PausedOnDisk(d)
    BY DEF PauseSurvives
  <2>1. \A s \in Scopes : InForce(s) => OnDisk(s)
    BY CoversInForce DEF FreshInv, CoverInv, OnDisk, InForce, TypeOK
  <2> QED  BY <2>1 DEF PausedOnDisk, PausedInDaemon, Scopes
<1> QED  BY <1>1, <1>2, <1>3, FreshInvariant, TypeCorrect, PTL DEF Spec
=============================================================================

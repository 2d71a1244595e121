------------------------ MODULE ViolationMirrorProofs ------------------------
(* Theorems about ViolationMirror for every value of its constants: any number *)
(* of violations, any limit, any number of crashes and failures.               *)
EXTENDS ViolationMirror, FiniteSetTheorems, SequenceTheorems, TLAPS

Rotation == [step : {"none", "decide", "write", "orphan"},
             lines : SUBSET Nat, keep : SUBSET Nat, delete : BOOLEAN]

(* The tray holds what it has yet to write back.                               *)
InHand(e) ==
    /\ rot["tray"].step \in {"write", "orphan"}
    /\ \E k \in rot["tray"].keep : appended[k] = e

(* ImportedOnce is not inductive: it does not see why a record that was        *)
(* imported is not taken for a new one.  It is marked, or has expired, or can  *)
(* be found in the file, unless the tray itself is about to write it there;    *)
(* and the tray's copy of the index has all that the index has.                *)
Recognised ==
    \A e \in Imported : \/ e \in exposed \/ e \in index \/ e <= expired
                        \/ HasId(e) \/ InHand(e)

WritersHaveFile == \A p \in Processes : rot[p].step = "write" => exists

CopyIsCurrent == pc \in {"import", "mark"} => index \subseteq seen

RotatesAlone == pc \in {"idle", "import"} => Free

Typed == TypeOK /\ rot \in [Processes -> Rotation] /\ WritersHaveFile

IInv ==
    /\ Typed
    /\ RotatesAlone
    /\ CopyIsCurrent
    /\ Recognised
    /\ ImportedOnce

(* What a rotation works on are places in appended, and counts are numbers.    *)
LEMMA PlacesAreFinite ==
    ASSUME TypeOK, NEW S \in SUBSET DOMAIN appended
    PROVE  IsFiniteSet(S) /\ Cardinality(S) \in Nat
<1>1. Len(appended) \in Nat /\ DOMAIN appended = 1 .. Len(appended)
    BY DEF TypeOK
<1>2. IsFiniteSet(1 .. Len(appended))
    BY <1>1, FS_Interval
<1> QED
    BY <1>1, <1>2, FS_Subset, FS_CardinalityType

LEMMA PlacesOfRotations ==
    ASSUME Typed, NEW p \in Processes
    PROVE  rot[p].keep \subseteq DOMAIN appended /\ rot[p].lines \subseteq DOMAIN appended
BY DEF Typed, TypeOK

LEMMA UnmarkedWereImported ==
    ASSUME NEW K \in SUBSET DOMAIN appended
    PROVE  Unmarked(K) \subseteq Imported
BY DEF Unmarked, Imported

LEMMA TypeStart == Init => Typed
<1> SUFFICES ASSUME Init PROVE Typed
    OBVIOUS
<1> USE MirrorAssumption DEF Init
<1>1. appended \in Seq(1 .. logged) /\ Len(appended) = 0 /\ DOMAIN appended = {}
    OBVIOUS
<1>2. rot \in [Processes -> Rotation]
    BY DEF NoRotation, Rotation
<1>3. \A p \in Processes : /\ rot[p].step = "none"
                          /\ rot[p].keep = {} /\ rot[p].lines = {}
    BY DEF NoRotation
<1>4. /\ logged \in 0 .. MaxEvents /\ gone \in 0 .. logged /\ expired \in 0 .. logged
      /\ cleared \in 0 .. Len(appended) /\ faults \in 0 .. MaxFaults
    BY <1>1
<1>5. /\ file \subseteq DOMAIN appended /\ exists \in BOOLEAN /\ (file # {} => exists)
      /\ index \subseteq 1 .. logged /\ seen \subseteq 1 .. logged /\ todo \subseteq 1 .. logged
      /\ pc = "idle" /\ exposed \subseteq Imported /\ disturbed \in BOOLEAN
      /\ state \in State \cup {NoState}
    OBVIOUS
<1> QED
    BY <1>1, <1>2, <1>3, <1>4, <1>5 DEF Typed, TypeOK, WritersHaveFile

LEMMA TypeElsewhere == ASSUME Typed, Elsewhere PROVE Typed'
<1> USE DEF Typed, TypeOK, WritersHaveFile, Elsewhere, store, sync, history
<1>1. logged' \in 0 .. MaxEvents /\ logged <= logged'
    BY MirrorAssumption DEF Log, Drop, Age
<1>2. gone' \in 0 .. logged' /\ expired' \in 0 .. logged'
    BY MirrorAssumption DEF Log, Drop, Age
<1>3. 1 .. logged \subseteq 1 .. logged'
    BY <1>1, MirrorAssumption
<1>4. appended' \in Seq(1 .. logged')
    BY <1>3, SeqMonotonic
<1> QED
    BY <1>1, <1>2, <1>3, <1>4 DEF Imported

(* Ending and beginning a rotation.                                            *)
LEMMA TypeEnds ==
    ASSUME Typed, NEW p \in Processes, EndRotation(p), UNCHANGED appended
    PROVE  /\ rot' \in [Processes -> Rotation]
           /\ \A q \in Processes :
                  /\ rot'[q].step \in {"none", "decide", "write", "orphan"}
                  /\ rot'[q].keep \subseteq rot'[q].lines
                  /\ rot'[q].lines \subseteq DOMAIN appended'
BY DEF Typed, TypeOK, EndRotation, NoRotation, Rotation

LEMMA TypeBegins ==
    ASSUME Typed, NEW p \in Processes, NEW log, NEW F \in SUBSET Nat, NEW d \in BOOLEAN,
           rot' = BeginRotation(p, log, F, d)
    PROVE  /\ rot' \in [Processes -> Rotation]
           /\ \A q \in Processes :
                  /\ rot'[q].keep \subseteq rot'[q].lines
                  /\ rot'[q].lines \subseteq F \cup DOMAIN appended
<1>1. Retained(log, F) \subseteq F
    BY DEF Retained, Unexpired
<1> QED
    BY <1>1 DEF Typed, TypeOK, BeginRotation, Rotation

LEMMA TypeOrphans ==
    ASSUME Typed
    PROVE  /\ Orphaned \in [Processes -> Rotation]
           /\ \A q \in Processes :
                  /\ Orphaned[q].keep = rot[q].keep /\ Orphaned[q].lines = rot[q].lines
                  /\ Orphaned[q].step \in {rot[q].step, "orphan"}
                  /\ rot[q].step = "write" <=> Orphaned[q].step # rot[q].step
BY DEF Typed, TypeOK, Orphaned, Rotation

(* What the tray remembers of the file is well typed.                          *)
LEMMA TypeRemembers ==
    ASSUME Typed, NEW p, NEW size \in Nat, NEW count \in Nat, Remember(p, size, count)
    PROVE  state' \in State \cup {NoState}
<1>1. Larger(MaxEntries + 1, count + Batch) \in Nat
    BY MirrorAssumption DEF Larger
<1>2. [known |-> TRUE, size |-> size, count |-> count,
       next |-> Larger(MaxEntries + 1, count + Batch)] \in State
    BY <1>1 DEF State
<1>3. state \in State \cup {NoState}
    BY DEF Typed, TypeOK
<1> QED
    BY <1>2, <1>3 DEF Remember

(* A step that leaves source, index and synchronisation alone.                 *)
LEMMA TypeOfFile ==
    ASSUME Typed, UNCHANGED <<remote, appended, index, sync, faults>>,
           file' \subseteq DOMAIN appended, exists' \in BOOLEAN, file' # {} => exists',
           cleared' \in 0 .. Len(appended), state' \in State \cup {NoState},
           rot' \in [Processes -> Rotation],
           \A q \in Processes :
               /\ rot'[q].keep \subseteq rot'[q].lines
               /\ rot'[q].lines \subseteq DOMAIN appended
               /\ rot'[q].step = "write" => exists',
           exposed' \subseteq Imported, disturbed' \in BOOLEAN
    PROVE  Typed'
<1>1. \A q \in Processes : rot'[q].step \in {"none", "decide", "write", "orphan"}
    BY DEF Rotation
<1>2. Imported' = Imported
    BY DEF Imported
<1> QED
    BY <1>1, <1>2 DEF Typed, TypeOK, WritersHaveFile, remote, sync

LEMMA TypeRotate == ASSUME Typed, NEW p \in Processes, Rotate(p) PROVE Typed'
<1> USE DEF remote, store, sync, history, Typed, TypeOK, WritersHaveFile
<1>0. /\ IsFiniteSet(file) /\ Cardinality(file) \in Nat
      /\ IsFiniteSet(rot[p].keep) /\ Cardinality(rot[p].keep) \in Nat
      /\ rot[p].keep \subseteq DOMAIN appended
    BY PlacesAreFinite, PlacesOfRotations
<1>e. ASSUME EndRotation(p)
      PROVE  /\ rot' \in [Processes -> Rotation]
             /\ \A q \in Processes : rot'[q] = IF q = p THEN NoRotation ELSE rot[q]
    BY <1>e DEF EndRotation, NoRotation, Rotation
<1>1. CASE KeepAll(p)
  <2>1. state' \in State \cup {NoState}
      BY <1>0, <1>1, TypeRemembers DEF KeepAll
  <2>2. \A q \in Processes :
            /\ rot'[q].keep \subseteq rot'[q].lines /\ rot'[q].lines \subseteq DOMAIN appended
            /\ rot'[q].step = "write" => exists'
      BY <1>1, <1>e DEF KeepAll, NoRotation
  <2> QED
      BY <1>1, <1>e, <2>1, <2>2, TypeOfFile DEF KeepAll
<1>2. CASE RemoveEmpty(p)
  <2>1. exposed' \subseteq Imported
      BY <1>2, UnmarkedWereImported DEF RemoveEmpty
  <2>2. /\ rot' \in [Processes -> Rotation]
        /\ \A q \in Processes : rot'[q] = IF q = p THEN NoRotation ELSE Orphaned[q]
      BY <1>2, TypeOrphans DEF RemoveEmpty, NoRotation, Rotation
  <2>3. \A q \in Processes :
            /\ rot'[q].keep \subseteq rot'[q].lines /\ rot'[q].lines \subseteq DOMAIN appended
            /\ rot'[q].step # "write"
      BY <2>2, TypeOrphans DEF NoRotation
  <2> QED
      BY <1>2, <2>1, <2>2, <2>3, TypeOfFile DEF RemoveEmpty
<1>3. CASE FileHasGone(p)
  <2>1. \A q \in Processes :
            /\ rot'[q].keep \subseteq rot'[q].lines /\ rot'[q].lines \subseteq DOMAIN appended
            /\ rot'[q].step = "write" => exists'
      BY <1>3, <1>e DEF FileHasGone, NoRotation
  <2> QED
      BY <1>3, <1>e, <2>1, TypeOfFile DEF FileHasGone
<1>4. CASE Truncate(p)
  <2>1. exposed' \subseteq Imported
      BY <1>4, UnmarkedWereImported DEF Truncate
  <2>2. /\ rot' \in [Processes -> Rotation]
        /\ \A q \in Processes :
               rot'[q].keep \subseteq rot'[q].lines /\ rot'[q].lines \subseteq DOMAIN appended
      BY <1>4 DEF Truncate, Rotation
  <2> QED
      BY <1>4, <2>1, <2>2, TypeOfFile DEF Truncate
<1>5. CASE Write(p)
  <2> DEFINE kept == rot[p].keep \cup (file \ Overwritten(rot[p].keep))
  <2>1. exposed' \subseteq Imported
      BY <1>5, UnmarkedWereImported DEF Write, Overwritten
  <2>2. kept \subseteq DOMAIN appended
      BY <1>0
  <2>3. Cardinality(kept) \in Nat
      BY <2>2, PlacesAreFinite
  <2>4. state' \in State \cup {NoState}
      BY <1>0, <1>5, <2>3, TypeRemembers DEF Write
  <2>5. exists
      BY <1>5 DEF Write
  <2>6. \A q \in Processes :
            /\ rot'[q].keep \subseteq rot'[q].lines /\ rot'[q].lines \subseteq DOMAIN appended
      BY <1>5, <1>e DEF Write, NoRotation
  <2> QED
      BY <1>5, <1>e, <2>1, <2>2, <2>4, <2>5, <2>6, TypeOfFile DEF Write
<1>6. CASE WriteOrphan(p)
  <2>1. state' \in State \cup {NoState}
      BY <1>0, <1>6, TypeRemembers DEF WriteOrphan
  <2>2. exposed' \subseteq Imported
      BY <1>0, <1>6, UnmarkedWereImported DEF WriteOrphan
  <2>3. \A q \in Processes :
            /\ rot'[q].keep \subseteq rot'[q].lines /\ rot'[q].lines \subseteq DOMAIN appended
            /\ rot'[q].step = "write" => exists'
      BY <1>6, <1>e DEF WriteOrphan, NoRotation
  <2> QED
      BY <1>6, <1>e, <2>1, <2>2, <2>3, TypeOfFile DEF WriteOrphan
<1> QED
    BY <1>1, <1>2, <1>3, <1>4, <1>5, <1>6 DEF Rotate

LEMMA TypeReadHistory == ASSUME Typed, ReadHistory PROVE Typed'
<1> USE DEF ReadHistory, remote, store, sync, history
<1>1. "console" \in Processes /\ file \in SUBSET Nat /\ file \subseteq DOMAIN appended
    BY DEF Processes, Typed, TypeOK
<1>2. /\ rot' \in [Processes -> Rotation]
      /\ \A q \in Processes :
             rot'[q].keep \subseteq rot'[q].lines /\ rot'[q].lines \subseteq DOMAIN appended
    BY <1>1, TypeBegins
<1>3. state \in State \cup {NoState} /\ exposed \subseteq Imported
    BY DEF Typed, TypeOK
<1> QED
    BY <1>1, <1>2, <1>3, TypeOfFile DEF Typed, TypeOK

LEMMA TypeClear == ASSUME Typed, Clear PROVE Typed'
<1> USE DEF Clear, remote, store, sync
<1>1. exposed' \subseteq Imported
    BY UnmarkedWereImported DEF Typed, TypeOK
<1>2. \A q \in Processes :
          /\ rot'[q].keep \subseteq rot'[q].lines /\ rot'[q].lines \subseteq DOMAIN appended
          /\ rot'[q].step # "write"
    BY TypeOrphans DEF Typed, TypeOK
<1>3. /\ cleared' \in 0 .. Len(appended) /\ state' \in State \cup {NoState}
      /\ disturbed' \in BOOLEAN /\ rot' \in [Processes -> Rotation]
    BY TypeOrphans DEF Typed, TypeOK
<1> QED
    BY <1>1, <1>2, <1>3, TypeOfFile

LEMMA TypeStartSync == ASSUME Typed, StartSync PROVE Typed'
<1> USE DEF StartSync, remote, store, history
<1>1. "tray" \in Processes /\ file \in SUBSET Nat /\ file \subseteq DOMAIN appended
    BY DEF Processes, Typed, TypeOK
<1>2. CASE rot' = BeginRotation("tray", appended, file, TRUE) /\ exists
  <2>1. /\ rot' \in [Processes -> Rotation]
        /\ \A q \in Processes :
               rot'[q].keep \subseteq rot'[q].lines /\ rot'[q].lines \subseteq DOMAIN appended
      BY <1>1, <1>2, TypeBegins
  <2> QED
      BY <1>2, <2>1 DEF Typed, TypeOK, WritersHaveFile, Rotation, Imported, NoState
<1>3. CASE UNCHANGED rot
    BY <1>3 DEF Typed, TypeOK, WritersHaveFile, Imported, NoState
<1> QED
    BY <1>2, <1>3

(* Steps of the synchronisation that leave the file alone.                     *)
LEMMA TypeOfSync ==
    ASSUME Typed, UNCHANGED <<remote, store, state, rot, exposed, disturbed>>,
           pc' \in {"idle", "fetch", "import", "mark"}, pc' = "mark" => todo' # {},
           todo' \subseteq 1 .. logged, seen' \subseteq 1 .. logged, index' \subseteq 1 .. logged,
           faults' \in 0 .. MaxFaults
    PROVE  Typed'
BY DEF Typed, TypeOK, WritersHaveFile, remote, store, Imported

LEMMA TypeFault == ASSUME Typed, Fault PROVE faults' \in 0 .. MaxFaults
BY MirrorAssumption DEF Typed, TypeOK, Fault

LEMMA TypeSync ==
    ASSUME Typed,
           \/ Fetch \/ EndSync \/ SyncFails
           \/ \E e \in todo : SkipSeen(e) \/ PassOver(e) \/ Mark(e) \/ RecordFails(e)
    PROVE  Typed'
<1> USE DEF Typed, TypeOK, remote, store, history, NextRecord
<1>1. CASE Fetch
  <2>1. gone + 1 .. logged \subseteq 1 .. logged
      BY MirrorAssumption
  <2> QED
      BY <1>1, <2>1, TypeOfSync DEF Fetch
<1>2. CASE EndSync
    BY <1>2, TypeOfSync DEF EndSync
<1>3. CASE SyncFails
    BY <1>3, TypeFault, TypeOfSync DEF SyncFails
<1>4. ASSUME NEW e \in todo, SkipSeen(e) PROVE Typed'
    BY <1>4, TypeOfSync DEF SkipSeen
<1>5. ASSUME NEW e \in todo, PassOver(e) PROVE Typed'
    BY <1>5, TypeOfSync DEF PassOver
<1>6. ASSUME NEW e \in todo, Mark(e) PROVE Typed'
    BY <1>6, TypeOfSync DEF Mark
<1>7. ASSUME NEW e \in todo, RecordFails(e) PROVE Typed'
    BY <1>7, TypeFault, TypeOfSync DEF RecordFails
<1> QED
    BY <1>1, <1>2, <1>3, <1>4, <1>5, <1>6, <1>7

LEMMA TypeCutShort ==
    ASSUME Typed, NEW p \in Processes, RotationFails(p) \/ Crash(p)
    PROVE  Typed'
<1> USE DEF remote, store, sync
<1>1. exposed' \subseteq Imported /\ disturbed' \in BOOLEAN
    BY PlacesOfRotations, UnmarkedWereImported DEF RotationFails, Crash, CutShort, Typed, TypeOK
<1>0. /\ rot' \in [Processes -> Rotation]
      /\ \A q \in Processes : rot'[q] = IF q = p THEN NoRotation ELSE rot[q]
  <2>1. EndRotation(p)
      BY DEF RotationFails, Crash, CutShort
  <2> QED
      BY <2>1 DEF EndRotation, NoRotation, Rotation, Typed
<1>2. /\ rot' \in [Processes -> Rotation]
      /\ \A q \in Processes :
             /\ rot'[q].keep \subseteq rot'[q].lines /\ rot'[q].lines \subseteq DOMAIN appended
             /\ rot'[q].step \in {"none", "decide", "write", "orphan"}
             /\ rot'[q].step = "write" => exists
    BY <1>0 DEF NoRotation, Typed, TypeOK, WritersHaveFile
<1>3. faults' \in 0 .. MaxFaults
    BY TypeFault DEF RotationFails, Crash
<1> QED
    BY <1>1, <1>2, <1>3 DEF RotationFails, Crash, Typed, TypeOK, WritersHaveFile, Imported, NoState

(* What an append does to appended, file and counts.                           *)
LEMMA AppendedGrows ==
    ASSUME Typed, NEW e \in todo, Import(e)
    PROVE  /\ appended' \in Seq(1 .. logged)
           /\ Len(appended') = Len(appended) + 1
           /\ DOMAIN appended' = DOMAIN appended \cup {Len(appended) + 1}
           /\ appended'[Len(appended) + 1] = e
           /\ \A k \in DOMAIN appended : appended'[k] = appended[k]
           /\ Imported' = Imported \cup {e}
           /\ file' = file \cup {Len(appended) + 1}
           /\ Cardinality(file') \in Nat /\ Cardinality(file) \in Nat
           /\ Cardinality(file') >= Cardinality(file)
<1>a. todo \subseteq 1 .. logged /\ appended \in Seq(1 .. logged)
    BY DEF Typed, TypeOK
<1>1. appended \in Seq(1 .. logged) /\ e \in 1 .. logged /\ Len(appended) \in Nat
    BY <1>a, LenProperties
<1>2. /\ appended' \in Seq(1 .. logged)
      /\ Len(appended') = Len(appended) + 1
      /\ \A k \in 1 .. Len(appended) : appended'[k] = appended[k]
      /\ appended'[Len(appended) + 1] = e
    BY <1>1, AppendProperties DEF Import
<1>3. DOMAIN appended = 1 .. Len(appended) /\ DOMAIN appended' = 1 .. Len(appended) + 1
    BY <1>1, <1>2
<1>4. DOMAIN appended' = DOMAIN appended \cup {Len(appended) + 1}
    BY <1>1, <1>3
<1>5. Imported' = Imported \cup {e}
    BY <1>2, <1>3, <1>4 DEF Imported
<1>6. file' = file \cup {Len(appended) + 1} /\ IsFiniteSet(file) /\ Cardinality(file) \in Nat
    BY PlacesAreFinite DEF Import, Typed, TypeOK
<1>7. Cardinality(file') \in Nat /\ Cardinality(file') >= Cardinality(file)
  <2>1. Cardinality(file \cup {Len(appended) + 1}) \in {Cardinality(file), Cardinality(file) + 1}
      BY <1>6, FS_AddElement
  <2> QED
      BY <1>6, <2>1
<1> QED
    BY <1>2, <1>3, <1>4, <1>5, <1>6, <1>7

LEMMA TypeImport == ASSUME Typed, NEW e \in todo, Import(e) PROVE Typed'
<1> USE DEF remote, history
<1>1. /\ appended \in Seq(1 .. logged) /\ Len(appended) \in Nat
      /\ DOMAIN appended = 1 .. Len(appended)
    BY DEF Typed, TypeOK
<1>2. file' \subseteq DOMAIN appended' /\ file' \in SUBSET Nat /\ exists'
    BY <1>1, AppendedGrows DEF Import, Typed, TypeOK
<1>3. "tray" \in Processes
    BY DEF Processes
<1>4. /\ rot' \in [Processes -> Rotation]
      /\ \A q \in Processes :
             /\ rot'[q].keep \subseteq rot'[q].lines
             /\ rot'[q].lines \subseteq file' \cup DOMAIN appended
  <2>1. CASE rot' = BeginRotation("tray", appended', file', FALSE)
      BY <1>2, <1>3, <2>1, TypeBegins
  <2>2. CASE UNCHANGED rot
      BY <2>2 DEF Typed, TypeOK
  <2> QED
      BY <2>1, <2>2 DEF Import, Appended
<1>5. \A q \in Processes : rot'[q].lines \subseteq DOMAIN appended'
    BY <1>2, <1>4, AppendedGrows
<1>6. state' \in State \cup {NoState}
  <2>1. state \in State \cup {NoState} /\ Cardinality(file') \in Nat /\ Cardinality(file) \in Nat
        /\ Cardinality(file') >= Cardinality(file)
      BY AppendedGrows DEF Typed, TypeOK
  <2>2. CASE ~state.known /\ file = {}
    <3>1. \/ state' = [known |-> TRUE, size |-> Cardinality(file'), count |-> Cardinality(file'),
                      next |-> MaxEntries + 1]
          \/ state' = state
        BY <2>2, <2>1 DEF Import, Appended, State, NoState
    <3>2. [known |-> TRUE, size |-> Cardinality(file'), count |-> Cardinality(file'),
           next |-> MaxEntries + 1] \in State
        BY <2>1, MirrorAssumption DEF State
    <3> QED
        BY <2>1, <3>1, <3>2
  <2>3. CASE state' = state
      BY <2>1, <2>3
  <2>4. CASE state.known /\ Cardinality(file) >= state.size
    <3>1. state \in State
        BY <2>1, <2>4 DEF NoState
    <3>2. state.count + Cardinality(file') - state.size \in Nat
        BY <2>1, <2>4, <3>1 DEF State
    <3>3. \/ state' = state
          \/ state' = [state EXCEPT !.size = Cardinality(file'),
                                   !.count = state.count + Cardinality(file') - state.size]
        BY <2>1, <2>4, <3>1 DEF Import, Appended, State
    <3> QED
        BY <2>1, <3>1, <3>2, <3>3 DEF State
  <2> QED
      BY <2>2, <2>3, <2>4 DEF Import, Appended
<1>7. exposed' \subseteq Imported' /\ cleared' \in 0 .. Len(appended')
  <2>1. exposed \subseteq Imported /\ cleared \in 0 .. Len(appended)
      BY DEF Typed, TypeOK
  <2>2. exposed' = exposed /\ cleared' = cleared
      BY DEF Import
  <2> QED
      BY <1>1, <2>1, <2>2, AppendedGrows
<1>8. /\ appended' \in Seq(1 .. logged) /\ pc' = "mark" /\ todo' # {}
    BY AppendedGrows DEF Import
<1>9. \A q \in Processes : rot'[q].step \in {"none", "decide", "write", "orphan"}
    BY <1>4 DEF Rotation
<1> QED
    BY <1>2, <1>4, <1>5, <1>6, <1>7, <1>8, <1>9 DEF Import, Typed, TypeOK, WritersHaveFile

LEMMA TypeNext == ASSUME Typed, [Next]_vars PROVE Typed'
<1>1. CASE UNCHANGED vars
    BY <1>1 DEF vars, Typed, TypeOK, WritersHaveFile, Imported
<1>2. CASE Tray
  <2>1. ASSUME NEW e \in todo, Import(e) PROVE Typed'
      BY <2>1, TypeImport
  <2> QED
      BY <1>2, <2>1, TypeStartSync, TypeSync DEF Tray
<1>3. CASE \E e \in todo : RecordFails(e)
    BY <1>3, TypeSync
<1>4. CASE \E p \in Processes : Rotate(p)
    BY <1>4, TypeRotate
<1>5. CASE \E p \in Processes : RotationFails(p) \/ Crash(p)
    BY <1>5, TypeCutShort
<1> QED
    BY <1>1, <1>2, <1>3, <1>4, <1>5, TypeElsewhere, TypeReadHistory, TypeClear, TypeSync DEF Next

-----------------------------------------------------------------------------
(* A step that appends nothing: each record that was in the file or in hand    *)
(* is there still, is marked, or is counted as exposed.                        *)
StillKnown(k) ==
    \/ k \in file' \/ appended[k] \in exposed' \cup index
    \/ rot'["tray"].step \in {"write", "orphan"} /\ k \in rot'["tray"].keep

LEMMA StaysRecognised ==
    ASSUME Recognised, ImportedOnce,
           UNCHANGED <<appended, index, expired>>, exposed \subseteq exposed',
           \A k \in file : StillKnown(k),
           rot["tray"].step \in {"write", "orphan"} =>
               \A k \in rot["tray"].keep : StillKnown(k)
    PROVE  Recognised' /\ ImportedOnce'
<1>1. Imported' = Imported
    BY DEF Imported
<1>2. ASSUME NEW e \in Imported
      PROVE  \/ e \in exposed' \/ e \in index' \/ e <= expired' \/ HasId(e)' \/ InHand(e)'
  <2>1. CASE HasId(e)
      BY <2>1 DEF HasId, InHand, StillKnown
  <2>2. CASE InHand(e)
      BY <2>2 DEF HasId, InHand, StillKnown
  <2>3. CASE e \in exposed \/ e \in index \/ e <= expired
      BY <2>3
  <2> QED
      BY <2>1, <2>2, <2>3 DEF Recognised
<1>3. ImportedOnce'
    BY DEF ImportedOnce
<1> QED
    BY <1>1, <1>2, <1>3 DEF Recognised

LEMMA SafeRotate ==
    ASSUME IInv, NEW p \in Processes, Rotate(p)
    PROVE  RotatesAlone' /\ CopyIsCurrent' /\ Recognised' /\ ImportedOnce'
<1> USE DEF remote, store, sync, history
<1>0. /\ rot \in [Processes -> Rotation] /\ "tray" \in Processes
      /\ Recognised /\ ImportedOnce /\ RotatesAlone /\ CopyIsCurrent
    BY DEF IInv, Typed, Processes
<1>1. UNCHANGED <<appended, index, expired, pc, seen>> /\ exposed \subseteq exposed'
    BY DEF Rotate, KeepAll, RemoveEmpty, FileHasGone, Truncate, Write, WriteOrphan
<1>2. CopyIsCurrent'
    BY <1>0, <1>1 DEF CopyIsCurrent
<1>3. ASSUME EndRotation(p)
      PROVE  \A q \in Processes : rot'[q] = IF q = p THEN NoRotation ELSE rot[q]
    BY <1>0, <1>3 DEF EndRotation
<1>4. CASE KeepAll(p) \/ FileHasGone(p)
  <2>1. \A q \in Processes : rot'[q] = IF q = p THEN NoRotation ELSE rot[q]
      BY <1>3, <1>4 DEF KeepAll, FileHasGone
  <2>2. file' = file /\ rot[p].step = "decide"
      BY <1>4 DEF KeepAll, FileHasGone
  <2>3. RotatesAlone'
      BY <1>0, <1>1, <2>1 DEF RotatesAlone, Free, NoRotation
  <2>8. \A k \in file : StillKnown(k)
      BY <1>0, <2>1, <2>2, <2>3 DEF StillKnown
  <2>9. rot["tray"].step \in {"write", "orphan"} => \A k \in rot["tray"].keep : StillKnown(k)
      BY <1>0, <2>1, <2>2, <2>3 DEF StillKnown
  <2> QED
      BY <1>0, <1>1, <1>2, <2>3, <2>8, <2>9, StaysRecognised
<1>5. CASE RemoveEmpty(p)
  <2>1. \A q \in Processes : rot'[q] = IF q = p THEN NoRotation ELSE Orphaned[q]
      BY <1>0, <1>5, TypeOrphans DEF RemoveEmpty, IInv
  <2>2. RotatesAlone'
      BY <1>0, <1>1, <2>1, TypeOrphans DEF RotatesAlone, Free, NoRotation, IInv
  <2>3. \A k \in file : appended[k] \in exposed' \cup index
      BY <1>5 DEF RemoveEmpty, Unmarked
  <2>4. rot["tray"].step \in {"write", "orphan"} =>
            rot'["tray"].step = "orphan" /\ rot'["tray"].keep = rot["tray"].keep
      BY <1>0, <1>5, <2>1 DEF RemoveEmpty, Orphaned, Rotation
  <2>8. \A k \in file : StillKnown(k)
      BY <1>0, <2>2, <2>3, <2>4 DEF StillKnown
  <2>9. rot["tray"].step \in {"write", "orphan"} => \A k \in rot["tray"].keep : StillKnown(k)
      BY <1>0, <2>2, <2>3, <2>4 DEF StillKnown
  <2> QED
      BY <1>0, <1>1, <1>2, <2>2, <2>8, <2>9, StaysRecognised
<1>6. CASE Truncate(p)
  <2>1. /\ \A q \in Processes : rot'[q].keep = rot[q].keep
        /\ \A q \in Processes : rot'[q].step = IF q = p THEN "write" ELSE rot[q].step
      BY <1>0, <1>6 DEF Truncate, Rotation
  <2>2. RotatesAlone'
      BY <1>0, <1>1, <1>6, <2>1 DEF RotatesAlone, Free, Truncate
  <2>3. \A k \in file : \/ appended[k] \in exposed' \cup index
                        \/ p = "tray" /\ k \in rot[p].keep
    <3> DEFINE held == IF p = "tray" THEN rot[p].keep ELSE {}
    <3>1. exposed' = exposed \cup Unmarked(file \ held)
        BY <1>6 DEF Truncate
    <3>2. \A k \in file : k \in held \/ appended[k] \in exposed' \cup index
        BY <3>1 DEF Unmarked
    <3>3. held # {} => p = "tray" /\ held = rot[p].keep
        OBVIOUS
    <3> HIDE DEF held
    <3> QED
        BY <3>2, <3>3
  <2>8. \A k \in file : StillKnown(k)
      BY <1>0, <2>1, <2>2, <2>3 DEF StillKnown
  <2>9. rot["tray"].step \in {"write", "orphan"} => \A k \in rot["tray"].keep : StillKnown(k)
      BY <1>0, <2>1, <2>2, <2>3 DEF StillKnown
  <2> QED
      BY <1>0, <1>1, <1>2, <2>2, <2>8, <2>9, StaysRecognised
<1>7. CASE Write(p)
  <2>1. \A q \in Processes : rot'[q] = IF q = p THEN NoRotation ELSE rot[q]
      BY <1>3, <1>7 DEF Write
  <2>2. RotatesAlone'
      BY <1>0, <1>1, <2>1 DEF RotatesAlone, Free, NoRotation
  <2>3. \A k \in file : k \in file' \/ appended[k] \in exposed' \cup index
      BY <1>7 DEF Write, Unmarked
  <2>4. \A k \in rot[p].keep : k \in file'
      BY <1>7 DEF Write
  <2>8. \A k \in file : StillKnown(k)
      BY <1>0, <2>1, <2>2, <2>3, <2>4 DEF StillKnown
  <2>9. rot["tray"].step \in {"write", "orphan"} => \A k \in rot["tray"].keep : StillKnown(k)
      BY <1>0, <2>1, <2>2, <2>3, <2>4 DEF StillKnown
  <2> QED
      BY <1>0, <1>1, <1>2, <2>2, <2>8, <2>9, StaysRecognised
<1>8. CASE WriteOrphan(p)
  <2>1. \A q \in Processes : rot'[q] = IF q = p THEN NoRotation ELSE rot[q]
      BY <1>3, <1>8 DEF WriteOrphan
  <2>2. RotatesAlone'
      BY <1>0, <1>1, <2>1 DEF RotatesAlone, Free, NoRotation
  <2>3. \A k \in rot[p].keep : k \in file' \/ appended[k] \in exposed' \cup index
      BY <1>8 DEF WriteOrphan, Unmarked
  <2>4. file' = file
      BY <1>8 DEF WriteOrphan
  <2>8. \A k \in file : StillKnown(k)
      BY <1>0, <2>1, <2>2, <2>3, <2>4 DEF StillKnown
  <2>9. rot["tray"].step \in {"write", "orphan"} => \A k \in rot["tray"].keep : StillKnown(k)
      BY <1>0, <2>1, <2>2, <2>3, <2>4 DEF StillKnown
  <2> QED
      BY <1>0, <1>1, <1>2, <2>2, <2>8, <2>9, StaysRecognised
<1> QED
    BY <1>4, <1>5, <1>6, <1>7, <1>8 DEF Rotate

LEMMA SafeOthers ==
    ASSUME IInv, ReadHistory \/ Clear \/ Elsewhere \/ UNCHANGED vars
    PROVE  RotatesAlone' /\ CopyIsCurrent' /\ Recognised' /\ ImportedOnce'
<1> USE DEF remote, store, sync, history
<1>0. /\ rot \in [Processes -> Rotation] /\ "tray" \in Processes
      /\ Recognised /\ ImportedOnce /\ RotatesAlone /\ CopyIsCurrent
    BY DEF IInv, Typed, Processes
<1>1. CASE ReadHistory
  <2>1. UNCHANGED <<appended, index, expired, pc, seen, file, exposed>> /\ rot'["tray"] = rot["tray"]
      BY <1>0, <1>1 DEF ReadHistory, BeginRotation
  <2>2. RotatesAlone' /\ CopyIsCurrent'
      BY <1>0, <2>1 DEF RotatesAlone, CopyIsCurrent, Free
  <2>3. \A k \in file : StillKnown(k)
      BY <2>1 DEF StillKnown
  <2>4. rot["tray"].step \in {"write", "orphan"} => \A k \in rot["tray"].keep : StillKnown(k)
      BY <2>1 DEF StillKnown
  <2> QED
      BY <1>0, <2>1, <2>2, <2>3, <2>4, StaysRecognised
<1>2. CASE Clear
  <2>1. /\ UNCHANGED <<appended, index, expired, pc, seen>> /\ exposed \subseteq exposed'
        /\ rot' = Orphaned
      BY <1>2 DEF Clear
  <2>2. /\ rot'["tray"].step \in {rot["tray"].step, "orphan"}
        /\ rot["tray"].step = "write" <=> rot'["tray"].step # rot["tray"].step
        /\ rot'["tray"].keep = rot["tray"].keep
      BY <1>0, <2>1, TypeOrphans DEF IInv
  <2>3. RotatesAlone' /\ CopyIsCurrent'
      BY <1>0, <2>1, <2>2 DEF RotatesAlone, CopyIsCurrent, Free
  <2>4. \A k \in file : StillKnown(k)
      BY <1>2 DEF Clear, Unmarked, StillKnown
  <2>5. rot["tray"].step \in {"write", "orphan"} => \A k \in rot["tray"].keep : StillKnown(k)
      BY <2>2 DEF StillKnown
  <2> QED
      BY <1>0, <2>1, <2>3, <2>4, <2>5, StaysRecognised
<1>3. CASE Elsewhere
  <2>1. /\ UNCHANGED <<appended, index, pc, seen, file, exposed, rot>>
        /\ expired \in Int /\ expired' \in Int /\ expired <= expired'
      BY <1>3 DEF Elsewhere, Log, Drop, Age, IInv, Typed, TypeOK
  <2>2. \A e \in Imported : e \in Int
      BY DEF Imported, IInv, Typed, TypeOK
  <2>3. Recognised'
      BY <1>0, <2>1, <2>2 DEF Recognised, Imported, HasId, InHand
  <2> QED
      BY <1>0, <2>1, <2>3 DEF RotatesAlone, CopyIsCurrent, Free, ImportedOnce
<1>4. CASE UNCHANGED vars
    BY <1>0, <1>4 DEF vars, RotatesAlone, CopyIsCurrent, Free, ImportedOnce, Recognised,
                      Imported, HasId, InHand
<1> QED
    BY <1>1, <1>2, <1>3, <1>4

LEMMA SafeCutShort ==
    ASSUME IInv, NEW p \in Processes, RotationFails(p) \/ Crash(p)
    PROVE  RotatesAlone' /\ CopyIsCurrent' /\ Recognised' /\ ImportedOnce'
<1> USE DEF remote, store, sync
<1>0. /\ rot \in [Processes -> Rotation] /\ "tray" \in Processes
      /\ Recognised /\ ImportedOnce /\ RotatesAlone /\ CopyIsCurrent
    BY DEF IInv, Typed, Processes
<1>1. /\ UNCHANGED <<appended, index, expired, file>> /\ CutShort(p)
      /\ \/ UNCHANGED <<pc, seen>>
         \/ pc' = "idle" /\ p = "tray"
  <2>1. CASE RotationFails(p)
      BY <2>1 DEF RotationFails
  <2>2. CASE Crash(p)
      BY <2>2 DEF Crash
  <2> QED
      BY <2>1, <2>2
<1>2. \A q \in Processes : rot'[q] = IF q = p THEN NoRotation ELSE rot[q]
    BY <1>0, <1>1 DEF CutShort, EndRotation
<1>3. RotatesAlone' /\ CopyIsCurrent'
    BY <1>0, <1>1, <1>2 DEF RotatesAlone, CopyIsCurrent, Free, NoRotation
<1>4. \A k \in file : StillKnown(k)
    BY <1>1 DEF StillKnown
<1>5. rot[p].step \in {"write", "orphan"} =>
          \A k \in rot[p].keep : k \in file \/ appended[k] \in exposed' \cup index
    BY <1>1 DEF CutShort, Unmarked
<1>6. rot["tray"].step \in {"write", "orphan"} => \A k \in rot["tray"].keep : StillKnown(k)
    BY <1>0, <1>1, <1>2, <1>5 DEF StillKnown
<1>7. exposed \subseteq exposed'
    BY <1>1 DEF CutShort
<1> QED
    BY <1>0, <1>1, <1>3, <1>4, <1>6, <1>7, StaysRecognised

LEMMA SafeTray ==
    ASSUME IInv,
           \/ StartSync \/ Fetch \/ EndSync \/ SyncFails
           \/ \E e \in todo : SkipSeen(e) \/ PassOver(e) \/ Mark(e) \/ RecordFails(e)
    PROVE  RotatesAlone' /\ CopyIsCurrent' /\ Recognised' /\ ImportedOnce'
<1> USE DEF remote, store, history, NextRecord
<1>0. /\ Recognised /\ ImportedOnce /\ RotatesAlone /\ CopyIsCurrent
      /\ rot \in [Processes -> Rotation] /\ "tray" \in Processes
    BY DEF IInv, Typed, Processes
<1>1. CASE StartSync
  <2>1. /\ UNCHANGED <<appended, index, expired, file, exposed>> /\ pc' = "fetch"
      BY <1>1 DEF StartSync
  <2>2. \A k \in file : StillKnown(k)
      BY <2>1 DEF StillKnown
  <2>3. rot["tray"].step \in {"write", "orphan"} => \A k \in rot["tray"].keep : StillKnown(k)
      BY <1>0, <1>1 DEF StartSync, RotatesAlone, Free
  <2> QED
      BY <1>0, <2>1, <2>2, <2>3, StaysRecognised DEF RotatesAlone, CopyIsCurrent
<1>2. CASE Fetch \/ EndSync \/ SyncFails
  <2>1. /\ UNCHANGED <<appended, index, expired, file, exposed, rot>>
        /\ \/ pc' = "import" /\ Free /\ seen' = index
           \/ pc' = "idle" /\ Free
      BY <1>0, <1>2 DEF Fetch, EndSync, SyncFails, RotatesAlone
  <2>2. \A k \in file : StillKnown(k)
      BY <2>1 DEF StillKnown
  <2>3. rot["tray"].step \in {"write", "orphan"} => \A k \in rot["tray"].keep : StillKnown(k)
      BY <2>1 DEF StillKnown
  <2>4. RotatesAlone' /\ CopyIsCurrent'
      BY <2>1 DEF RotatesAlone, CopyIsCurrent, Free
  <2> QED
      BY <1>0, <2>1, <2>2, <2>3, <2>4, StaysRecognised
<1>3. ASSUME NEW e \in todo, SkipSeen(e) \/ PassOver(e) \/ RecordFails(e)
      PROVE  RotatesAlone' /\ CopyIsCurrent' /\ Recognised' /\ ImportedOnce'
  <2>1. /\ UNCHANGED <<appended, index, expired, file, exposed, rot, seen>>
        /\ pc \in {"import", "mark"} /\ pc' \in {"import", "mark"} /\ Free
      BY <1>0, <1>3 DEF SkipSeen, PassOver, RecordFails, RotatesAlone
  <2>2. \A k \in file : StillKnown(k)
      BY <2>1 DEF StillKnown
  <2>3. rot["tray"].step \in {"write", "orphan"} => \A k \in rot["tray"].keep : StillKnown(k)
      BY <2>1 DEF StillKnown
  <2>4. RotatesAlone' /\ CopyIsCurrent'
      BY <1>0, <2>1 DEF RotatesAlone, CopyIsCurrent, Free
  <2> QED
      BY <1>0, <2>1, <2>2, <2>3, <2>4, StaysRecognised
<1>4. ASSUME NEW e \in todo, Mark(e)
      PROVE  RotatesAlone' /\ CopyIsCurrent' /\ Recognised' /\ ImportedOnce'
  <2>1. PICK old \in SUBSET {m \in index : m <= expired} : index' = (index \cup {e}) \ old
      BY <1>4 DEF Mark
  <2>2. /\ UNCHANGED <<appended, expired, file, exposed, rot>> /\ Free
        /\ pc = "mark" /\ seen' = seen \cup {e}
      BY <1>4 DEF Mark
  <2>3. RotatesAlone' /\ CopyIsCurrent'
      BY <1>0, <2>1, <2>2 DEF RotatesAlone, CopyIsCurrent, Free
  <2>4. \A m \in index : m \in index' \/ m <= expired
      BY <2>1
  <2>5. Recognised'
      BY <1>0, <2>2, <2>4 DEF Recognised, Imported, HasId, InHand
  <2> QED
      BY <1>0, <2>2, <2>3, <2>5 DEF ImportedOnce
<1> QED
    BY <1>1, <1>2, <1>3, <1>4

LEMMA SafeImport ==
    ASSUME IInv, NEW e \in todo, Import(e)
    PROVE  RotatesAlone' /\ CopyIsCurrent' /\ Recognised' /\ ImportedOnce'
<1> USE DEF remote, history
<1>0. /\ Typed /\ Recognised /\ ImportedOnce /\ RotatesAlone /\ CopyIsCurrent
    BY DEF IInv
<1>1. /\ UNCHANGED <<index, expired, exposed, seen>> /\ pc = "import" /\ pc' = "mark"
      /\ e \notin seen /\ ~(e <= expired) /\ ~HasId(e)
    BY DEF Import, IInv, Typed, TypeOK
<1>2. RotatesAlone' /\ CopyIsCurrent'
    BY <1>0, <1>1 DEF RotatesAlone, CopyIsCurrent
<1>3. Free
    BY <1>0, <1>1 DEF RotatesAlone
<1>4. /\ DOMAIN appended' = DOMAIN appended \cup {Len(appended) + 1}
      /\ appended'[Len(appended) + 1] = e
      /\ \A k \in DOMAIN appended : appended'[k] = appended[k]
      /\ Imported' = Imported \cup {e}
      /\ file' = file \cup {Len(appended) + 1}
    BY <1>0, AppendedGrows
<1>5. ~InHand(e) /\ \A m \in Imported : ~InHand(m)
    BY <1>3 DEF InHand, Free
<1>6. \A m \in Imported : HasId(m) => HasId(m)'
    BY <1>4 DEF HasId, IInv, Typed, TypeOK
<1>7. HasId(e)'
    BY <1>4 DEF HasId
<1>8. Recognised'
    BY <1>0, <1>1, <1>4, <1>5, <1>6, <1>7 DEF Recognised
<1>9. e \in Imported => e \in exposed
    BY <1>0, <1>1, <1>5 DEF Recognised, CopyIsCurrent
<1>10. ImportedOnce'
  <2> SUFFICES ASSUME NEW j \in DOMAIN appended', NEW k \in DOMAIN appended',
                      appended'[j] = appended'[k]
               PROVE  j = k \/ appended'[j] \in exposed
      BY <1>1 DEF ImportedOnce
  <2>1. CASE j \in DOMAIN appended /\ k \in DOMAIN appended
      BY <1>0, <1>4, <2>1 DEF ImportedOnce
  <2>2. CASE j \in DOMAIN appended /\ k = Len(appended) + 1
    <3>1. appended[j] = e /\ appended[j] \in Imported
        BY <1>4, <2>2 DEF Imported
    <3> QED
        BY <1>4, <1>9, <2>2, <3>1
  <2>3. CASE j = Len(appended) + 1 /\ k \in DOMAIN appended
    <3>1. appended[k] = e /\ appended[k] \in Imported
        BY <1>4, <2>3 DEF Imported
    <3> QED
        BY <1>4, <1>9, <2>3, <3>1
  <2> QED
      BY <1>4, <2>1, <2>2, <2>3
<1> QED
    BY <1>2, <1>8, <1>10

LEMMA InvariantStarts == Init => IInv
<1> SUFFICES ASSUME Init PROVE IInv
    OBVIOUS
<1>1. Typed
    BY TypeStart
<1>2. Imported = {} /\ DOMAIN appended = {} /\ index = {} /\ rot["tray"].step = "none"
    BY DEF Init, Imported, Processes, NoRotation
<1> QED
    BY <1>1, <1>2 DEF IInv, RotatesAlone, Free, CopyIsCurrent, Recognised, ImportedOnce

LEMMA InvariantStays == IInv /\ [Next]_vars => IInv'
<1> SUFFICES ASSUME IInv, [Next]_vars PROVE IInv'
    OBVIOUS
<1>1. Typed'
    BY TypeNext DEF IInv
<1>2. ASSUME NEW e \in todo, Import(e) PROVE IInv'
    BY <1>1, <1>2, SafeImport DEF IInv
<1>3. CASE Tray
    BY <1>1, <1>2, <1>3, SafeTray DEF Tray, IInv
<1>4. CASE \E p \in Processes : Rotate(p)
    BY <1>1, <1>4, SafeRotate DEF IInv
<1>5. CASE \E p \in Processes : RotationFails(p) \/ Crash(p)
    BY <1>1, <1>5, SafeCutShort DEF IInv
<1>6. CASE \/ Elsewhere \/ ReadHistory \/ Clear \/ UNCHANGED vars
    BY <1>1, <1>6, SafeOthers DEF IInv
<1>7. CASE SyncFails \/ \E e \in todo : RecordFails(e)
    BY <1>1, <1>7, SafeTray DEF IInv
<1> QED
    BY <1>3, <1>4, <1>5, <1>6, <1>7 DEF Next

LEMMA Invariant == Spec => []IInv
BY InvariantStarts, InvariantStays, PTL DEF Spec

(* Every variable keeps its type: the file holds only what was appended to it, *)
(* and what is marked or read are violations that the source has had.          *)
THEOREM TypeCorrect == Spec => []TypeOK
<1>1. IInv => TypeOK
    BY DEF IInv, Typed
<1> QED
    BY <1>1, Invariant, PTL

(* mirror_remote_violations imports no violation twice, over polls, crashes,   *)
(* failures, rotation by either process and clearing, but one that the file    *)
(* lost between its appending and its marking.                                 *)
THEOREM NothingImportedTwice == Spec => []ImportedOnce
<1>1. IInv => ImportedOnce
    BY DEF IInv
<1> QED
    BY <1>1, Invariant, PTL

-----------------------------------------------------------------------------
(* What rotation keeps: at most max_entries records, and of the file's all     *)
(* that are among the last max_entries and have not expired.                   *)
LEMMA PlacesBetween ==
    ASSUME NEW n \in Nat, NEW k \in Nat, k <= n
    PROVE  IsFiniteSet(k + 1 .. n) /\ Cardinality(k + 1 .. n) = n - k
<1> DEFINE first == k + 1
<1>1. first \in Int /\ n \in Int
    OBVIOUS
<1> HIDE DEF first
<1>2. /\ IsFiniteSet(first .. n)
      /\ Cardinality(first .. n) = IF first > n THEN 0 ELSE n - first + 1
    BY <1>1, FS_Interval
<1>3. (IF first > n THEN 0 ELSE n - first + 1) = n - k
    BY DEF first
<1> QED
    BY <1>2, <1>3 DEF first

LEMMA PlacesAfter ==
    ASSUME NEW log \in Seq(Nat), NEW k \in DOMAIN log, NEW S \in SUBSET DOMAIN log,
           \A j \in S : j > k
    PROVE  IsFiniteSet(S) /\ Cardinality(S) <= Len(log) - k
<1>1. Len(log) \in Nat /\ DOMAIN log = 1 .. Len(log)
    OBVIOUS
<1>2. S \subseteq k + 1 .. Len(log) /\ k \in Nat /\ k <= Len(log)
    BY <1>1
<1>3. IsFiniteSet(k + 1 .. Len(log)) /\ Cardinality(k + 1 .. Len(log)) = Len(log) - k
    BY <1>1, <1>2, PlacesBetween
<1>4. IsFiniteSet(S) /\ Cardinality(S) <= Cardinality(k + 1 .. Len(log))
    BY <1>2, <1>3, FS_Subset
<1> QED
    BY <1>3, <1>4

LEMMA RecentIsRetained ==
    ASSUME NEW log \in Seq(Nat), NEW F \in SUBSET DOMAIN log, NEW k \in F,
           k > Len(log) - MaxEntries, log[k] > expired
    PROVE  k \in Retained(log, F)
<1> DEFINE later == {j \in Unexpired(log, F) : j > k}
<1>1. later \in SUBSET DOMAIN log /\ \A j \in later : j > k
    BY DEF Unexpired
<1>2. IsFiniteSet(later) /\ Cardinality(later) <= Len(log) - k
    BY <1>1, PlacesAfter
<1>3. Cardinality(later) \in Nat /\ Len(log) \in Nat /\ k \in Nat
    BY <1>2, FS_CardinalityType
<1>4. Cardinality(later) < MaxEntries
    BY <1>2, <1>3, MirrorAssumption
<1> QED
    BY <1>4 DEF Retained, Unexpired

LEMMA RetainedIsSmall ==
    ASSUME NEW log \in Seq(Nat), NEW F \in SUBSET DOMAIN log
    PROVE  IsFiniteSet(Retained(log, F)) /\ Cardinality(Retained(log, F)) <= MaxEntries
<1> DEFINE kept == Retained(log, F)
<1> SUFFICES IsFiniteSet(kept) /\ Cardinality(kept) <= MaxEntries
    OBVIOUS
<1>1. kept \in SUBSET DOMAIN log /\ kept \subseteq Nat
    BY DEF Retained, Unexpired
<1>2. IsFiniteSet(DOMAIN log)
    BY FS_Interval
<1>3. IsFiniteSet(kept) /\ Cardinality(kept) \in Nat
    BY <1>1, <1>2, FS_Subset, FS_CardinalityType
<1>4. CASE kept = {}
    BY <1>3, <1>4, FS_EmptySet, MirrorAssumption
<1>5. CASE kept # {}
  <2>1. PICK m \in kept : \A j \in kept : ~(<<j, m>> \in OpToRel(<, Nat))
      BY <1>1, <1>5, NatLessThanWellFounded, WFMin
  <2>2. \A j \in kept : ~(j < m)
      BY <1>1, <2>1 DEF OpToRel
  <2> DEFINE later == {j \in Unexpired(log, F) : j > m}
  <2>3. kept \ {m} \subseteq later
    <3>1. \A j \in kept : j \in Unexpired(log, F)
        BY DEF Retained
    <3> HIDE DEF kept
    <3> QED
        BY <1>1, <2>2, <3>1
  <2>4. Cardinality(later) < MaxEntries
      BY <2>1 DEF Retained
  <2>5. later \subseteq DOMAIN log
      BY DEF Unexpired
  <2>6. IsFiniteSet(later) /\ Cardinality(later) \in Nat
      BY <1>2, <2>5, FS_Subset, FS_CardinalityType
  <2>7. Cardinality(kept \ {m}) <= Cardinality(later)
      BY <2>3, <2>6, FS_Subset
  <2>8. Cardinality(kept \ {m}) = Cardinality(kept) - 1
      BY <1>3, <2>1, FS_RemoveElement
  <2> HIDE DEF kept, later
  <2> QED
      BY <1>3, <2>4, <2>6, <2>7, <2>8, MirrorAssumption
<1> QED
    BY <1>3, <1>4, <1>5

(* Why the file holds what is recent: a rotation that has read a recent record *)
(* keeps it, and unless the file has been disturbed a recent record is in the  *)
(* file or about to be written there by one that has emptied it.               *)
ReadersKeep ==
    \A p \in Processes :
        rot[p].step = "decide" => \A k \in Recent : k \in rot[p].lines => k \in rot[p].keep

HeldBy(p, k) == rot[p].step = "write" /\ k \in rot[p].keep

KeptOrHeld ==
    ~disturbed => \A k \in Recent : k \in file \/ \E p \in Processes : HeldBy(p, k)

RecentInv == Typed /\ RotatesAlone /\ ReadersKeep /\ KeptOrHeld

(* A record that is recent after a step that appends none was so before it.    *)
LEMMA RecentShrinks ==
    ASSUME Typed, Typed', UNCHANGED appended, expired <= expired', cleared <= cleared'
    PROVE  Recent' \subseteq Recent
<1>1. /\ appended \in Seq(1 .. logged) /\ expired \in Int /\ cleared \in Int
      /\ expired' \in Int /\ cleared' \in Int
    BY DEF Typed, TypeOK
<1>2. \A k \in DOMAIN appended : appended[k] \in Int
  <2> SUFFICES ASSUME NEW k \in DOMAIN appended PROVE appended[k] \in Int
      OBVIOUS
  <2>1. k \in 1 .. Len(appended)
      BY <1>1, LenProperties
  <2>2. appended[k] \in 1 .. logged
      BY <1>1, <2>1, ElementOfSeq
  <2> QED
      BY <2>2
<1> QED
    BY <1>1, <1>2 DEF Recent

(* A rotation that begins keeps what is recent of the file it has read.        *)
LEMMA BeginnersKeep ==
    ASSUME Typed, NEW F \in SUBSET DOMAIN appended, NEW k \in Recent, k \in F
    PROVE  k \in Retained(appended, F)
<1>1. appended \in Seq(Nat)
    BY SeqMonotonic, MirrorAssumption DEF Typed, TypeOK
<1> QED
    BY <1>1, RecentIsRetained DEF Recent

LEMMA RecentRotate ==
    ASSUME RecentInv, Typed', NEW p \in Processes, Rotate(p)
    PROVE  ReadersKeep' /\ KeptOrHeld'
<1> USE DEF remote, store, sync, history
<1>0. /\ rot \in [Processes -> Rotation] /\ ReadersKeep /\ KeptOrHeld /\ Typed
      /\ disturbed \in BOOLEAN
    BY DEF RecentInv, Typed, TypeOK
<1>1. UNCHANGED <<appended, expired, cleared>> /\ expired \in Int /\ cleared \in Int
    BY <1>0 DEF Rotate, KeepAll, RemoveEmpty, FileHasGone, Truncate, Write, WriteOrphan,
                Typed, TypeOK
<1>2. Recent' = Recent
    BY <1>1 DEF Recent
<1>3. ASSUME EndRotation(p)
      PROVE  /\ \A q \in Processes : rot'[q] = IF q = p THEN NoRotation ELSE rot[q]
             /\ ReadersKeep'
  <2>1. \A q \in Processes : rot'[q] = IF q = p THEN NoRotation ELSE rot[q]
      BY <1>0, <1>3 DEF EndRotation
  <2> QED
      BY <1>0, <1>2, <2>1 DEF ReadersKeep, NoRotation
<1>4. CASE KeepAll(p) \/ FileHasGone(p) \/ WriteOrphan(p)
  <2>1. EndRotation(p) /\ rot[p].step # "write" /\ UNCHANGED <<file, disturbed>>
      BY <1>4 DEF KeepAll, FileHasGone, WriteOrphan
  <2>2. \A q \in Processes, k \in Recent : HeldBy(q, k) => HeldBy(q, k)'
      BY <1>3, <2>1 DEF HeldBy
  <2> QED
      BY <1>0, <1>2, <1>3, <2>1, <2>2 DEF KeptOrHeld
<1>5. CASE RemoveEmpty(p)
  <2>1. \A q \in Processes : rot'[q] = IF q = p THEN NoRotation ELSE Orphaned[q]
      BY <1>0, <1>5, TypeOrphans DEF RemoveEmpty
  <2>2. ReadersKeep'
      BY <1>0, <1>2, <2>1, TypeOrphans DEF ReadersKeep, NoRotation
  <2>3. ASSUME ~disturbed', NEW k \in Recent PROVE FALSE
    <3>1. ~disturbed /\ file = rot[p].lines /\ Orphaned = rot
        BY <1>5, <2>3 DEF RemoveEmpty
    <3>2. \A q \in Processes : rot[q].step # "write"
        BY <1>0, <3>1, TypeOrphans
    <3>3. k \in rot[p].lines
        BY <1>0, <3>1, <3>2 DEF KeptOrHeld, HeldBy
    <3> QED
        BY <1>0, <1>5, <3>3 DEF ReadersKeep, RemoveEmpty
  <2> QED
      BY <1>2, <2>2, <2>3 DEF KeptOrHeld
<1>6. CASE Truncate(p)
  <2>1. /\ \A q \in Processes : rot'[q].keep = rot[q].keep /\ rot'[q].lines = rot[q].lines
        /\ \A q \in Processes : rot'[q].step = IF q = p THEN "write" ELSE rot[q].step
      BY <1>0, <1>6 DEF Truncate, Rotation
  <2>2. ReadersKeep'
      BY <1>0, <1>2, <2>1 DEF ReadersKeep
  <2>3. ASSUME ~disturbed', NEW k \in Recent PROVE \E q \in Processes : HeldBy(q, k)'
    <3>1. ~disturbed /\ file = rot[p].lines /\ rot[p].step = "decide"
        BY <1>6, <2>3 DEF Truncate
    <3>2. CASE k \in file
        BY <1>0, <2>1, <3>1, <3>2 DEF ReadersKeep, HeldBy
    <3>3. CASE \E q \in Processes : HeldBy(q, k)
        BY <2>1, <3>3 DEF HeldBy
    <3> QED
        BY <1>0, <3>1, <3>2, <3>3 DEF KeptOrHeld
  <2> QED
      BY <1>2, <2>2, <2>3 DEF KeptOrHeld
<1>7. CASE Write(p)
  <2>1. EndRotation(p) /\ rot[p].keep \subseteq file'
      BY <1>7 DEF Write
  <2>2. ASSUME ~disturbed', NEW k \in Recent
        PROVE  k \in file' \/ \E q \in Processes : HeldBy(q, k)'
    <3>1. ~disturbed /\ file = {}
        BY <1>7, <2>2 DEF Write
    <3>2. PICK q \in Processes : HeldBy(q, k)
        BY <1>0, <3>1 DEF KeptOrHeld
    <3> QED
        BY <1>3, <2>1, <3>2 DEF HeldBy
  <2> QED
      BY <1>2, <1>3, <2>1, <2>2 DEF KeptOrHeld
<1> QED
    BY <1>4, <1>5, <1>6, <1>7 DEF Rotate

(* A rotation that begins in p's place, where none was under way.              *)
LEMMA RecentBegins ==
    ASSUME RecentInv, NEW p \in Processes, rot[p].step = "none", NEW d \in BOOLEAN,
           rot' = BeginRotation(p, appended, file, d),
           UNCHANGED <<appended, expired, cleared, file, disturbed>>
    PROVE  ReadersKeep' /\ KeptOrHeld'
<1>1. /\ rot \in [Processes -> Rotation] /\ ReadersKeep /\ KeptOrHeld /\ Typed
      /\ file \subseteq DOMAIN appended
    BY DEF RecentInv, Typed, TypeOK
<1>2. Recent' = Recent
    BY DEF Recent
<1>3. /\ rot'[p].lines = file /\ rot'[p].keep = Retained(appended, file)
      /\ rot'[p].step = "decide"
      /\ \A q \in Processes \ {p} : rot'[q] = rot[q]
    BY <1>1 DEF BeginRotation
<1>4. ReadersKeep'
    BY <1>1, <1>2, <1>3, BeginnersKeep DEF ReadersKeep
<1>5. \A q \in Processes, k \in Recent : HeldBy(q, k) => HeldBy(q, k)'
    BY <1>3 DEF HeldBy
<1> QED
    BY <1>1, <1>2, <1>4, <1>5 DEF KeptOrHeld

LEMMA RecentStays ==
    ASSUME RecentInv, Typed', UNCHANGED <<appended, file, disturbed, rot>>,
           expired <= expired', cleared <= cleared'
    PROVE  ReadersKeep' /\ KeptOrHeld'
<1>1. ReadersKeep /\ KeptOrHeld /\ Recent' \subseteq Recent
    BY RecentShrinks DEF RecentInv
<1>2. \A q \in Processes, k \in Recent : HeldBy(q, k) => HeldBy(q, k)'
    BY DEF HeldBy
<1> QED
    BY <1>1, <1>2 DEF ReadersKeep, KeptOrHeld

LEMMA RecentSync ==
    ASSUME RecentInv, Typed',
           \/ Elsewhere \/ Fetch \/ EndSync \/ SyncFails \/ UNCHANGED vars
           \/ \E e \in todo : SkipSeen(e) \/ PassOver(e) \/ Mark(e) \/ RecordFails(e)
    PROVE  ReadersKeep' /\ KeptOrHeld'
<1>1. /\ UNCHANGED <<appended, file, disturbed, rot, cleared>>
      /\ expired' = expired \/ expired' = expired + 1
    BY DEF Elsewhere, Log, Drop, Age, Fetch, EndSync, SyncFails, vars, SkipSeen, PassOver,
           Mark, RecordFails, remote, store, history
<1>2. expired \in Int /\ cleared \in Int
    BY DEF RecentInv, Typed, TypeOK
<1>3. expired <= expired' /\ cleared <= cleared'
    BY <1>1, <1>2
<1> QED
    BY <1>1, <1>3, RecentStays

LEMMA RecentClear == ASSUME RecentInv, Typed', Clear PROVE ReadersKeep' /\ KeptOrHeld'
<1>1. Recent' = {}
  <2>1. appended' = appended /\ cleared' = Len(appended)
      BY DEF Clear
  <2>2. Len(appended) \in Nat /\ DOMAIN appended = 1 .. Len(appended)
      BY DEF RecentInv, Typed, TypeOK
  <2> QED
      BY <2>1, <2>2 DEF Recent
<1> QED
    BY <1>1 DEF ReadersKeep, KeptOrHeld

LEMMA RecentCutShort ==
    ASSUME RecentInv, Typed', NEW p \in Processes, RotationFails(p) \/ Crash(p)
    PROVE  ReadersKeep' /\ KeptOrHeld'
<1>0. /\ rot \in [Processes -> Rotation] /\ ReadersKeep /\ KeptOrHeld
    BY DEF RecentInv, Typed
<1>1. UNCHANGED <<appended, expired, cleared, file>> /\ CutShort(p)
    BY DEF RotationFails, Crash, remote, store
<1>2. Recent' = Recent
    BY <1>1 DEF Recent
<1>3. \A q \in Processes : rot'[q] = IF q = p THEN NoRotation ELSE rot[q]
    BY <1>0, <1>1 DEF CutShort, EndRotation
<1>4. ReadersKeep'
    BY <1>0, <1>2, <1>3 DEF ReadersKeep, NoRotation
<1>5. ~disturbed' => ~disturbed /\ rot[p].step # "write"
    BY <1>1 DEF CutShort
<1>6. ~disturbed' => \A q \in Processes, k \in Recent : HeldBy(q, k) => HeldBy(q, k)'
    BY <1>3, <1>5 DEF HeldBy
<1> QED
    BY <1>0, <1>1, <1>2, <1>4, <1>5, <1>6 DEF KeptOrHeld

LEMMA RecentImport ==
    ASSUME RecentInv, Typed', NEW e \in todo, Import(e)
    PROVE  ReadersKeep' /\ KeptOrHeld'
<1> USE DEF remote, history
<1>0. /\ rot \in [Processes -> Rotation] /\ ReadersKeep /\ KeptOrHeld /\ Typed
      /\ "tray" \in Processes /\ rot["tray"].step = "none"
    BY DEF RecentInv, Typed, Processes, RotatesAlone, Free, Import
<1>1. /\ appended' \in Seq(1 .. logged) /\ Len(appended') = Len(appended) + 1
      /\ DOMAIN appended' = DOMAIN appended \cup {Len(appended) + 1}
      /\ \A k \in DOMAIN appended : appended'[k] = appended[k]
      /\ file' = file \cup {Len(appended) + 1}
    BY <1>0, AppendedGrows
<1>2. /\ UNCHANGED <<expired, cleared, disturbed>>
      /\ \/ rot' = BeginRotation("tray", appended', file', FALSE)
         \/ rot' = rot
    BY DEF Import, Appended
<1>3. \A k \in Recent' : k \in DOMAIN appended => k \in Recent
  <2>1. Len(appended) \in Nat /\ \A k \in DOMAIN appended : k \in Nat
      BY <1>0 DEF Typed, TypeOK
  <2> QED
      BY <1>1, <1>2, <2>1, MirrorAssumption DEF Recent
<1>4. \A q \in Processes : rot'[q] = rot[q] \/
          (/\ q = "tray" /\ rot'[q].step = "decide"
           /\ rot'[q].lines = file' /\ rot'[q].keep = Retained(appended', file'))
    BY <1>0, <1>2 DEF BeginRotation
<1>5. ASSUME NEW k \in Recent', k \in file' PROVE k \in Retained(appended', file')
  <2>1. appended' \in Seq(Nat)
      BY <1>1, SeqMonotonic, MirrorAssumption DEF Typed, TypeOK
  <2>2. file' \in SUBSET DOMAIN appended'
      BY DEF Typed, TypeOK
  <2>3. k > Len(appended') - MaxEntries /\ appended'[k] > expired
      BY <1>2 DEF Recent
  <2> QED
      BY <1>5, <2>1, <2>2, <2>3, RecentIsRetained
<1>6. ReadersKeep'
  <2> SUFFICES ASSUME NEW q \in Processes, rot'[q].step = "decide",
                      NEW k \in Recent', k \in rot'[q].lines
               PROVE  k \in rot'[q].keep
      BY DEF ReadersKeep
  <2>1. CASE rot'[q] = rot[q]
    <3>1. k \in DOMAIN appended
        BY <1>0, <2>1, PlacesOfRotations
    <3> QED
        BY <1>0, <1>3, <2>1, <3>1 DEF ReadersKeep
  <2>2. CASE rot'[q].lines = file' /\ rot'[q].keep = Retained(appended', file')
      BY <1>5, <2>2
  <2> QED
      BY <1>4, <2>1, <2>2
<1>7. \A q \in Processes, k \in Recent : HeldBy(q, k) => HeldBy(q, k)'
    BY <1>0, <1>4 DEF HeldBy
<1>8. Recent' \subseteq DOMAIN appended'
    BY DEF Recent
<1> QED
    BY <1>0, <1>1, <1>2, <1>3, <1>6, <1>7, <1>8 DEF KeptOrHeld

LEMMA RecentNext ==
    ASSUME RecentInv, Typed', [Next]_vars
    PROVE  ReadersKeep' /\ KeptOrHeld'
<1>1. CASE StartSync
  <2>1. /\ UNCHANGED <<appended, expired, cleared, file, disturbed>>
        /\ rot' = BeginRotation("tray", appended, file, TRUE) \/ rot' = rot
        /\ rot["tray"].step = "none" /\ "tray" \in Processes
      BY <1>1 DEF StartSync, remote, store, history, RecentInv, RotatesAlone, Free, Processes
  <2>2. expired <= expired' /\ cleared <= cleared'
      BY <2>1 DEF RecentInv, Typed, TypeOK
  <2> QED
      BY <2>1, <2>2, RecentBegins, RecentStays
<1>2. CASE ReadHistory
    BY <1>2, RecentBegins DEF ReadHistory, remote, store, history, Processes
<1>3. CASE Tray
  <2>1. ASSUME NEW e \in todo, Import(e) PROVE ReadersKeep' /\ KeptOrHeld'
      BY <2>1, RecentImport
  <2> QED
      BY <1>1, <1>3, <2>1, RecentSync DEF Tray
<1>4. CASE \E p \in Processes : Rotate(p)
    BY <1>4, RecentRotate
<1>5. CASE \E p \in Processes : RotationFails(p) \/ Crash(p)
    BY <1>5, RecentCutShort
<1>6. CASE Elsewhere \/ SyncFails \/ UNCHANGED vars \/ \E e \in todo : RecordFails(e)
    BY <1>6, RecentSync
<1> QED
    BY <1>2, <1>3, <1>4, <1>5, <1>6, RecentClear DEF Next

-----------------------------------------------------------------------------
(* Why the file is bounded.  The tray alone appends, and starts a rotation at  *)
(* the latest when its count of the records is a batch over what it last kept. *)
(* The count is never too low in an undisturbed file, for what other processes *)
(* do in the meantime makes the file shorter: a tray that is about to decide   *)
(* has read all that the file holds.  So there is room for a record more,      *)
(* unless a rotation is due.                                                   *)
Deciding == rot["tray"].step = "decide"

KeepsAreSmall == \A p \in Processes : Cardinality(rot[p].keep) <= MaxEntries

CountIsEnough ==
    ~disturbed /\ state.known =>
        state.size <= state.count /\ state.next <= MaxEntries + Batch

OrphansHaveNoFile == ~disturbed /\ rot["tray"].step = "orphan" => ~exists

EmptyIsRemoved == Deciding /\ rot["tray"].lines = {} => rot["tray"].delete

ReadsWholeFile ==
    ~disturbed /\ Deciding /\ rot["tray"].lines # {} =>
        /\ file \subseteq rot["tray"].lines
        /\ rot["console"].step = "write" =>
               rot["console"].keep \subseteq rot["tray"].lines \/ file # {}

Room ==
    ~disturbed => /\ Cardinality(file) <= MaxEntries + Batch + faults
                  /\ ~Deciding => Cardinality(file) < MaxEntries + Batch + faults

RoomParts ==
    CountIsEnough /\ OrphansHaveNoFile /\ EmptyIsRemoved /\ ReadsWholeFile /\ Room

RoomInv == Typed /\ RotatesAlone /\ KeepsAreSmall /\ RoomParts

LEMMA Sizes ==
    ASSUME Typed
    PROVE  /\ MaxEntries \in Nat \ {0} /\ Batch \in Nat \ {0} /\ faults \in Nat
           /\ rot \in [Processes -> Rotation] /\ disturbed \in BOOLEAN
           /\ "tray" \in Processes /\ "console" \in Processes
           /\ IsFiniteSet(file) /\ Cardinality(file) \in Nat
           /\ file = {} => Cardinality(file) = 0
           /\ \A p \in Processes :
                  /\ IsFiniteSet(rot[p].keep) /\ Cardinality(rot[p].keep) \in Nat
                  /\ IsFiniteSet(rot[p].lines) /\ Cardinality(rot[p].lines) \in Nat
<1>1. IsFiniteSet(file) /\ Cardinality(file) \in Nat
    BY PlacesAreFinite DEF Typed, TypeOK
<1>2. \A p \in Processes : /\ IsFiniteSet(rot[p].keep) /\ Cardinality(rot[p].keep) \in Nat
                          /\ IsFiniteSet(rot[p].lines) /\ Cardinality(rot[p].lines) \in Nat
    BY PlacesOfRotations, PlacesAreFinite DEF Typed
<1>3. faults \in Nat /\ rot \in [Processes -> Rotation] /\ disturbed \in BOOLEAN
    BY MirrorAssumption DEF Typed, TypeOK
<1> QED
    BY <1>1, <1>2, <1>3, FS_EmptySet, MirrorAssumption DEF Processes

LEMMA KeepsStaySmall ==
    ASSUME Typed, KeepsAreSmall, [Next]_vars
    PROVE  KeepsAreSmall'
<1>0. rot \in [Processes -> Rotation] /\ "tray" \in Processes /\ "console" \in Processes
    BY Sizes
<1>1. ASSUME NEW p \in Processes, EndRotation(p) PROVE KeepsAreSmall'
    BY <1>0, <1>1, FS_EmptySet, MirrorAssumption DEF EndRotation, NoRotation, KeepsAreSmall
<1>2. ASSUME NEW p \in Processes, NEW log \in Seq(Nat), NEW F \in SUBSET DOMAIN log,
             NEW d \in BOOLEAN, rot' = BeginRotation(p, log, F, d)
      PROVE  KeepsAreSmall'
    BY <1>0, <1>2, RetainedIsSmall DEF BeginRotation, KeepsAreSmall
<1>3. CASE rot' = Orphaned
    BY <1>3, TypeOrphans DEF KeepsAreSmall
<1>4. ASSUME NEW p \in Processes, RemoveEmpty(p) PROVE KeepsAreSmall'
  <2>1. \A q \in Processes : rot'[q].keep = IF q = p THEN {} ELSE rot[q].keep
      BY <1>4, TypeOrphans DEF RemoveEmpty, NoRotation
  <2> QED
      BY <2>1, FS_EmptySet, MirrorAssumption DEF KeepsAreSmall
<1>5. ASSUME NEW p \in Processes, Truncate(p) PROVE KeepsAreSmall'
  <2>1. \A q \in Processes : rot'[q].keep = rot[q].keep
      BY <1>0, <1>5 DEF Truncate, Rotation
  <2> QED
      BY <2>1 DEF KeepsAreSmall
<1>6. CASE UNCHANGED rot
    BY <1>6 DEF KeepsAreSmall
<1>7. appended \in Seq(Nat) /\ file \in SUBSET DOMAIN appended
    BY SeqMonotonic, MirrorAssumption DEF Typed, TypeOK
<1>8. ASSUME NEW e \in todo, Import(e) PROVE KeepsAreSmall'
  <2>1. appended' \in Seq(1 .. logged) /\ file' \subseteq DOMAIN appended'
      BY <1>7, <1>8, AppendedGrows DEF Typed, TypeOK
  <2>2. appended' \in Seq(Nat)
      BY <2>1, SeqMonotonic, MirrorAssumption DEF Typed, TypeOK
  <2>3. rot' = BeginRotation("tray", appended', file', FALSE) \/ rot' = rot
      BY <1>8 DEF Import, Appended
  <2> QED
      BY <1>0, <1>2, <1>6, <2>1, <2>2, <2>3
<1>9. CASE StartSync \/ ReadHistory
    BY <1>0, <1>2, <1>6, <1>7, <1>9 DEF StartSync, ReadHistory
<1>10. CASE \E p \in Processes : Rotate(p) \/ RotationFails(p) \/ Crash(p)
    BY <1>1, <1>4, <1>5, <1>10 DEF Rotate, KeepAll, FileHasGone, Write, WriteOrphan,
                                   RotationFails, Crash, CutShort
<1>11. CASE \/ Elsewhere \/ Fetch \/ EndSync \/ SyncFails \/ UNCHANGED vars
            \/ \E e \in todo : SkipSeen(e) \/ PassOver(e) \/ Mark(e) \/ RecordFails(e)
    BY <1>6, <1>11 DEF Elsewhere, Fetch, EndSync, SyncFails, vars, SkipSeen, PassOver, Mark,
                       RecordFails
<1> QED
    BY <1>3, <1>8, <1>9, <1>10, <1>11 DEF Next, Tray, Clear

(* What the tray remembers of an undisturbed file.                             *)
LEMMA CountRemembered ==
    ASSUME Typed, NEW size \in Nat, NEW count \in Nat, Remember("tray", size, count),
           ~exists \/ (size <= count /\ count <= MaxEntries)
    PROVE  state'.known => state'.size <= state'.count /\ state'.next <= MaxEntries + Batch
<1>1. CASE ~exists
    BY <1>1 DEF Remember, NoState
<1>2. CASE exists
  <2>1. state' = [known |-> TRUE, size |-> size, count |-> count,
                  next |-> Larger(MaxEntries + 1, count + Batch)]
      BY <1>2 DEF Remember
  <2>2. Larger(MaxEntries + 1, count + Batch) <= MaxEntries + Batch
      BY <1>2, MirrorAssumption DEF Larger
  <2> QED
      BY <1>2, <2>1, <2>2
<1> QED
    BY <1>1, <1>2

(* The tray's rotation, when it ends or has emptied the file.                  *)
LEMMA RoomTrayRotates ==
    ASSUME RoomInv, Typed', Rotate("tray")
    PROVE  RoomParts'
<1> USE DEF remote, store, sync, history
<1>0. /\ Typed /\ KeepsAreSmall /\ CountIsEnough /\ OrphansHaveNoFile
      /\ EmptyIsRemoved /\ ReadsWholeFile /\ Room
    BY DEF RoomInv, RoomParts
<1>1. /\ faults' = faults /\ faults \in Nat /\ MaxEntries \in Nat \ {0} /\ Batch \in Nat \ {0}
      /\ Cardinality(file) \in Nat /\ Cardinality(rot["tray"].keep) \in Nat
      /\ Cardinality(rot["tray"].keep) <= MaxEntries
      /\ rot \in [Processes -> Rotation] /\ "tray" \in Processes
      /\ disturbed \in BOOLEAN
    BY <1>0, Sizes DEF Rotate, KeepAll, RemoveEmpty, FileHasGone, Truncate, Write, WriteOrphan,
                       KeepsAreSmall
<1>2. rot'["tray"].step \in {"none", "write"}
    BY <1>0, <1>1, TypeOrphans DEF Rotate, KeepAll, RemoveEmpty, FileHasGone, Truncate, Write,
                              WriteOrphan, EndRotation, NoRotation, Rotation
<1>3. ~Deciding' /\ OrphansHaveNoFile' /\ EmptyIsRemoved' /\ ReadsWholeFile'
    BY <1>2 DEF Deciding, OrphansHaveNoFile, EmptyIsRemoved, ReadsWholeFile
<1>4. CASE KeepAll("tray")
  <2>1. ~disturbed' => ~disturbed
      BY <1>4 DEF KeepAll
  <2>2. ~disturbed => Cardinality(file) <= Cardinality(rot["tray"].keep)
    <3> SUFFICES ASSUME ~disturbed PROVE Cardinality(file) <= Cardinality(rot["tray"].keep)
        OBVIOUS
    <3>1. Deciding /\ rot["tray"].keep = rot["tray"].lines /\ rot["tray"].lines # {}
        BY <1>0, <1>4 DEF KeepAll, Deciding, EmptyIsRemoved
    <3>2. file \subseteq rot["tray"].keep
        BY <1>0, <3>1 DEF ReadsWholeFile
    <3> QED
        BY <1>0, <1>1, <3>2, FS_Subset, Sizes
  <2>3. CountIsEnough'
      BY <1>0, <1>1, <1>4, <2>1, <2>2, CountRemembered DEF KeepAll, CountIsEnough
  <2>4. Room'
      BY <1>1, <1>4, <2>1, <2>2 DEF Room, KeepAll
  <2> QED
      BY <1>3, <2>3, <2>4 DEF RoomParts
<1>5. CASE \/ RemoveEmpty("tray") \/ FileHasGone("tray") \/ Truncate("tray")
  <2>1. file' = {} /\ (state' = NoState \/ state' = state) /\ (~disturbed' => ~disturbed)
      BY <1>0, <1>5 DEF RemoveEmpty, FileHasGone, Truncate, Typed, TypeOK
  <2>2. Cardinality(file') = 0
      BY <2>1, FS_EmptySet
  <2>3. Room'
      BY <1>1, <2>2 DEF Room
  <2>4. CountIsEnough'
      BY <1>0, <2>1 DEF CountIsEnough, NoState
  <2> QED
      BY <1>3, <2>3, <2>4 DEF RoomParts
<1>6. CASE Write("tray")
  <2> DEFINE keep == rot["tray"].keep
             written == keep \cup (file \ Overwritten(keep))
  <2>1. ~disturbed' => ~disturbed /\ file = {}
      BY <1>6 DEF Write
  <2>2. file' = written /\ Remember("tray", Cardinality(written), Cardinality(keep))
      BY <1>6 DEF Write
  <2>3. ~disturbed' => written = keep
      BY <2>1
  <2>4. Cardinality(written) \in Nat
    <3>1. TypeOK /\ file \subseteq DOMAIN appended /\ keep \subseteq DOMAIN appended
        BY <1>0, <1>1, PlacesOfRotations DEF Typed, TypeOK
    <3>2. written \subseteq DOMAIN appended
        BY <3>1
    <3> HIDE DEF written
    <3> QED
        BY <3>1, <3>2, PlacesAreFinite
  <2> HIDE DEF written
  <2>5. CountIsEnough'
      BY <1>0, <1>1, <2>2, <2>3, <2>4, CountRemembered DEF CountIsEnough
  <2>6. Room'
      BY <1>1, <2>2, <2>3 DEF Room
  <2> QED
      BY <1>3, <2>5, <2>6 DEF RoomParts
<1>7. CASE WriteOrphan("tray")
  <2>1. /\ UNCHANGED <<file, disturbed>> /\ rot["tray"].step = "orphan"
        /\ Remember("tray", Cardinality(file), Cardinality(rot["tray"].keep))
      BY <1>7 DEF WriteOrphan
  <2>2. CountIsEnough'
      BY <1>0, <1>1, <2>1, CountRemembered DEF CountIsEnough, OrphansHaveNoFile
  <2>3. Room'
      BY <1>0, <1>1, <2>1 DEF Room, Deciding
  <2> QED
      BY <1>3, <2>2, <2>3 DEF RoomParts
<1> QED
    BY <1>4, <1>5, <1>6, <1>7 DEF Rotate

(* The console's leaves the file as it was, empties it, or writes there, when  *)
(* it is undisturbed, less than the tray may have read.                        *)
LEMMA RoomConsoleRotates ==
    ASSUME RoomInv, Typed', Rotate("console")
    PROVE  RoomParts'
<1> USE DEF remote, store, sync, history
<1>0. /\ Typed /\ KeepsAreSmall /\ CountIsEnough /\ OrphansHaveNoFile
      /\ EmptyIsRemoved /\ ReadsWholeFile /\ Room
    BY DEF RoomInv, RoomParts
<1>1. /\ faults' = faults /\ faults \in Nat /\ MaxEntries \in Nat \ {0} /\ Batch \in Nat \ {0}
      /\ Cardinality(rot["console"].keep) \in Nat
      /\ Cardinality(rot["console"].keep) <= MaxEntries
      /\ rot \in [Processes -> Rotation] /\ "tray" \in Processes /\ "console" \in Processes
      /\ disturbed \in BOOLEAN
    BY <1>0, Sizes DEF Rotate, KeepAll, RemoveEmpty, FileHasGone, Truncate, Write, WriteOrphan,
                       KeepsAreSmall
<1>2. state' = state /\ (~disturbed' => ~disturbed)
  <2>1. state' = state
      BY DEF Rotate, KeepAll, RemoveEmpty, FileHasGone, Truncate, Write, WriteOrphan, Remember
  <2>2. ~disturbed' => ~disturbed
      BY DEF Rotate, KeepAll, RemoveEmpty, FileHasGone, Truncate, Write, WriteOrphan
  <2> QED
      BY <2>1, <2>2
<1>3. /\ rot'["tray"].lines = rot["tray"].lines /\ rot'["tray"].delete = rot["tray"].delete
      /\ Deciding' = Deciding
      /\ ~disturbed' => rot'["tray"].step = rot["tray"].step
  <2>1. CASE RemoveEmpty("console")
    <3>1. rot'["tray"] = Orphaned["tray"] /\ (~disturbed' => Orphaned = rot)
        BY <1>0, <1>1, <2>1, TypeOrphans DEF RemoveEmpty
    <3>2. Orphaned["tray"] = IF rot["tray"].step = "write"
                             THEN [rot["tray"] EXCEPT !.step = "orphan"] ELSE rot["tray"]
        BY <1>1 DEF Orphaned
    <3> QED
        BY <1>1, <3>1, <3>2 DEF Deciding, Rotation
  <2>2. CASE ~RemoveEmpty("console")
    <3>1. rot'["tray"] = rot["tray"]
        BY <1>1, <2>2 DEF Rotate, KeepAll, FileHasGone, Truncate, Write, WriteOrphan, EndRotation
    <3> QED
        BY <3>1 DEF Deciding
  <2> QED
      BY <2>1, <2>2
<1>4. exists' => exists
    BY DEF Rotate, KeepAll, RemoveEmpty, FileHasGone, Truncate, Write, WriteOrphan
<1>5. CountIsEnough' /\ OrphansHaveNoFile' /\ EmptyIsRemoved'
    BY <1>0, <1>2, <1>3, <1>4 DEF CountIsEnough, OrphansHaveNoFile, EmptyIsRemoved
<1>6. CASE KeepAll("console") \/ FileHasGone("console") \/ WriteOrphan("console")
  <2>1. file' = file /\ rot'["console"].step = "none"
      BY <1>1, <1>6 DEF KeepAll, FileHasGone, WriteOrphan, EndRotation, NoRotation
  <2> QED
      BY <1>0, <1>1, <1>2, <1>3, <1>5, <2>1 DEF RoomParts, Room, ReadsWholeFile
<1>7. CASE RemoveEmpty("console") \/ Truncate("console")
  <2>1. file' = {}
      BY <1>7 DEF RemoveEmpty, Truncate
  <2>2. Cardinality(file') = 0
      BY <2>1, FS_EmptySet
  <2>3. ~disturbed' /\ rot'["console"].step = "write" =>
            rot'["console"].keep \subseteq file
    <3> SUFFICES ASSUME ~disturbed', rot'["console"].step = "write"
                 PROVE  rot'["console"].keep \subseteq file
        OBVIOUS
    <3>1. ~RemoveEmpty("console")
        BY <1>0, <1>1, TypeOrphans DEF RemoveEmpty, NoRotation
    <3>2. file = rot["console"].lines /\ rot'["console"].keep = rot["console"].keep
        BY <1>1, <1>7, <3>1 DEF Truncate, Rotation
    <3> QED
        BY <1>0, <1>1, <3>2 DEF Typed, TypeOK
  <2>4. ReadsWholeFile'
      BY <1>0, <1>2, <1>3, <2>1, <2>3 DEF ReadsWholeFile
  <2>5. Room'
      BY <1>1, <2>2 DEF Room
  <2> QED
      BY <1>5, <2>4, <2>5 DEF RoomParts
<1>8. CASE Write("console")
  <2>1. ~disturbed' => ~disturbed /\ file = {} /\ file' = rot["console"].keep
      BY <1>8 DEF Write
  <2>2. rot["console"].step = "write" /\ rot'["console"].step = "none"
      BY <1>1, <1>8 DEF Write, EndRotation, NoRotation
  <2>3. ReadsWholeFile'
      BY <1>0, <1>3, <2>1, <2>2 DEF ReadsWholeFile
  <2>4. Room'
      BY <1>1, <2>1 DEF Room
  <2> QED
      BY <1>5, <2>3, <2>4 DEF RoomParts
<1> QED
    BY <1>6, <1>7, <1>8 DEF Rotate

LEMMA RoomClear == ASSUME RoomInv, Typed', Clear PROVE RoomParts'
<1>0. Typed /\ CountIsEnough /\ EmptyIsRemoved
    BY DEF RoomInv, RoomParts
<1>1. /\ file' = {} /\ ~exists' /\ rot' = Orphaned
      /\ UNCHANGED <<state, disturbed, faults>>
    BY DEF Clear
<1>2. /\ faults \in Nat /\ MaxEntries \in Nat \ {0} /\ Batch \in Nat \ {0}
      /\ rot \in [Processes -> Rotation] /\ "tray" \in Processes /\ "console" \in Processes
    BY <1>0, Sizes
<1>3. \A q \in Processes :
          rot'[q] = IF rot[q].step = "write" THEN [rot[q] EXCEPT !.step = "orphan"] ELSE rot[q]
    BY <1>1, <1>2 DEF Orphaned
<1>4. /\ rot'["tray"].lines = rot["tray"].lines /\ rot'["tray"].delete = rot["tray"].delete
      /\ Deciding' = Deciding /\ rot'["console"].step # "write"
    BY <1>2, <1>3 DEF Deciding, Rotation
<1>5. Cardinality(file') = 0
    BY <1>1, FS_EmptySet
<1>6. Room'
    BY <1>1, <1>2, <1>5 DEF Room
<1> QED
    BY <1>0, <1>1, <1>4, <1>6 DEF RoomParts, CountIsEnough, OrphansHaveNoFile, EmptyIsRemoved,
                                  ReadsWholeFile

LEMMA RoomStays ==
    ASSUME RoomInv, UNCHANGED <<file, exists, disturbed, rot>>, faults <= faults',
           faults' \in Nat, state' = state \/ state' = NoState
    PROVE  RoomParts'
<1>1. /\ faults \in Nat /\ MaxEntries \in Nat \ {0} /\ Batch \in Nat \ {0}
      /\ Cardinality(file) \in Nat
    BY Sizes DEF RoomInv
<1>2. Room'
    BY <1>1 DEF RoomInv, RoomParts, Room, Deciding
<1> QED
    BY <1>2 DEF RoomInv, RoomParts, CountIsEnough, OrphansHaveNoFile, EmptyIsRemoved,
                ReadsWholeFile, Deciding, NoState

LEMMA RoomSync ==
    ASSUME RoomInv, Typed',
           \/ Elsewhere \/ Fetch \/ EndSync \/ SyncFails \/ UNCHANGED vars
           \/ \E e \in todo : SkipSeen(e) \/ PassOver(e) \/ Mark(e) \/ RecordFails(e)
    PROVE  RoomParts'
<1>1. /\ UNCHANGED <<file, exists, disturbed, rot, state>>
      /\ faults' = faults \/ faults' = faults + 1
    BY DEF Elsewhere, Fetch, EndSync, SyncFails, vars, SkipSeen, PassOver,
           Mark, RecordFails, Fault, remote, store, history
<1>2. faults \in Nat
    BY Sizes DEF RoomInv
<1> QED
    BY <1>1, <1>2, RoomStays

LEMMA RoomCutShort ==
    ASSUME RoomInv, Typed', NEW p \in Processes, RotationFails(p) \/ Crash(p)
    PROVE  RoomParts'
<1>0. /\ Typed /\ CountIsEnough /\ OrphansHaveNoFile /\ EmptyIsRemoved /\ ReadsWholeFile
      /\ Room
    BY DEF RoomInv, RoomParts
<1>1. /\ faults \in Nat /\ MaxEntries \in Nat \ {0} /\ Batch \in Nat \ {0}
      /\ Cardinality(file) \in Nat
      /\ rot \in [Processes -> Rotation] /\ "tray" \in Processes /\ "console" \in Processes
    BY <1>0, Sizes
<1>2. /\ UNCHANGED <<file, exists>> /\ CutShort(p) /\ faults' = faults + 1
      /\ state' = state \/ state' = NoState
    BY DEF RotationFails, Crash, store, Fault
<1>3. ~disturbed' => ~disturbed
    BY <1>2 DEF CutShort
<1>4. \A q \in Processes : rot'[q] = NoRotation \/ rot'[q] = rot[q]
    BY <1>1, <1>2 DEF CutShort, EndRotation
<1>5. Room'
    BY <1>0, <1>1, <1>2, <1>3 DEF Room
<1>6. CountIsEnough'
    BY <1>0, <1>2, <1>3 DEF CountIsEnough, NoState
<1>7. OrphansHaveNoFile' /\ EmptyIsRemoved' /\ ReadsWholeFile'
    BY <1>0, <1>1, <1>2, <1>3, <1>4 DEF OrphansHaveNoFile, EmptyIsRemoved, ReadsWholeFile,
                                        Deciding, NoRotation
<1> QED
    BY <1>5, <1>6, <1>7 DEF RoomParts

LEMMA RoomReads ==
    ASSUME RoomInv, Typed', StartSync \/ ReadHistory
    PROVE  RoomParts'
<1> USE DEF remote, store, history
<1>0. /\ Typed /\ CountIsEnough /\ OrphansHaveNoFile /\ EmptyIsRemoved /\ ReadsWholeFile
      /\ Room
    BY DEF RoomInv, RoomParts
<1>1. /\ faults \in Nat /\ "tray" \in Processes /\ "console" \in Processes
      /\ rot \in [Processes -> Rotation]
    BY <1>0, Sizes
<1>2. CASE ReadHistory
  <2>1. /\ UNCHANGED <<file, exists, disturbed, state, faults>> /\ rot'["tray"] = rot["tray"]
        /\ rot'["console"].step = "decide"
      BY <1>1, <1>2 DEF ReadHistory, BeginRotation
  <2> QED
      BY <1>0, <2>1 DEF RoomParts, CountIsEnough, OrphansHaveNoFile, EmptyIsRemoved,
                        ReadsWholeFile, Room, Deciding
<1>3. CASE StartSync /\ rot' = BeginRotation("tray", appended, file, TRUE)
  <2>1. UNCHANGED <<file, exists, disturbed, faults>> /\ (state' = state \/ state' = NoState)
      BY <1>3 DEF StartSync
  <2>2. /\ Deciding' /\ rot'["tray"].lines = file /\ rot'["tray"].delete = TRUE
        /\ rot'["tray"].step = "decide"
      BY <1>1, <1>3 DEF BeginRotation, Deciding
  <2>3. CountIsEnough' /\ Room'
      BY <1>0, <2>1, <2>2 DEF CountIsEnough, Room, NoState
  <2>4. OrphansHaveNoFile' /\ EmptyIsRemoved' /\ ReadsWholeFile'
      BY <2>1, <2>2 DEF OrphansHaveNoFile, EmptyIsRemoved, ReadsWholeFile
  <2> QED
      BY <2>3, <2>4 DEF RoomParts
<1>4. CASE StartSync /\ rot' = rot
  <2>1. UNCHANGED <<file, exists, disturbed, faults>> /\ (state' = state \/ state' = NoState)
      BY <1>4 DEF StartSync
  <2> QED
      BY <1>1, <1>4, <2>1, RoomStays
<1> QED
    BY <1>2, <1>3, <1>4 DEF StartSync

LEMMA RoomImport ==
    ASSUME RoomInv, Typed', NEW e \in todo, Import(e)
    PROVE  RoomParts'
<1> USE DEF remote, history
<1>0. Typed /\ CountIsEnough /\ Room /\ rot["tray"].step = "none"
    BY DEF RoomInv, RoomParts, RotatesAlone, Free, Import
<1>1. /\ faults' = faults /\ disturbed' = disturbed
      /\ faults \in Nat /\ MaxEntries \in Nat \ {0} /\ Batch \in Nat \ {0}
      /\ IsFiniteSet(file) /\ Cardinality(file) \in Nat
      /\ file = {} => Cardinality(file) = 0
      /\ rot \in [Processes -> Rotation] /\ "tray" \in Processes
      /\ state \in State \cup {NoState}
  <2>1. faults' = faults /\ disturbed' = disturbed
      BY DEF Import
  <2>2. state \in State \cup {NoState}
      BY <1>0 DEF Typed, TypeOK
  <2> QED
      BY <1>0, <2>1, <2>2, Sizes
<1>2. file' = file \cup {Len(appended) + 1} /\ file' # {}
    BY <1>0, AppendedGrows
<1>3. Cardinality(file') \in Nat /\ Cardinality(file') <= Cardinality(file) + 1
  <2>1. Cardinality(file \cup {Len(appended) + 1}) \in {Cardinality(file), Cardinality(file) + 1}
      BY <1>1, FS_AddElement
  <2> QED
      BY <1>1, <1>2, <2>1
<1>4. ~disturbed => Cardinality(file) < MaxEntries + Batch + faults
    BY <1>0 DEF Room, Deciding
<1>5. ~disturbed => Cardinality(file') <= MaxEntries + Batch + faults
    BY <1>1, <1>3, <1>4
<1>6. rot' = BeginRotation("tray", appended', file', FALSE) \/ rot' = rot
    BY DEF Import, Appended
<1>7. OrphansHaveNoFile' /\ EmptyIsRemoved' /\ ReadsWholeFile'
  <2>1. CASE rot' = BeginRotation("tray", appended', file', FALSE)
    <3>1. rot'["tray"].lines = file' /\ rot'["tray"].step = "decide"
        BY <1>1, <2>1 DEF BeginRotation
    <3> QED
        BY <1>2, <3>1 DEF OrphansHaveNoFile, EmptyIsRemoved, ReadsWholeFile
  <2>2. CASE rot' = rot
      BY <1>0, <2>2 DEF OrphansHaveNoFile, EmptyIsRemoved, ReadsWholeFile, Deciding
  <2> QED
      BY <1>6, <2>1, <2>2
<1>8. CountIsEnough' /\ (~disturbed /\ ~Deciding' =>
                           Cardinality(file') < MaxEntries + Batch + faults)
  <2> SUFFICES ASSUME ~disturbed
               PROVE  /\ state'.known =>
                             state'.size <= state'.count /\ state'.next <= MaxEntries + Batch
                      /\ ~Deciding' => Cardinality(file') < MaxEntries + Batch + faults
      BY <1>1 DEF CountIsEnough
  <2>1. ASSUME rot' = BeginRotation("tray", appended', file', FALSE) PROVE Deciding'
      BY <1>1, <2>1 DEF BeginRotation, Deciding
  <2>2. CASE ~state.known /\ file = {}
    <3>1. \/ /\ state' = [known |-> TRUE, size |-> Cardinality(file'),
                          count |-> Cardinality(file'), next |-> MaxEntries + 1]
          \/ state' = state /\ Deciding'
        BY <2>1, <2>2 DEF Import, Appended
    <3>2. Cardinality(file') <= 1
        BY <1>1, <1>3, <2>2
    <3> QED
        BY <1>1, <1>3, <2>2, <3>1, <3>2
  <2>3. CASE state' = state /\ Deciding'
      BY <1>0, <2>3 DEF CountIsEnough
  <2>4. CASE state.known /\ Cardinality(file) >= state.size
    <3> DEFINE count == state.count + Cardinality(file') - state.size
    <3>1. state \in State /\ state.size <= state.count /\ state.next <= MaxEntries + Batch
        BY <1>0, <1>1, <2>4 DEF NoState, CountIsEnough
    <3>2. \/ state' = state /\ Deciding'
          \/ /\ state' = [state EXCEPT !.size = Cardinality(file'), !.count = count]
             /\ Deciding' \/ ~(count > MaxEntries /\ count >= state.next)
        BY <1>1, <2>1, <2>4 DEF Import, Appended
    <3>3. count \in Int /\ Cardinality(file') <= count
        BY <1>3, <3>1 DEF State
    <3>4. ASSUME state' = [state EXCEPT !.size = Cardinality(file'), !.count = count]
          PROVE  /\ state'.size = Cardinality(file') /\ state'.count = count
                 /\ state'.next = state.next
        BY <3>1, <3>4 DEF State
    <3>5. ~(count > MaxEntries /\ count >= state.next) =>
              Cardinality(file') < MaxEntries + Batch + faults
        BY <1>1, <1>3, <3>1, <3>3 DEF State
    <3> HIDE DEF count
    <3> QED
        BY <3>1, <3>2, <3>3, <3>4, <3>5
  <2> QED
      BY <2>1, <2>2, <2>3, <2>4 DEF Import, Appended
<1>9. Room'
    BY <1>1, <1>5, <1>8 DEF Room
<1> QED
    BY <1>7, <1>8, <1>9 DEF RoomParts

LEMMA RoomNext ==
    ASSUME RoomInv, Typed', [Next]_vars
    PROVE  RoomParts'
<1>1. ASSUME NEW e \in todo, Import(e) PROVE RoomParts'
    BY <1>1, RoomImport
<1>2. CASE Tray
    BY <1>1, <1>2, RoomReads, RoomSync DEF Tray
<1>3. CASE \E p \in Processes : Rotate(p)
    BY <1>3, RoomTrayRotates, RoomConsoleRotates DEF Processes
<1>4. CASE \E p \in Processes : RotationFails(p) \/ Crash(p)
    BY <1>4, RoomCutShort
<1>5. CASE Elsewhere \/ SyncFails \/ UNCHANGED vars \/ \E e \in todo : RecordFails(e)
    BY <1>5, RoomSync
<1> QED
    BY <1>2, <1>3, <1>4, <1>5, RoomClear, RoomReads DEF Next

HistoryInv == IInv /\ ReadersKeep /\ KeptOrHeld /\ KeepsAreSmall /\ RoomParts

LEMMA HistoryStarts == Init => HistoryInv
<1> SUFFICES ASSUME Init PROVE HistoryInv
    OBVIOUS
<1>1. IInv
    BY InvariantStarts
<1>2. \A p \in Processes : rot[p] = NoRotation
    BY DEF Init
<1>3. Recent = {} /\ file = {} /\ ~state.known /\ faults = 0
    BY DEF Init, Recent, NoState
<1>4. ReadersKeep /\ KeptOrHeld
    BY <1>3 DEF ReadersKeep, KeptOrHeld
<1>5. KeepsAreSmall /\ Cardinality(file) = 0
    BY <1>2, <1>3, FS_EmptySet, MirrorAssumption DEF KeepsAreSmall, NoRotation
<1>6. RoomParts
    BY <1>2, <1>3, <1>5, MirrorAssumption
       DEF RoomParts, CountIsEnough, OrphansHaveNoFile, EmptyIsRemoved, ReadsWholeFile, Room,
           Deciding, NoRotation, Processes
<1> QED
    BY <1>1, <1>4, <1>5, <1>6 DEF HistoryInv

LEMMA HistoryStays == HistoryInv /\ [Next]_vars => HistoryInv'
<1> SUFFICES ASSUME HistoryInv, [Next]_vars PROVE HistoryInv'
    OBVIOUS
<1>1. IInv' /\ Typed'
    BY InvariantStays DEF HistoryInv, IInv
<1>2. ReadersKeep' /\ KeptOrHeld'
    BY <1>1, RecentNext DEF HistoryInv, IInv, RecentInv
<1>3. KeepsAreSmall'
    BY KeepsStaySmall DEF HistoryInv, IInv
<1>4. RoomParts'
    BY <1>1, RoomNext DEF HistoryInv, IInv, RoomInv
<1> QED
    BY <1>1, <1>2, <1>3, <1>4 DEF HistoryInv

(* The file's rotation keeps what its comments say: unless a rewrite was cut   *)
(* short or met another process's, the last max_entries records that have not  *)
(* expired stay, and the file holds at most a batch of records more, and one   *)
(* for each rotation that failed.                                              *)
THEOREM HistoryIsKept == Spec => []HistoryKept
<1>1. HistoryInv => HistoryKept
    BY DEF HistoryInv, RoomParts, Room, HistoryKept, Bounded, RecentKept, KeptOrHeld, HeldBy
<1> QED
    BY <1>1, HistoryStarts, HistoryStays, PTL DEF Spec
=============================================================================

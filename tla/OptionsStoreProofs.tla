--------------------------- MODULE OptionsStoreProofs ---------------------------
(***************************************************************************)
(* Proofs about OptionsStore for any number of changes, crashes, failing   *)
(* operations and damaged databases, and for every choice of modes.        *)
(***************************************************************************)
EXTENDS OptionsStore, TLAPS

D == disk["default"]
T == disk["tmp"]
B == disk["backup"]

Record == [there : BOOLEAN, shelf : Content, mirror : Content]

\* The defaults are settings, and the directories of Init and Start are well formed.
LEMMA FreshSettings == Fresh \in Settings /\ Gone \in Record /\ Empty \in Record
  BY DEF Fresh, Settings, AllModes, Gone, Empty, Record, Content

\* So are settings with keys missing.
LEMMA PartlySettings == ASSUME NEW s \in Settings PROVE Partly(s) \in Settings
  BY DEF Partly, Settings

\* Each directory is well formed.
LEMMA Parts == ASSUME TypeOK PROVE D \in Record /\ T \in Record /\ B \in Record
  BY DEF TypeOK, D, T, B, Record, Dirs

\* What a start loads are settings.
LEMMA LoadsSettings ==
    ASSUME TypeOK
    PROVE  /\ Loads \in Settings
           /\ EmergencyLoads => EmergencySource \in Settings
           /\ ShelfLoads \in Content
  <1> USE Parts, NothingAssumption DEF Record, Content, D, T, B
  <1>1. ShelfLoads \in Content
    BY DEF ShelfLoads
  <1>2. EmergencyLoads => EmergencySource \in Settings
    BY DEF EmergencyLoads, EmergencySource, Allows
  <1>3. PrimaryLoads => disk["default"].mirror \in Settings
    BY DEF PrimaryLoads
  <1> QED
    BY <1>1, <1>2, <1>3, FreshSettings DEF Loads

-----------------------------------------------------------------------------
(* Types. *)

\* The initial state has its types.
LEMMA InitTypes == Init => TypeOK
  <1> SUFFICES ASSUME Init PROVE TypeOK
    OBVIOUS
  <1>1. disk \in [Dirs -> Record]
    BY FreshSettings DEF Init
  <1> QED
    BY <1>1, FreshSettings DEF Init, TypeOK, Steps, Record

\* A write keeps the types.
LEMMA WriteTypes == TypeOK /\ WriteStep => TypeOK'
  <1> SUFFICES ASSUME TypeOK, WriteStep PROVE TypeOK'
    OBVIOUS
  <1> USE FreshSettings, PartlySettings DEF history, counts, files, Proceed, Steps
  <1>d. disk \in [Dirs -> Record]
    BY DEF TypeOK, Record
  <1>1. ASSUME NEW d \in Dirs, RemovePart(d) PROVE TypeOK'
    <2>0. PICK r \in Record : disk' = [disk EXCEPT ![d] = r]
      <3>1. PICK s \in {disk[d].shelf, Nothing}, m \in {disk[d].mirror, Nothing} :
               disk' = [disk EXCEPT ![d].shelf = s, ![d].mirror = m]
        BY <1>1 DEF RemovePart
      <3>2. disk[d] \in Record
        BY <1>d
      <3>3. [disk[d] EXCEPT !.shelf = s, !.mirror = m] \in Record
        BY <3>1, <3>2 DEF Record, Content
      <3>4. disk' = [disk EXCEPT ![d] = [disk[d] EXCEPT !.shelf = s, !.mirror = m]]
        BY <3>1, <1>d
      <3> QED
        BY <3>3, <3>4
    <2>1. disk' \in [Dirs -> Record]
      BY <2>0, <1>d
    <2> QED
      BY <1>1, <2>1 DEF RemovePart, TypeOK, Record
  <1>2. CASE ClearTmp \/ WritePart \/ WriteShelf \/ WriteMirror
    <2>1. disk' \in [Dirs -> Record]
      BY <1>2, <1>d DEF ClearTmp, WritePart, WriteShelf, WriteMirror, Record, Content, TypeOK, Dirs
    <2> QED
      BY <1>2, <2>1 DEF ClearTmp, WritePart, WriteShelf, WriteMirror, TypeOK, Record
  <1>3. CASE WriteNoMirror
    BY <1>3 DEF WriteNoMirror, TypeOK
  <1>4. CASE KeepBackup \/ DropBackup \/ MoveToBackup \/ DropDefault \/ NoDefault \/ Install
    <2>1. disk' \in [Dirs -> Record]
      BY <1>4, <1>d DEF KeepBackup, DropBackup, MoveToBackup, DropDefault, NoDefault, Install, Dirs
    <2>2. backupYoung' \in BOOLEAN /\ safe' \in BOOLEAN
      BY <1>4, Zenon DEF KeepBackup, DropBackup, MoveToBackup, DropDefault, NoDefault, Install, TypeOK
    <2>3. step' \in Steps
      BY <1>4 DEF KeepBackup, DropBackup, MoveToBackup, DropDefault, NoDefault, Install
    <2>4. /\ UNCHANGED <<up, current, pending, caller, answer, primaryMarker,
                         emergencyMarker, stored, attempt, verified, counts>>
      BY <1>4 DEF KeepBackup, DropBackup, MoveToBackup, DropDefault, NoDefault, Install
    <2> QED
      BY <2>1, <2>2, <2>3, <2>4 DEF TypeOK, Record
  <1>5. CASE SyncMarkers
    <2>1. primaryMarker' \in BOOLEAN /\ emergencyMarker' \in BOOLEAN /\ verified' \in BOOLEAN
      BY <1>5 DEF SyncMarkers
    <2>2. answer' \in {"none", "saved", "flushed", "failed"}
      BY <1>5 DEF SyncMarkers
    <2> QED
      BY <1>5, <2>1, <2>2 DEF SyncMarkers, TypeOK
  <1>6. CASE WriteFails \/ StrictReject
    <2>1. disk' \in [Dirs -> Record]
      BY <1>6, <1>d DEF WriteFails, StrictReject, Dirs
    <2>2. answer' \in {"none", "saved", "flushed", "failed"}
      BY <1>6 DEF WriteFails, StrictReject, Abort
    <2> QED
      BY <1>6, <2>1, <2>2 DEF WriteFails, StrictReject, Abort, TypeOK, Record
  <1> QED
    BY <1>1, <1>2, <1>3, <1>4, <1>5, <1>6 DEF WriteStep

\* So do the start of the process, a change, and the surroundings.
LEMMA OtherTypes ==
    TypeOK /\ (Next \/ UNCHANGED vars) /\ ~WriteStep => TypeOK'
  <1> SUFFICES ASSUME TypeOK, Next \/ UNCHANGED vars, ~WriteStep PROVE TypeOK'
    OBVIOUS
  <1> USE FreshSettings, LoadsSettings, ConstantsAssumption DEF history, counts, files, Steps
  <1>d. disk \in [Dirs -> Record]
    BY DEF TypeOK, Record
  <1>1. CASE Start
    <2>1. disk' \in [Dirs -> Record]
      BY <1>1, <1>d DEF Start, Record, Content, Dirs, Empty, Gone
    <2>2. pending' \in BOOLEAN /\ verified' \in BOOLEAN
      BY <1>1, Zenon DEF Start, PrimaryLoads, TypeOK
    <2> QED
      BY <1>1, <2>1, <2>2 DEF Start, TypeOK, Record
  <1>2. CASE RecoveryStops
    <2>1. disk' \in [Dirs -> Record]
      BY <1>2, <1>d, PartlySettings DEF RecoveryStops, Record, Content, Dirs, Empty, Gone
    <2>2. crashes' \in Nat
      BY <1>2 DEF RecoveryStops, TypeOK
    <2>3. UNCHANGED <<up, current, pending, step, caller, answer, primaryMarker, emergencyMarker,
                      backupYoung, history, changes, failures, damage>>
      BY <1>2 DEF RecoveryStops
    <2> QED
      BY <2>1, <2>2, <2>3 DEF TypeOK, Record
  <1>3. ASSUME NEW m \in Modes, Change(m) PROVE TypeOK'
    BY <1>3 DEF Change, TypeOK, Settings
  <1>4. ASSUME NEW c \in Callers, BeginWrite(c) PROVE TypeOK'
    <2>1. primaryMarker' \in BOOLEAN /\ emergencyMarker' \in BOOLEAN /\ safe' \in BOOLEAN
      BY <1>4, Zenon DEF BeginWrite
    <2> QED
      BY <1>4, <2>1 DEF BeginWrite, TypeOK
  <1>5. CASE Crash \/ HourPasses
    <2>1. crashes' \in Nat
      BY <1>5 DEF Crash, HourPasses, TypeOK
    <2>2. up' \in BOOLEAN /\ pending' \in BOOLEAN /\ backupYoung' \in BOOLEAN
      BY <1>5, Zenon DEF Crash, HourPasses, TypeOK
    <2>3. /\ step' \in Steps /\ answer' \in {"none", "saved", "flushed", "failed"}
          /\ UNCHANGED <<current, caller, disk, primaryMarker, emergencyMarker, history, changes, failures, damage>>
      BY <1>5 DEF Crash, HourPasses, TypeOK
    <2> QED
      BY <2>1, <2>2, <2>3 DEF TypeOK
  <1>6. ASSUME NEW d \in Dirs, Damage(d) PROVE TypeOK'
    <2>1. disk' \in [Dirs -> Record]
      BY <1>6, <1>d DEF Damage, Record, Content
    <2>2. damage' \in Nat
      BY <1>6 DEF Damage, TypeOK
    <2>3. /\ answer' = "none" /\ safe' = FALSE
          /\ UNCHANGED <<up, current, pending, step, caller, primaryMarker, emergencyMarker,
                         backupYoung, stored, attempt, verified, changes, crashes,
                         failures>>
      BY <1>6 DEF Damage
    <2> QED
      BY <2>1, <2>2, <2>3 DEF TypeOK, Record
  <1>7. CASE UNCHANGED vars
    BY <1>7 DEF vars, TypeOK
  <1> QED
    BY <1>1, <1>2, <1>3, <1>4, <1>5, <1>6, <1>7 DEF Next

\* The type invariant, for every value of the constants.
THEOREM OptionsTypes == Spec => []TypeOK
  <1>1. TypeOK /\ [Next]_vars => TypeOK'
    BY WriteTypes, OtherTypes DEF WriteStep
  <1> QED
    BY <1>1, InitTypes, PTL DEF Spec

-----------------------------------------------------------------------------
(* Nothing is lost. *)

\* What is in the temporary directory is the whole new settings.
Written == T.there /\ T.shelf = attempt /\ T.mirror \in {attempt, Nothing}

\* The active directory holds the old settings, whichever of its databases is read.
PrimaryAgrees == PrimaryLoads => D.mirror = stored
Intact == D.shelf = stored /\ PrimaryAgrees

\* Where a write is says what the directories hold, whether it began safely or not ...
Progress ==
    /\ step # "idle" => up /\ attempt = current
    /\ ~D.there => D.shelf = Nothing /\ D.mirror = Nothing
    /\ step \in {"shelf", "mirror"} => T.there /\ T.mirror = Nothing
    /\ step = "mirror" => T.shelf = attempt
    /\ step \in {"backup", "default", "install"} => Written
    /\ step = "install" => D.shelf = Nothing /\ D.mirror = Nothing
    /\ step = "sync" => /\ safe /\ D.shelf = attempt
                        /\ D.mirror \in {attempt, Nothing}

\* ... and, for a write that did, that one of the two settings can be loaded.
Kept ==
    safe =>
      /\ step \in {"clear", "shelf", "mirror", "backup"} => Intact
      /\ step = "default" => D.shelf \in {stored, Nothing} /\ PrimaryAgrees
      /\ step = "idle" => /\ Loads \in {stored, attempt}
                          /\ ~EmergencyLoads
                          /\ up => PrimaryAgrees

IInv == TypeOK /\ Progress /\ Kept

\* The invariant holds initially.
LEMMA InitKept == Init => IInv
  <1> SUFFICES ASSUME Init PROVE IInv
    OBVIOUS
  <1>1. TypeOK
    BY InitTypes
  <1>2. D = Gone /\ T = Gone /\ B = Gone
    BY DEF Init, D, T, B, Dirs
  <1>3. ~PrimaryLoads /\ ~EmergencyLoads /\ ShelfLoads = Nothing
    BY <1>2 DEF PrimaryLoads, EmergencyLoads, ShelfLoads, D, T, B, Gone, Init
  <1>4. Loads = Fresh
    BY <1>3 DEF Loads
  <1> QED
    BY <1>1, <1>2, <1>3, <1>4 DEF Init, IInv, Progress, Kept, Gone

\* In every state of a write the invariant is what the property asks for.
LEMMA KeptIsEnough == IInv => CrashKeepsSettings
  <1> SUFFICES ASSUME IInv, safe PROVE Loads \in {stored, attempt}
    BY DEF CrashKeepsSettings
  <1>n. stored # Nothing /\ attempt # Nothing
    BY NothingAssumption DEF IInv, TypeOK
  <1>1. CASE step = "idle"
    BY <1>1 DEF IInv, Kept
  <1>2. CASE step \in {"clear", "shelf", "mirror", "backup"}
    <2>1. D.shelf = stored /\ (PrimaryLoads => D.mirror = stored)
      BY <1>2 DEF IInv, Kept, Intact, PrimaryAgrees
    <2>2. ShelfLoads = stored
      BY <2>1, <1>n DEF ShelfLoads, D
    <2> QED
      BY <2>1, <2>2, <1>n DEF Loads, D
  <1>3. CASE step = "default"
    <2>1. /\ D.shelf \in {stored, Nothing} /\ (PrimaryLoads => D.mirror = stored)
          /\ T.shelf = attempt
      BY <1>3 DEF IInv, Kept, Progress, Written, PrimaryAgrees
    <2>2. ShelfLoads \in {stored, attempt}
      BY <2>1, <1>n DEF ShelfLoads, D, T
    <2> QED
      BY <2>1, <2>2, <1>n DEF Loads, D
  <1>4. CASE step = "install"
    <2>1. D.shelf = Nothing /\ D.mirror = Nothing /\ T.shelf = attempt
      BY <1>4 DEF IInv, Progress, Written
    <2>2. ShelfLoads = attempt /\ ~PrimaryLoads
      BY <2>1, <1>n DEF ShelfLoads, PrimaryLoads, D, T
    <2> QED
      BY <2>2, <1>n DEF Loads
  <1>5. CASE step = "sync"
    <2>1. D.shelf = attempt /\ D.mirror \in {attempt, Nothing}
      BY <1>5 DEF IInv, Progress
    <2>2. ShelfLoads = attempt /\ (PrimaryLoads => D.mirror = attempt)
      BY <2>1, <1>n DEF ShelfLoads, PrimaryLoads, D
    <2> QED
      BY <2>2, <1>n DEF Loads, D
  <1> QED
    BY <1>1, <1>2, <1>3, <1>4, <1>5 DEF IInv, TypeOK, Steps

-----------------------------------------------------------------------------
(* Every step keeps the invariant. *)

\* What a start would load depends on the files only.
LEMMA SameFiles ==
    UNCHANGED <<disk, primaryMarker, emergencyMarker>> =>
      UNCHANGED <<Loads, ShelfLoads, PrimaryLoads, EmergencyLoads, D, T, B>>
  BY DEF Loads, ShelfLoads, PrimaryLoads, EmergencyLoads, EmergencySource, Allows, D, T, B

\* A write that has stopped half-way leaves a state the process can go on from.
LEMMA Stopped ==
    ASSUME IInv, safe, step \notin {"idle", "sync"}
    PROVE  Loads \in {stored, attempt} /\ ~EmergencyLoads /\ PrimaryAgrees
  <1>n. stored # Nothing /\ attempt # Nothing
    BY NothingAssumption DEF IInv, TypeOK
  <1>1. Loads \in {stored, attempt}
    BY KeptIsEnough DEF CrashKeepsSettings
  <1>2. CASE step \in {"clear", "shelf", "mirror", "backup"}
    BY <1>1, <1>2, <1>n DEF IInv, Kept, Intact, EmergencyLoads, ShelfLoads, D
  <1>3. CASE step = "default"
    BY <1>1, <1>3, <1>n DEF IInv, Kept, Progress, Written, EmergencyLoads, ShelfLoads, D, T
  <1>4. CASE step = "install"
    BY <1>1, <1>4, <1>n DEF IInv, Progress, Written, EmergencyLoads, ShelfLoads, PrimaryAgrees,
                            PrimaryLoads, D, T
  <1> QED
    BY <1>2, <1>3, <1>4 DEF IInv, TypeOK, Steps

\* Removing files touches nothing that has to be kept.
LEMMA RemovePartKeeps ==
    ASSUME IInv, NEW d \in Dirs, RemovePart(d) PROVE Progress' /\ Kept'
  <1>1. PICK s \in {disk[d].shelf, Nothing}, m \in {disk[d].mirror, Nothing} :
           disk' = [disk EXCEPT ![d].shelf = s, ![d].mirror = m]
    BY DEF RemovePart
  <1>2. UNCHANGED <<up, current, step, primaryMarker, emergencyMarker, stored, attempt, safe>>
    BY DEF RemovePart, Proceed
  <1>3. D \in Record /\ T \in Record /\ B \in Record /\ disk \in [Dirs -> Record]
    BY Parts DEF IInv, TypeOK, Record
  <1>4. CASE d = "tmp" /\ step = "clear"
    <2>1. D' = D
      BY <1>1, <1>3, <1>4 DEF D, Dirs
    <2> QED
      BY <1>2, <1>4, <2>1 DEF IInv, Progress, Kept, Intact, PrimaryAgrees, PrimaryLoads, D
  <1>5. CASE d = "backup" /\ step = "backup"
    <2>1. D' = D /\ T' = T
      BY <1>1, <1>3, <1>5 DEF D, T, Dirs
    <2> QED
      BY <1>2, <1>5, <2>1 DEF IInv, Progress, Kept, Intact, PrimaryAgrees, PrimaryLoads, Written, D
  <1>6. CASE d = "default" /\ step = "default"
    <2>1. /\ T' = T /\ D'.there = D.there
          /\ D'.shelf \in {D.shelf, Nothing} /\ D'.mirror \in {D.mirror, Nothing}
      BY <1>1, <1>3, <1>6 DEF D, T, Dirs, Record
    <2> QED
      BY <1>2, <1>6, <2>1 DEF IInv, Progress, Kept, PrimaryAgrees, PrimaryLoads, Written, D
  <1> QED
    BY <1>4, <1>5, <1>6 DEF RemovePart, Removes

\* The temporary directory is filled while the active one is left alone.
LEMMA FillingKeeps ==
    ASSUME IInv, ClearTmp \/ WritePart \/ WriteShelf \/ WriteMirror \/ WriteNoMirror
    PROVE  Progress' /\ Kept'
  <1>1. UNCHANGED <<up, current, primaryMarker, emergencyMarker, stored, attempt, safe>>
    BY DEF ClearTmp, WritePart, WriteShelf, WriteMirror, WriteNoMirror, Proceed, files, history
  <1>2. disk \in [Dirs -> Record] /\ T \in Record
    BY Parts DEF IInv, TypeOK, Record
  <1>3. D' = D
    BY <1>2 DEF ClearTmp, WritePart, WriteShelf, WriteMirror, WriteNoMirror, files, D, Dirs
  <1>4. CASE ClearTmp
    <2>1. T' = Empty
      BY <1>2, <1>4 DEF ClearTmp, T, Dirs
    <2> QED
      BY <1>1, <1>3, <1>4, <2>1 DEF ClearTmp, Proceed, Empty, Gone, IInv, Progress, Kept, Intact,
                                    PrimaryAgrees, PrimaryLoads, D
  <1>5. CASE WritePart \/ WriteShelf
    <2>1. /\ T'.there = T.there /\ T'.mirror = T.mirror
          /\ WriteShelf => T'.shelf = current
      BY <1>2, <1>5 DEF WritePart, WriteShelf, T, Dirs, Record
    <2> QED
      BY <1>1, <1>3, <1>5, <2>1 DEF WritePart, WriteShelf, Proceed, IInv, Progress, Kept, Intact,
                                    PrimaryAgrees, PrimaryLoads, D
  <1>6. CASE WriteMirror \/ WriteNoMirror
    <2>1. /\ T'.there = T.there /\ T'.shelf = T.shelf
          /\ T'.mirror \in {current, T.mirror}
      BY <1>2, <1>6 DEF WriteMirror, WriteNoMirror, files, T, Dirs, Record
    <2>2. step = "mirror" /\ step' = "backup"
      BY <1>6 DEF WriteMirror, WriteNoMirror, Proceed
    <2>3. Written'
      BY <1>1, <2>1, <2>2 DEF IInv, Progress, Written
    <2> QED
      BY <1>1, <1>3, <2>2, <2>3 DEF IInv, Progress, Kept, Intact, PrimaryAgrees, PrimaryLoads, D
  <1> QED
    BY <1>4, <1>5, <1>6

\* The backup is settled, then the active directory goes: the new settings are complete by then.
LEMMA RotationKeeps ==
    ASSUME IInv, KeepBackup \/ DropBackup \/ MoveToBackup \/ DropDefault \/ NoDefault
    PROVE  Progress' /\ Kept'
  <1>1. UNCHANGED <<up, current, primaryMarker, emergencyMarker, stored, attempt, safe>>
    BY DEF KeepBackup, DropBackup, MoveToBackup, DropDefault, NoDefault, Proceed
  <1>2. disk \in [Dirs -> Record]
    BY DEF IInv, TypeOK, Record
  <1>3. T' = T
    BY <1>2 DEF KeepBackup, DropBackup, MoveToBackup, DropDefault, NoDefault, T, Dirs
  <1>4. CASE KeepBackup \/ DropBackup
    <2>1. D' = D /\ step = "backup" /\ step' = "default"
      BY <1>2, <1>4 DEF KeepBackup, DropBackup, Proceed, D, Dirs
    <2> QED
      BY <1>1, <1>3, <2>1 DEF IInv, Progress, Kept, Intact, PrimaryAgrees, PrimaryLoads, Written, D
  <1>5. CASE MoveToBackup \/ DropDefault \/ NoDefault
    <2>1. step = "default" /\ step' = "install"
      BY <1>5 DEF MoveToBackup, DropDefault, NoDefault, Proceed
    <2>2. D'.shelf = Nothing /\ D'.mirror = Nothing
      BY <1>2, <1>5 DEF MoveToBackup, DropDefault, NoDefault, IInv, Progress, D, Dirs, Gone
    <2> QED
      BY <1>1, <1>3, <2>1, <2>2 DEF IInv, Progress, Kept, Written
  <1> QED
    BY <1>4, <1>5

\* The new directory is in place, and the markers follow it.
LEMMA CommitKeeps ==
    ASSUME IInv, TypeOK', Install \/ SyncMarkers PROVE Progress' /\ Kept'
  <1>1. disk \in [Dirs -> Record] /\ T \in Record
    BY Parts DEF IInv, TypeOK, Record
  <1>2. CASE Install
    <2>1. D' = T
      BY <1>1, <1>2 DEF Install, D, T, Dirs
    <2>2. UNCHANGED <<up, current, attempt>> /\ step = "install" /\ step' = "sync" /\ safe'
      BY <1>2 DEF Install, Proceed
    <2> QED
      BY <2>1, <2>2 DEF IInv, Progress, Kept, Written
  <1>3. CASE SyncMarkers
    <2>1. /\ step = "sync" /\ step' = "idle" /\ stored' = attempt /\ attempt' = attempt
          /\ disk' = disk /\ D' = D /\ UNCHANGED <<up, current, safe>>
      BY <1>3 DEF SyncMarkers, IInv, Progress, D
    <2>2. D.shelf = attempt /\ D.mirror \in {attempt, Nothing} /\ attempt # Nothing
      BY <2>1, NothingAssumption DEF IInv, Progress, TypeOK
    <2>3. ShelfLoads' = attempt /\ ~EmergencyLoads' /\ PrimaryAgrees'
      BY <2>1, <2>2 DEF ShelfLoads, EmergencyLoads, PrimaryAgrees, PrimaryLoads, D
    <2>4. Loads' = attempt
      BY <2>1, <2>2, <2>3 DEF Loads, PrimaryAgrees, D
    <2> QED
      BY <2>1, <2>3, <2>4 DEF IInv, Progress, Kept
  <1> QED
    BY <1>2, <1>3

\* A write that fails leaves the process with what the previous steps kept.
LEMMA FailureKeeps ==
    ASSUME IInv, WriteFails \/ StrictReject PROVE Progress' /\ Kept'
  <1>1. /\ UNCHANGED <<up, current, primaryMarker, emergencyMarker, stored, attempt, safe>>
        /\ step' = "idle" /\ step \notin {"idle", "sync"}
    BY DEF WriteFails, StrictReject, Abort, history
  <1>2. disk \in [Dirs -> Record]
    BY DEF IInv, TypeOK, Record
  <1>3. D' = D
    BY <1>2 DEF WriteFails, StrictReject, D, Dirs
  <1>4. Progress'
    BY <1>1, <1>3 DEF IInv, Progress
  <1>5. CASE WriteFails
    <2>1. UNCHANGED <<Loads, EmergencyLoads, PrimaryLoads, D>>
      BY <1>1, <1>5, SameFiles DEF WriteFails
    <2> QED
      BY <1>1, <1>4, <2>1, Stopped DEF Kept, PrimaryAgrees
  <1>6. CASE StrictReject /\ safe
    <2>1. D.shelf = stored /\ stored # Nothing /\ PrimaryAgrees
      BY <1>6, NothingAssumption DEF StrictReject, IInv, Kept, Intact, TypeOK
    <2>2. PrimaryAgrees'
      BY <1>1, <1>3, <2>1 DEF PrimaryAgrees, PrimaryLoads, D
    <2>3. ShelfLoads' = stored /\ ~EmergencyLoads'
      BY <1>3, <2>1 DEF ShelfLoads, EmergencyLoads, D
    <2>4. Loads' = stored
      BY <1>1, <2>1, <2>2, <2>3 DEF Loads, PrimaryAgrees, D
    <2> QED
      BY <1>1, <1>4, <2>2, <2>3, <2>4 DEF Kept
  <1> QED
    BY <1>1, <1>4, <1>5, <1>6 DEF Kept

\* A start loads what the files hold, and would load the same again; emergency recovery only
\* happens where nothing was promised.
LEMMA StartKeeps ==
    ASSUME IInv, Start \/ RecoveryStops PROVE Progress' /\ Kept'
  <1>1. disk \in [Dirs -> Record] /\ D \in Record /\ T \in Record
    BY Parts DEF IInv, TypeOK, Record
  <1>2. step = "idle" /\ step' = "idle" /\ UNCHANGED <<primaryMarker, emergencyMarker>>
    BY DEF Start, RecoveryStops, IInv, Progress
  <1>3. /\ D'.there /\ D'.shelf = D.shelf /\ D'.mirror = D.mirror /\ B' = B
    BY <1>1 DEF Start, RecoveryStops, D, B, Dirs, Record
  <1>4. Progress'
    BY <1>2, <1>3 DEF Progress
  <1>5. CASE RecoveryStops
    BY <1>2, <1>4, <1>5 DEF RecoveryStops, IInv, Kept, history
  <1>6. CASE Start
    <2>1. PrimaryLoads' <=> PrimaryLoads
      BY <1>2, <1>3 DEF PrimaryLoads, D
    <2>2. CASE EmergencyLoads
      <3>1. T'.shelf = EmergencySource
        BY <1>1, <1>6, <2>2 DEF Start, T, Dirs, Empty, Gone
      <3>2. EmergencySource # Nothing /\ ~PrimaryLoads /\ ShelfLoads = Nothing
        BY <2>2, LoadsSettings, NothingAssumption DEF IInv, EmergencyLoads
      <3>3. D.shelf = Nothing
        BY <3>2 DEF ShelfLoads, D
      <3>4. ShelfLoads' = EmergencySource
        BY <1>3, <3>1, <3>2, <3>3 DEF ShelfLoads, D, T
      <3>5. Loads' = EmergencySource /\ Loads = EmergencySource /\ ~EmergencyLoads' /\ ~PrimaryLoads'
        BY <2>1, <2>2, <3>2, <3>4 DEF Loads, EmergencyLoads
      <3> QED
        BY <1>2, <1>4, <1>6, <3>5 DEF Start, Kept, PrimaryAgrees
    <2>3. CASE ~EmergencyLoads
      <3>1. T' = T
        BY <1>1, <1>6, <2>3 DEF Start, T, Dirs
      <3>2. ShelfLoads' = ShelfLoads /\ (EmergencyLoads' <=> EmergencyLoads)
        BY <1>2, <1>3, <2>1, <3>1 DEF ShelfLoads, EmergencyLoads, Allows, D, T, B
      <3>3. Loads' = Loads
        BY <1>3, <2>1, <2>3, <3>2 DEF Loads, D
      <3>4. PrimaryAgrees'
        BY <1>3, <1>6, <2>1 DEF Start, PrimaryAgrees, Loads, D
      <3> QED
        BY <1>2, <1>4, <1>6, <2>3, <3>2, <3>3, <3>4 DEF Start, Kept
    <2> QED
      BY <2>2, <2>3
  <1> QED
    BY <1>5, <1>6

\* A write that begins safely begins with the old settings where it does not touch them first.
LEMMA BeginKeeps ==
    ASSUME IInv, NEW c \in Callers, BeginWrite(c) PROVE Progress' /\ Kept'
  <1>1. /\ step = "idle" /\ step' = "clear" /\ up /\ up' /\ attempt' = current
        /\ UNCHANGED <<current, disk, stored, D, T>>
        /\ safe' = (safe /\ D.shelf = stored) /\ (primaryMarker' => primaryMarker)
    BY DEF BeginWrite, D, T
  <1>2. PrimaryLoads' => PrimaryLoads
    BY <1>1 DEF PrimaryLoads, D
  <1>3. Progress'
    BY <1>1 DEF IInv, Progress
  <1>4. ASSUME safe' PROVE Intact'
    BY <1>1, <1>2, <1>4 DEF IInv, Kept, Intact, PrimaryAgrees
  <1> QED
    BY <1>1, <1>3, <1>4 DEF Kept

\* A change, a crash and the passing of time leave the files alone; damage voids the promise.
LEMMA SurroundingsKeep ==
    ASSUME IInv,
           (\E m \in Modes : Change(m)) \/ Crash \/ HourPasses
             \/ (\E d \in Dirs : Damage(d)) \/ UNCHANGED vars
    PROVE  Progress' /\ Kept'
  <1>1. ASSUME NEW m \in Modes, Change(m) PROVE Progress' /\ Kept'
    <2>1. UNCHANGED <<up, step, disk, primaryMarker, emergencyMarker, stored, attempt, safe>>
          /\ step = "idle"
      BY <1>1 DEF Change, files, history
    <2> QED
      BY <2>1, SameFiles DEF IInv, Progress, Kept, PrimaryAgrees
  <1>2. CASE Crash
    <2>1. /\ UNCHANGED <<disk, primaryMarker, emergencyMarker, stored, attempt, safe>>
          /\ step' = "idle" /\ ~up'
      BY <1>2 DEF Crash, files, history
    <2>2. UNCHANGED <<Loads, EmergencyLoads, D>>
      BY <2>1, SameFiles
    <2>3. Progress'
      BY <2>1, <2>2 DEF IInv, Progress
    <2>4. ASSUME safe PROVE Loads \in {stored, attempt} /\ ~EmergencyLoads
      <3>1. CASE step = "idle"
        BY <2>4, <3>1 DEF IInv, Kept
      <3>2. CASE step = "sync"
        <4>1. ~EmergencyLoads
          BY <3>2, NothingAssumption DEF IInv, Progress, TypeOK, EmergencyLoads, ShelfLoads, D
        <4> QED
          BY <4>1, <2>4, KeptIsEnough DEF CrashKeepsSettings
      <3> QED
        BY <2>4, <3>1, <3>2, Stopped
    <2> QED
      BY <2>1, <2>2, <2>3, <2>4 DEF Kept
  <1>3. CASE HourPasses \/ UNCHANGED vars
    <2>1. UNCHANGED <<up, current, step, disk, primaryMarker, emergencyMarker, stored, attempt, safe>>
      BY <1>3 DEF HourPasses, vars, files, history
    <2> QED
      BY <2>1, SameFiles DEF IInv, Progress, Kept, PrimaryAgrees, Intact, Written
  <1>4. ASSUME NEW d \in Dirs, Damage(d) PROVE Progress' /\ Kept'
    <2>1. step = "idle" /\ UNCHANGED step /\ safe' = FALSE
      BY <1>4 DEF Damage
    <2>2. disk \in [Dirs -> Record]
      BY DEF IInv, TypeOK, Record
    <2>3. D'.there = D.there /\ D'.shelf \in {D.shelf, Nothing} /\ D'.mirror = D.mirror
      BY <1>4, <2>2 DEF Damage, D, Dirs, Record
    <2> QED
      BY <2>1, <2>3 DEF IInv, Progress, Kept
  <1> QED
    BY <1>1, <1>2, <1>3, <1>4

\* Every step keeps the invariant.
LEMMA StepKeeps == IInv /\ [Next]_vars => IInv'
  <1> SUFFICES ASSUME IInv, [Next]_vars PROVE IInv'
    OBVIOUS
  <1>1. TypeOK'
    BY WriteTypes, OtherTypes DEF IInv
  <1>2. CASE WriteStep
    BY <1>1, <1>2, RemovePartKeeps, FillingKeeps, RotationKeeps, CommitKeeps, FailureKeeps
    DEF WriteStep, IInv
  <1>3. CASE ~WriteStep
    BY <1>1, <1>3, StartKeeps, BeginKeeps, SurroundingsKeep DEF Next, IInv
  <1> QED
    BY <1>2, <1>3

\* Whatever file operation a write stops at, the old settings or the new ones are loaded next:
\* for any number of writes, crashes, errors and hours.
THEOREM NothingLost == Spec => []CrashKeepsSettings
  <1>1. IInv => CrashKeepsSettings
    BY KeptIsEnough
  <1> QED
    BY <1>1, InitKept, StepKeeps, PTL DEF Spec

-----------------------------------------------------------------------------
(* A commit is final. *)

\* The property in the next state.
LEMMA KeptNext == IInv' => CrashKeepsSettings'
  BY KeptIsEnough, PTL

\* What counts as stored moves to what was attempted, and to nothing else.
LEMMA StoredMoves == ASSUME IInv, Next PROVE stored' \in {stored, attempt'}
  <1>1. CASE Start
    BY <1>1 DEF Start
  <1>2. CASE SyncMarkers
    BY <1>2 DEF SyncMarkers, IInv, Progress
  <1>3. CASE ~Start /\ ~SyncMarkers
    BY <1>3 DEF Next, RecoveryStops, Change, BeginWrite, WriteStep, RemovePart, ClearTmp, WritePart,
       WriteShelf, WriteMirror, WriteNoMirror, KeepBackup, DropBackup, MoveToBackup, DropDefault,
       NoDefault, Install, WriteFails, StrictReject, Abort, Proceed, Crash, HourPasses, Damage, history
  <1> QED
    BY <1>1, <1>2, <1>3

\* Once a start would load the new settings, and they are not the old ones, the active directory is
\* being removed, is the new one, or the write is over: nothing brings the old ones back.
LEMMA NoWayBack ==
    ASSUME IInv, IInv', Next, safe, safe', Loads = attempt, attempt' = attempt,
           attempt # stored
    PROVE  Loads' = attempt
  <1>n. stored # Nothing /\ attempt # Nothing /\ disk \in [Dirs -> Record]
    BY NothingAssumption DEF IInv, TypeOK, Record
  <1>k. Loads' \in {stored', attempt}
    BY KeptNext DEF CrashKeepsSettings
  <1>early. step \notin {"clear", "shelf", "mirror", "backup"}
    <2> SUFFICES ASSUME step \in {"clear", "shelf", "mirror", "backup"} PROVE FALSE
      OBVIOUS
    <2>1. D.shelf = stored /\ PrimaryAgrees
      BY DEF IInv, Kept, Intact
    <2> QED
      BY <2>1, <1>n DEF Loads, ShelfLoads, PrimaryAgrees, D
  <1>1. CASE Start \/ SyncMarkers
    <2>1. stored' = attempt
      BY <1>1 DEF Start, SyncMarkers, IInv, Progress
    <2> QED
      BY <1>k, <2>1
  <1>2. CASE RecoveryStops \/ (\E d \in Dirs : Damage(d))
    BY <1>2 DEF RecoveryStops, Damage, IInv, Progress, Kept
  <1>3. CASE (\E m \in Modes : Change(m)) \/ Crash \/ HourPasses \/ WriteFails
    <2>1. UNCHANGED <<disk, primaryMarker, emergencyMarker>>
      BY <1>3 DEF Change, Crash, HourPasses, WriteFails, Abort, files
    <2> QED
      BY <2>1, SameFiles
  <1>4. ASSUME NEW c \in Callers, BeginWrite(c) PROVE Loads' = attempt
    <2>1. step = "idle" /\ up /\ D.shelf = stored
      BY <1>4 DEF BeginWrite, D
    <2>2. PrimaryLoads => D.mirror = stored
      BY <2>1 DEF IInv, Kept, PrimaryAgrees
    <2> QED
      BY <2>1, <2>2, <1>n DEF Loads, ShelfLoads, D
  <1>5. CASE step = "default" /\ WriteStep
    <2>1. /\ D.shelf \in {stored, Nothing} /\ PrimaryAgrees /\ T.shelf = attempt
      BY <1>5 DEF IInv, Kept, Progress, Written
    <2>2. D.shelf = Nothing /\ ~PrimaryLoads
      BY <2>1, <1>n DEF Loads, ShelfLoads, PrimaryAgrees, D
    <2>3. CASE \E d \in Dirs : RemovePart(d)
      <3>1. PICK m \in {D.mirror, Nothing}, s \in {D.shelf, Nothing} :
               disk' = [disk EXCEPT !["default"].shelf = s, !["default"].mirror = m]
        BY <1>5, <2>3 DEF RemovePart, Removes, D
      <3>2. D'.shelf = Nothing /\ D'.mirror \in {D.mirror, Nothing} /\ T' = T /\ UNCHANGED primaryMarker
        BY <1>n, <2>2, <2>3, <3>1 DEF RemovePart, Proceed, D, T, Dirs, Record
      <3>3. ~PrimaryLoads'
        BY <2>2, <3>2 DEF PrimaryLoads, D
      <3>4. ShelfLoads' = attempt
        BY <2>1, <3>2, <1>n DEF ShelfLoads, D, T
      <3> QED
        BY <3>3, <3>4, <1>n DEF Loads
    <2>4. CASE MoveToBackup \/ DropDefault \/ NoDefault
      <3>1. T' = T /\ D'.shelf = Nothing /\ D'.mirror = Nothing
        BY <1>n, <2>4 DEF MoveToBackup, DropDefault, NoDefault, IInv, Progress, D, T, Dirs, Gone
      <3>2. ShelfLoads' = attempt /\ ~PrimaryLoads'
        BY <2>1, <3>1, <1>n DEF ShelfLoads, PrimaryLoads, D, T
      <3> QED
        BY <3>2, <1>n DEF Loads
    <2> QED
      BY <1>3, <1>5, <2>3, <2>4 DEF WriteStep, ClearTmp, WritePart, WriteShelf, WriteMirror, WriteNoMirror,
         KeepBackup, DropBackup, Install, SyncMarkers, StrictReject
  <1>6. CASE Install
    <2>1. D' = T /\ step = "install" /\ step' = "sync"
      BY <1>6, <1>n DEF Install, Proceed, D, T, Dirs
    <2>2. D'.shelf = attempt /\ D'.mirror \in {attempt, Nothing}
      BY <2>1 DEF IInv, Progress, Written
    <2> QED
      BY <2>2, <1>n DEF Loads, ShelfLoads, PrimaryLoads, D
  <1>7. ASSUME WriteStep, step # "default" PROVE Install \/ SyncMarkers \/ WriteFails
    BY <1>7, <1>early DEF WriteStep, RemovePart, Removes, ClearTmp, WritePart, WriteShelf, WriteMirror,
       WriteNoMirror, KeepBackup, DropBackup, MoveToBackup, DropDefault, NoDefault, StrictReject
  <1> QED
    BY <1>1, <1>2, <1>3, <1>4, <1>5, <1>6, <1>7 DEF Next

\* Once the new settings would be loaded, the old ones are not loaded again.
THEOREM CommitFinal == Spec => CommitIsFinal
  <1>1. IInv /\ IInv' /\ [Next]_vars =>
          [safe /\ safe' /\ Loads = attempt /\ attempt' = attempt => Loads' = attempt]_vars
    <2> SUFFICES ASSUME IInv, IInv', Next, safe, safe', Loads = attempt, attempt' = attempt
                 PROVE  Loads' = attempt
      OBVIOUS
    <2>1. CASE attempt # stored
      BY <2>1, NoWayBack
    <2>2. CASE attempt = stored
      <3>1. Loads' \in {stored', attempt}
        BY KeptNext DEF CrashKeepsSettings
      <3> QED
        BY <2>2, <3>1, StoredMoves
    <2> QED
      BY <2>1, <2>2
  <1> QED
    BY <1>1, InitKept, StepKeeps, PTL DEF Spec, CommitIsFinal

-----------------------------------------------------------------------------
(* The promise of DurableSettings. *)

\* A write that begins with the complete settings in "default" hides nothing.
LEMMA BeginHidesNothing ==
    ASSUME IInv, NEW c \in Callers, BeginWrite(c), safe, safe'
    PROVE  Loads' = Loads
  <1>n. stored # Nothing
    BY NothingAssumption DEF IInv, TypeOK
  <1>1. /\ step = "idle" /\ up /\ D.shelf = stored
        /\ disk' = disk /\ (primaryMarker' => primaryMarker)
    BY DEF BeginWrite, D
  <1>2. PrimaryLoads => D.mirror = stored
    BY <1>1 DEF IInv, Kept, PrimaryAgrees
  <1>3. PrimaryLoads' => PrimaryLoads
    BY <1>1 DEF PrimaryLoads
  <1>4. ShelfLoads = stored /\ ShelfLoads' = stored
    BY <1>1, <1>n DEF ShelfLoads, D
  <1>5. Loads = stored
    BY <1>2, <1>4, <1>n DEF Loads, D
  <1>6. Loads' = stored
    <2>1. PrimaryLoads' => D'.mirror = stored
      BY <1>1, <1>2, <1>3 DEF D
    <2>2. ShelfLoads' # Nothing
      BY <1>4, <1>n
    <2> QED
      BY <1>4, <2>1, <2>2 DEF Loads, D
  <1> QED
    BY <1>5, <1>6

\* A start finds what the previous one would have found, and takes it.
LEMMA StartTakes ==
    ASSUME IInv, IInv', Start
    PROVE  safe' /\ attempt' = Loads /\ Loads' = Loads
  <1>1. safe' /\ attempt' = Loads /\ stored' = Loads
    BY DEF Start
  <1>2. CrashKeepsSettings'
    BY KeptNext
  <1> QED
    BY <1>1, <1>2 DEF CrashKeepsSettings

\* The settings are installed in one step.
LEMMA InstallCommits ==
    ASSUME IInv, Install
    PROVE  Loads' = attempt /\ attempt' = attempt
  <1>n. attempt # Nothing /\ disk \in [Dirs -> Record]
    BY NothingAssumption DEF IInv, TypeOK, Record
  <1>1. D' = T /\ step = "install" /\ attempt' = attempt
    BY <1>n DEF Install, Proceed, D, T, Dirs
  <1>2. D'.shelf = attempt /\ D'.mirror \in {attempt, Nothing}
    BY <1>1 DEF IInv, Progress, Written
  <1> QED
    BY <1>1, <1>2, <1>n DEF Loads, ShelfLoads, PrimaryLoads, D

\* Only a start, a beginning of a write and the installation touch the history of
\* what is attempted, or end an exposure.
LEMMA OnlyThese ==
    ASSUME IInv, Next, ~Start, ~(\E c \in Callers : BeginWrite(c)), ~Install
    PROVE  attempt' = attempt /\ (safe' => safe)
  <1>1. CASE RecoveryStops \/ (\E m \in Modes : Change(m)) \/ Crash \/ HourPasses
    BY <1>1 DEF RecoveryStops, Change, Crash, HourPasses, history
  <1>2. CASE \E d \in Dirs : Damage(d)
    BY <1>2 DEF Damage
  <1>3. CASE WriteStep
    <2>1. CASE WriteFails \/ StrictReject \/ WriteNoMirror
      BY <2>1 DEF WriteFails, StrictReject, WriteNoMirror, Abort, history
    <2>5. CASE SyncMarkers
      BY <2>5 DEF SyncMarkers
    <2>2. CASE \E d \in Dirs : RemovePart(d)
      BY <2>2 DEF RemovePart, Proceed
    <2>3. CASE ClearTmp \/ WritePart \/ WriteShelf \/ WriteMirror
      BY <2>3 DEF ClearTmp, WritePart, WriteShelf, WriteMirror, Proceed
    <2>4. CASE KeepBackup \/ DropBackup \/ MoveToBackup \/ DropDefault \/ NoDefault
      BY <2>4 DEF KeepBackup, DropBackup, MoveToBackup, DropDefault, NoDefault, Proceed
    <2> QED
      BY <1>3, <2>1, <2>2, <2>3, <2>4, <2>5 DEF WriteStep
  <1> QED
    BY <1>1, <1>2, <1>3 DEF Next

\* What a start loads are settings, after a step too.
LoadsWell == Loads \in Settings

LEMMA LoadsTyped == IInv => LoadsWell
  BY LoadsSettings DEF IInv, LoadsWell

\* The same after a step.
LEMMA LoadsNext == IInv' => LoadsWell'
  BY LoadsTyped, PTL

\* Every step of a write, a start or a failure is a step of DurableSettings.
LEMMA StepPromised ==
    ASSUME IInv, IInv', Next
    PROVE  Durable!Next \/ UNCHANGED Durable!dvars
  <1>t. Loads \in Settings /\ Loads' \in Settings /\ attempt' \in Settings
        /\ safe \in BOOLEAN /\ safe' \in BOOLEAN
    BY LoadsNext, LoadsSettings DEF IInv, TypeOK, LoadsWell
  <1>1. CASE ~safe'
    <2>1. Durable!Expose
      BY <1>1, <1>t DEF Durable!Expose
    <2> QED
      BY <2>1 DEF Durable!Next
  <1>2. CASE safe' /\ Start
    <2>1. Durable!Restart
      BY <1>2, <1>t, StartTakes DEF Durable!Restart
    <2> QED
      BY <2>1 DEF Durable!Next
  <1>3. CASE safe' /\ Install
    <2>1. Durable!Commit
      BY <1>3, <1>t, InstallCommits DEF Durable!Commit
    <2> QED
      BY <2>1 DEF Durable!Next
  <1>4. ASSUME safe', NEW c \in Callers, BeginWrite(c)
        PROVE  Durable!Next
    <2>1. safe
      BY <1>4, <1>t DEF BeginWrite
    <2>2. Durable!Offer
      BY <1>4, <1>t, <2>1, BeginHidesNothing DEF Durable!Offer
    <2> QED
      BY <2>2 DEF Durable!Next
  <1>5. CASE safe' /\ ~Start /\ ~Install /\ ~(\E c \in Callers : BeginWrite(c))
    <2>1. attempt' = attempt /\ safe
      BY <1>5, OnlyThese
    <2>2. Loads \in {stored, attempt}
      BY <2>1, KeptIsEnough DEF CrashKeepsSettings
    <2>3. Loads' \in {stored', attempt}
      BY <1>5, <2>1, KeptNext DEF CrashKeepsSettings
    <2>4. stored' \in {stored, attempt}
      BY <2>1, StoredMoves
    <2>5. Loads = attempt => Loads' = attempt
      <3>1. CASE attempt # stored
        BY <3>1, <2>1, <1>5, NoWayBack
      <3>2. CASE attempt = stored
        BY <3>2, <2>3, <2>4
      <3> QED
        BY <3>1, <3>2
    <2>6. Loads' = Loads \/ Loads' = attempt
      BY <2>2, <2>3, <2>4, <2>5
    <2>7. CASE Loads' = Loads
      BY <2>7, <2>1, <1>5, <1>t DEF Durable!dvars
    <2>8. CASE Loads' = attempt
      <3>1. Durable!Commit
        BY <2>8, <2>1, <1>5, <1>t DEF Durable!Commit
      <3> QED
        BY <3>1 DEF Durable!Next
    <2> QED
      BY <2>6, <2>7, <2>8
  <1> QED
    BY <1>1, <1>2, <1>3, <1>4, <1>5, <1>t

\* A step that changes nothing changes nothing of the promise.
LEMMA StutterPromised ==
    ASSUME UNCHANGED vars
    PROVE  UNCHANGED Durable!dvars
  <1>1. UNCHANGED <<disk, primaryMarker, emergencyMarker, attempt, safe>>
    BY DEF vars, files, history
  <1>2. Loads' = Loads
    BY <1>1, SameFiles
  <1> QED
    BY <1>1, <1>2 DEF Durable!dvars

\* A new installation finds the defaults.
LEMMA InitPromised == Init => Durable!Init
  <1> SUFFICES ASSUME Init PROVE Durable!Init
    OBVIOUS
  <1>1. Loads = Fresh
    BY DEF Init, Loads, PrimaryLoads, ShelfLoads, EmergencyLoads, Gone, Dirs
  <1> QED
    BY <1>1, FreshSettings DEF Init, Durable!Init

\* KeepsPromise: the directories, databases and markers implement DurableSettings.
THEOREM PromiseKept == Spec => KeepsPromise
  <1>1. IInv /\ IInv' /\ [Next]_vars => [Durable!Next]_(Durable!dvars)
    BY StepPromised, StutterPromised
  <1> QED
    BY <1>1, InitKept, InitPromised, StepKeeps, PTL DEF Spec, KeepsPromise, Durable!Spec

-----------------------------------------------------------------------------
(* What save_now answers, and the verified copy. *)

\* save_now answers at the end of a write, when the active directory holds what is in memory;
\* the answer stands until something happens to it.
Answered ==
    /\ ~up \/ step # "idle" => answer = "none"
    /\ answer = "saved" => D.shelf = current /\ (PrimaryLoads => D.mirror = current)

\* A strict write ends with its copy in place, and the copy stays while no write is under way.
Verified ==
    /\ step # "idle" => ~verified
    /\ step \in {"backup", "default", "install"} /\ Strict(current) => T.mirror = attempt
    /\ step = "sync" /\ Strict(current) => D.mirror = attempt
    /\ verified => D.mirror = stored /\ emergencyMarker /\ Emergency(stored)

\* An operation of a write.
LEMMA OperationAnswers ==
    ASSUME IInv, Answered, Verified, WriteStep, ~SyncMarkers
    PROVE  Answered' /\ Verified'
  <1> USE DEF history, files
  <1>1. disk \in [Dirs -> Record]
    BY DEF IInv, TypeOK, Record
  <1>2. step # "idle" /\ up /\ answer = "none" /\ ~verified
    BY DEF WriteStep, RemovePart, Removes, ClearTmp, WritePart, WriteShelf, WriteMirror,
           WriteNoMirror, KeepBackup, DropBackup, MoveToBackup, DropDefault, NoDefault, Install,
           SyncMarkers, WriteFails, StrictReject, IInv, Progress, Answered, Verified
  <1>3. UNCHANGED <<up, current, attempt, verified>>
    BY DEF WriteStep, RemovePart, ClearTmp, WritePart, WriteShelf, WriteMirror, WriteNoMirror,
           KeepBackup, DropBackup, MoveToBackup, DropDefault, NoDefault, Install, WriteFails,
           StrictReject, Proceed, Abort
  <1>4. CASE WriteFails \/ StrictReject
    <2>1. step' = "idle" /\ answer' # "saved"
      <3>1. caller = "save_now" => answer' = "failed"
        BY <1>4 DEF WriteFails, StrictReject, Abort
      <3>2. caller # "save_now" => answer' \in {"none", "flushed"}
        BY <1>4 DEF WriteFails, StrictReject, Abort
      <3> QED
        BY <1>4, <3>1, <3>2 DEF WriteFails, StrictReject, Abort
    <2> QED
      BY <1>2, <1>3, <2>1 DEF Answered, Verified
  <1>5. CASE ~WriteFails /\ ~StrictReject
    <2>1. answer' = "none" /\ step' # "idle"
      BY <1>2, <1>5 DEF WriteStep, RemovePart, ClearTmp, WritePart, WriteShelf, WriteMirror,
             WriteNoMirror, KeepBackup, DropBackup, MoveToBackup, DropDefault, NoDefault, Install,
             Proceed
    <2>2. CASE \E d \in Dirs : RemovePart(d)
      <3>1. step' = step /\ (step \in {"backup", "default", "install"} => T' = T) /\ step # "sync"
        BY <1>1, <2>2 DEF RemovePart, Removes, Proceed, T, Dirs
      <3> QED
        BY <1>2, <1>3, <2>1, <3>1 DEF Answered, Verified
    <2>3. CASE ClearTmp \/ WritePart \/ WriteShelf
      <3>1. step' \in {"shelf", "mirror"}
        BY <2>3 DEF ClearTmp, WritePart, WriteShelf, Proceed
      <3> QED
        BY <1>2, <1>3, <2>1, <3>1 DEF Answered, Verified
    <2>4. CASE WriteMirror \/ WriteNoMirror
      <3>1. step = "mirror" /\ step' = "backup" /\ attempt = current
        BY <2>4 DEF WriteMirror, WriteNoMirror, Proceed, IInv, Progress
      <3>2. Strict(current) => T'.mirror = current
        BY <1>1, <2>4 DEF WriteMirror, WriteNoMirror, T, Dirs, Record
      <3> QED
        BY <1>2, <1>3, <2>1, <3>1, <3>2 DEF Answered, Verified
    <2>5. CASE KeepBackup \/ DropBackup \/ MoveToBackup \/ DropDefault \/ NoDefault
      <3>1. T' = T
        BY <1>1, <2>5 DEF KeepBackup, DropBackup, MoveToBackup, DropDefault, NoDefault, T, Dirs
      <3>2. step \in {"backup", "default"} /\ step' \in {"default", "install"}
        BY <2>5 DEF KeepBackup, DropBackup, MoveToBackup, DropDefault, NoDefault, Proceed
      <3> QED
        BY <1>2, <1>3, <2>1, <3>1, <3>2 DEF Answered, Verified
    <2>6. CASE Install
      <3>1. D' = T /\ step = "install" /\ step' = "sync"
        BY <1>1, <2>6 DEF Install, Proceed, D, T, Dirs
      <3> QED
        BY <1>2, <1>3, <2>1, <3>1 DEF Answered, Verified
    <2> QED
      BY <1>5, <2>2, <2>3, <2>4, <2>5, <2>6 DEF WriteStep
  <1> QED
    BY <1>4, <1>5

\* The end of a write: what was attempted is in place, with its copy if the mode is strict.
LEMMA SyncAnswers ==
    ASSUME IInv, Answered, Verified, SyncMarkers
    PROVE  Answered' /\ Verified'
  <1>1. /\ step = "sync" /\ step' = "idle" /\ attempt = current /\ up
        /\ D.shelf = attempt /\ D.mirror \in {attempt, Nothing}
        /\ Strict(current) => D.mirror = attempt
    BY DEF SyncMarkers, IInv, Progress, Verified
  <1>2. UNCHANGED <<up, current, disk, attempt>> /\ D' = D /\ stored' = current
    BY DEF SyncMarkers, D
  <1>3. verified' => emergencyMarker' /\ Strict(current)
    BY DEF SyncMarkers
  <1>4. PrimaryLoads' => D.mirror # Nothing
    BY <1>2 DEF PrimaryLoads, D
  <1>5. Strict(current) => Emergency(current)
    BY DEF Strict, Emergency
  <1> QED
    BY <1>1, <1>2, <1>3, <1>4, <1>5 DEF Answered, Verified

\* Outside of a write nothing touches the active directory but damage.
LEMMA OutsideAnswers ==
    ASSUME IInv, Answered, Verified, [Next]_vars, ~WriteStep
    PROVE  Answered' /\ Verified'
  <1> USE DEF history, files
  <1>1. disk \in [Dirs -> Record]
    BY DEF IInv, TypeOK, Record
  <1>2. CASE Start
    <2>1. D'.mirror = D.mirror
      BY <1>1, <1>2 DEF Start, D, Dirs, Record
    <2>2. answer' = "none" /\ up' /\ (verified' => verified /\ stored' = stored)
      BY <1>2 DEF Start
    <2>3. UNCHANGED <<step, emergencyMarker>> /\ step = "idle"
      BY <1>2 DEF Start, IInv, Progress
    <2> QED
      BY <2>1, <2>2, <2>3 DEF Answered, Verified
  <1>3. CASE RecoveryStops
    <2>1. D'.mirror = D.mirror
      BY <1>1, <1>3 DEF RecoveryStops, D, Dirs, Record
    <2>2. /\ UNCHANGED <<up, step, answer, stored, verified, emergencyMarker>>
          /\ step = "idle" /\ answer = "none"
      BY <1>3 DEF RecoveryStops, IInv, Progress, Answered
    <2> QED
      BY <2>1, <2>2 DEF Answered, Verified
  <1>4. ASSUME NEW m \in Modes, Change(m) PROVE Answered' /\ Verified'
    <2>1. /\ UNCHANGED <<step, stored, verified, emergencyMarker>> /\ D' = D
          /\ step = "idle" /\ answer' = "none"
      BY <1>4 DEF Change, D
    <2> QED
      BY <2>1 DEF Answered, Verified
  <1>5. ASSUME NEW c \in Callers, BeginWrite(c) PROVE Answered' /\ Verified'
    BY <1>5 DEF BeginWrite, Answered, Verified
  <1>6. CASE Crash
    <2>1. UNCHANGED <<stored, verified, emergencyMarker>> /\ D' = D /\ answer' = "none" /\ step' = "idle"
      BY <1>6 DEF Crash, D
    <2> QED
      BY <2>1 DEF Answered, Verified
  <1>7. CASE HourPasses \/ UNCHANGED vars
    <2>1. UNCHANGED <<up, current, step, answer, disk, primaryMarker, emergencyMarker, stored,
                      attempt, verified>>
      BY <1>7 DEF HourPasses, vars
    <2>2. UNCHANGED <<D, T, PrimaryLoads>>
      BY <2>1, SameFiles
    <2> QED
      BY <2>1, <2>2 DEF Answered, Verified
  <1>8. ASSUME NEW d \in Dirs, Damage(d) PROVE Answered' /\ Verified'
    <2>1. D'.mirror = D.mirror
      BY <1>1, <1>8 DEF Damage, D, Record
    <2>2. UNCHANGED <<step, stored, verified, emergencyMarker>> /\ step = "idle" /\ answer' = "none"
      BY <1>8 DEF Damage
    <2> QED
      BY <2>1, <2>2 DEF Answered, Verified
  <1> QED
    BY <1>2, <1>3, <1>4, <1>5, <1>6, <1>7, <1>8 DEF Next

LEMMA AnswersKept == Spec => [](IInv /\ Answered /\ Verified)
  <1>1. Init => Answered /\ Verified
    BY DEF Init, Answered, Verified
  <1>2. IInv /\ Answered /\ Verified /\ [Next]_vars => Answered' /\ Verified'
    BY OperationAnswers, SyncAnswers, OutsideAnswers
  <1> QED
    BY <1>1, <1>2, InitKept, StepKeeps, PTL DEF Spec

\* When save_now has returned True a start would load what is in memory, whatever was damaged,
\* had failed or had stopped before.
THEOREM SaveIsStored == Spec => []SavedIsStored
  <1>1. IInv /\ Answered => SavedIsStored
    <2> SUFFICES ASSUME IInv, Answered, answer = "saved" PROVE Loads = current
      BY DEF SavedIsStored
    <2>1. D.shelf = current /\ (PrimaryLoads => D.mirror = current) /\ current # Nothing
      BY NothingAssumption DEF Answered, IInv, TypeOK
    <2> QED
      BY <2>1 DEF Loads, ShelfLoads, D
  <1> QED
    BY AnswersKept, <1>1, PTL

\* A strict write leaves a copy that emergency recovery finds when every shelve database is lost.
THEOREM EmergencyKept == Spec => []EmergencyKeepsSettings
  <1>1. IInv /\ Verified => EmergencyKeepsSettings
    <2> SUFFICES ASSUME IInv, Verified, verified, ShelfLoads = Nothing PROVE Loads = stored
      BY DEF EmergencyKeepsSettings
    <2>1. D.mirror = stored /\ emergencyMarker /\ Emergency(stored) /\ stored # Nothing
      BY NothingAssumption DEF Verified, IInv, TypeOK
    <2>2. Allows("default")
      BY <2>1 DEF Allows, D
    <2> QED
      BY <2>1, <2>2 DEF Loads, EmergencyLoads, EmergencySource, D
  <1> QED
    BY AnswersKept, <1>1, PTL
=============================================================================

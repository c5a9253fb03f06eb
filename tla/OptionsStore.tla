----------------------------- MODULE OptionsStore -----------------------------
(***************************************************************************)
(* The settings of OSPy on disk: ospy/options.py (_Options.__init__,       *)
(* _write, flush, save_now) and ospy/settings_storage.py.                  *)
(*                                                                         *)
(* Settings live in three directories, "default", "tmp" and "backup", each *)
(* with a shelve database (shelf) and a verified SQLite copy (mirror).     *)
(* One write goes through a dozen file operations under the options' lock. *)
(* The process may stop between any two of them, an operation may raise,   *)
(* and removing a directory or filling a database may stop half-way.       *)
(* Start reads what is left, in the order of _Options.__init__.            *)
(*                                                                         *)
(* Abstracted: a value of all settings is a number and a storage mode; the *)
(* content of a setting never matters to a write.  Not modelled: the       *)
(* upgrade from version 2, the evidence file that only informs, the        *)
(* suspension of writes during a restore.                                  *)
(***************************************************************************)
EXTENDS Naturals

CONSTANTS
    Modes,          \* storage modes in use, a subset of AllModes
    Callers,        \* who calls _write: "timer", "save_now", "flush"
    MaxChanges,     \* bound on changes of the settings
    MaxCrashes,     \* bound on stops of the process
    MaxFailures,    \* bound on file operations that raise
    MaxDamage,      \* bound on databases that become unreadable by themselves
    Nothing         \* no database there, or one that cannot be opened

AllModes == {"compatible", "custom", "verification", "sqlite_primary"}
Dirs == {"default", "tmp", "backup"}

ASSUME ConstantsAssumption ==
    /\ Modes \subseteq AllModes
    /\ Callers \subseteq {"timer", "save_now", "flush"}
    /\ MaxChanges \in Nat /\ MaxCrashes \in Nat
    /\ MaxFailures \in Nat /\ MaxDamage \in Nat

\* A dictionary with some of its keys missing is not whole: dbm.dumb writes its
\* directory key by key, so a database that was being filled can be opened.
Settings == [number : Nat, mode : AllModes, whole : BOOLEAN]
ASSUME NothingAssumption == Nothing \notin Settings

Fresh == [number |-> 0, mode |-> "compatible", whole |-> TRUE]
Partly(s) == [s EXCEPT !.whole = FALSE]

\* The switches behind a mode; "custom" stands for emergency recovery alone.
Emergency(s) == s.mode # "compatible"
Strict(s) == s.mode \in {"verification", "sqlite_primary"}
Primary(s) == s.mode = "sqlite_primary"

Content == Settings \cup {Nothing}
Gone == [there |-> FALSE, shelf |-> Nothing, mirror |-> Nothing]
Empty == [Gone EXCEPT !.there = TRUE]

VARIABLES
    up,               \* the process runs
    current,          \* the settings in memory
    pending,          \* the timer of the delayed write is set
    step,             \* where _write is; "idle" outside of it
    caller,           \* who called _write
    answer,           \* what save_now or flush returned, until the next change
    disk,             \* directory -> is it there, its shelf and its mirror
    primaryMarker,    \* file sqlite_primary.enabled
    emergencyMarker,  \* file sqlite_emergency_recovery.enabled
    backupYoung,      \* the backup was saved less than an hour ago
    stored,           \* history: what was last saved completely, or loaded
    attempt,          \* history: what the last write was to save
    safe,             \* history: the last write began with "default" complete
    verified,         \* history: what is stored has a verified emergency copy
    changes, crashes, failures, damage

files == <<disk, primaryMarker, emergencyMarker, backupYoung>>
history == <<stored, attempt, safe, verified>>
counts == <<changes, crashes, failures, damage>>
vars == <<up, current, pending, step, caller, answer, files, history, counts>>

Steps == {"idle", "clear", "shelf", "mirror", "backup", "default", "install", "sync"}

TypeOK ==
    /\ up \in BOOLEAN
    /\ current \in Settings
    /\ pending \in BOOLEAN
    /\ step \in Steps
    /\ caller \in Callers \cup {Nothing}
    /\ answer \in {"none", "saved", "flushed", "failed"}
    /\ disk \in [Dirs -> [there : BOOLEAN, shelf : Content, mirror : Content]]
    /\ primaryMarker \in BOOLEAN /\ emergencyMarker \in BOOLEAN
    /\ backupYoung \in BOOLEAN
    /\ stored \in Settings /\ attempt \in Settings
    /\ safe \in BOOLEAN /\ verified \in BOOLEAN
    /\ changes \in Nat /\ crashes \in Nat /\ failures \in Nat /\ damage \in Nat

-----------------------------------------------------------------------------
(* What a start would load now. *)

\* Mutant: the temporary database is read last.
ShelfTmpLast ==
    IF disk["default"].shelf # Nothing THEN disk["default"].shelf
    ELSE IF disk["backup"].shelf # Nothing THEN disk["backup"].shelf
    ELSE disk["tmp"].shelf

\* The first readable shelf of default, tmp and backup.
ShelfLoads ==
    IF disk["default"].shelf # Nothing THEN disk["default"].shelf
    ELSE IF disk["tmp"].shelf # Nothing THEN disk["tmp"].shelf
    ELSE disk["backup"].shelf

\* SQLite is read first only with its marker and its mode.
PrimaryLoads == /\ primaryMarker
                /\ disk["default"].mirror # Nothing
                /\ Primary(disk["default"].mirror)

\* A mirror that allows emergency recovery.
Allows(d) == disk[d].mirror # Nothing /\ Emergency(disk[d].mirror)

\* Emergency recovery: without any readable shelf, from the first mirror that
\* allows it, if the marker allows it too.
EmergencyLoads == /\ ~PrimaryLoads
                  /\ ShelfLoads = Nothing
                  /\ emergencyMarker
                  /\ Allows("default") \/ Allows("backup")

\* Mutant: the backup has priority.
BackupSource == IF Allows("backup") THEN disk["backup"].mirror
                                    ELSE disk["default"].mirror

EmergencySource == IF Allows("default") THEN disk["default"].mirror
                                        ELSE disk["backup"].mirror

Loads ==
    IF PrimaryLoads THEN disk["default"].mirror
    ELSE IF ShelfLoads # Nothing THEN ShelfLoads
    ELSE IF EmergencyLoads THEN EmergencySource
    ELSE Fresh

-----------------------------------------------------------------------------
(* The process starts and changes its settings. *)

\* _Options.__init__: makes the directory, loads, and installs what emergency
\* recovery rebuilt as the temporary database.  Without settings a first password
\* is set, which schedules a write.
Start ==
    /\ ~up
    /\ up' = TRUE
    /\ current' = Loads
    /\ pending' = ~(PrimaryLoads \/ ShelfLoads # Nothing \/ EmergencyLoads)
    /\ disk' = [disk EXCEPT !["default"].there = TRUE,
                            !["tmp"] = IF EmergencyLoads
                                       THEN [Empty EXCEPT !.shelf = EmergencySource]
                                       ELSE @]
    /\ answer' = "none"
    /\ stored' = Loads /\ attempt' = Loads /\ safe' = TRUE
    /\ verified' = (verified /\ Loads = stored)
    /\ UNCHANGED <<step, caller, primaryMarker, emergencyMarker, backupYoung,
                   counts>>

\* The process stops while it fills the database of an emergency recovery.
RecoveryStops ==
    /\ ~up /\ EmergencyLoads /\ crashes < MaxCrashes
    /\ disk' = [disk EXCEPT !["default"].there = TRUE,
                            !["tmp"] = [Empty EXCEPT !.shelf = Partly(EmergencySource)]]
    /\ crashes' = crashes + 1
    /\ UNCHANGED <<up, current, pending, step, caller, answer, primaryMarker,
                   emergencyMarker, backupYoung, history, changes,
                   failures, damage>>

\* The SQLite primary may be chosen once both copies passed their tests.
Ready(s, marker) == /\ disk["default"].mirror = s
                    /\ disk["backup"].mirror # Nothing
                    /\ marker
                    /\ Strict(s)

\* Mutant: a change relies on a timer that is already set.
ChangeKeepsTimer(m) ==
    /\ up /\ step = "idle" /\ changes < MaxChanges
    /\ m = "sqlite_primary" => Primary(current) \/ Ready(stored, emergencyMarker)
    /\ current' = [number |-> changes + 1, mode |-> m, whole |-> TRUE]
    /\ changes' = changes + 1
    /\ pending' = (pending \/ answer # "none")
    /\ answer' = "none"
    /\ UNCHANGED <<up, step, caller, files, history, crashes,
                   failures, damage>>

\* __setattr__ (or __delattr__) takes the lock that a write holds, and sets the
\* timer anew.
Change(m) ==
    /\ up /\ step = "idle" /\ changes < MaxChanges
    /\ m = "sqlite_primary" => Primary(current) \/ Ready(stored, emergencyMarker)
    /\ current' = [number |-> changes + 1, mode |-> m, whole |-> TRUE]
    /\ changes' = changes + 1
    /\ pending' = TRUE
    /\ answer' = "none"
    /\ UNCHANGED <<up, step, caller, files, history, crashes,
                   failures, damage>>

-----------------------------------------------------------------------------
(* _write, one action for each file operation. *)

\* The timer fires, or save_now or flush cancels it and writes at once.  Markers of
\* modes that are switched off go first.
BeginWrite(c) ==
    /\ up /\ step = "idle"
    /\ c = "timer" => pending
    /\ pending' = FALSE
    /\ step' = "clear" /\ caller' = c /\ answer' = "none"
    /\ primaryMarker' = (primaryMarker /\ Primary(current))
    /\ emergencyMarker' = (emergencyMarker /\ Emergency(current))
    /\ attempt' = current
    /\ safe' = (safe /\ disk["default"].shelf = stored)
    /\ verified' = FALSE
    /\ UNCHANGED <<up, current, disk, backupYoung, stored, counts>>

\* An operation of the running write that only touches the directories.
Proceed(next) ==
    /\ step' = next
    /\ UNCHANGED <<up, current, pending, caller, answer, primaryMarker,
                   emergencyMarker, stored, attempt, verified, counts>>

DropsBackup == /\ disk["backup"].there
               /\ ~(backupYoung /\ disk["backup"].shelf # Nothing
                                /\ disk["backup"].shelf.whole)

DropsDefault == disk["default"].there /\ disk["backup"].there

Removes(d) == \/ d = "tmp" /\ step = "clear"
              \/ d = "backup" /\ step = "backup" /\ DropsBackup
              \/ d = "default" /\ step = "default" /\ DropsDefault

\* rmtree has removed some of the files.
RemovePart(d) ==
    /\ Removes(d)
    /\ \E s \in {disk[d].shelf, Nothing}, m \in {disk[d].mirror, Nothing} :
         /\ <<s, m>> # <<disk[d].shelf, disk[d].mirror>>
         /\ disk' = [disk EXCEPT ![d].shelf = s, ![d].mirror = m]
    /\ Proceed(step) /\ UNCHANGED <<backupYoung, safe>>

\* The rest of the temporary directory goes, and a new one is made.
ClearTmp ==
    /\ step = "clear"
    /\ disk' = [disk EXCEPT !["tmp"] = Empty]
    /\ Proceed("shelf") /\ UNCHANGED <<backupYoung, safe>>

\* The database holds some of the keys.
WritePart ==
    /\ step = "shelf" /\ disk["tmp"].shelf = Nothing
    /\ disk' = [disk EXCEPT !["tmp"].shelf = Partly(current)]
    /\ Proceed("shelf") /\ UNCHANGED <<backupYoung, safe>>

WriteShelf ==
    /\ step = "shelf"
    /\ disk' = [disk EXCEPT !["tmp"].shelf = current]
    /\ Proceed("mirror") /\ UNCHANGED <<backupYoung, safe>>

WriteMirror ==
    /\ step = "mirror"
    /\ disk' = [disk EXCEPT !["tmp"].mirror = current]
    /\ Proceed("backup") /\ UNCHANGED <<backupYoung, safe>>

\* Without the strict option a write goes on without its mirror.
WriteNoMirror ==
    /\ step = "mirror" /\ ~Strict(current) /\ failures < MaxFailures
    /\ failures' = failures + 1
    /\ step' = "backup"
    /\ UNCHANGED <<up, current, pending, caller, answer, files, history, changes, crashes, damage>>

\* A backup of the last hour is kept, any other goes.
KeepBackup ==
    /\ step = "backup" /\ ~DropsBackup
    /\ Proceed("default") /\ UNCHANGED <<disk, backupYoung, safe>>

DropBackup ==
    /\ step = "backup" /\ DropsBackup
    /\ disk' = [disk EXCEPT !["backup"] = Gone]
    /\ Proceed("default") /\ UNCHANGED <<backupYoung, safe>>

\* The old settings become the backup, unless one was kept; then they go.
MoveToBackup ==
    /\ step = "default" /\ disk["default"].there /\ ~disk["backup"].there
    /\ disk' = [disk EXCEPT !["backup"] = disk["default"], !["default"] = Gone]
    /\ backupYoung' \in BOOLEAN
    /\ Proceed("install") /\ UNCHANGED safe

DropDefault ==
    /\ step = "default" /\ DropsDefault
    /\ disk' = [disk EXCEPT !["default"] = Gone]
    /\ Proceed("install") /\ UNCHANGED <<backupYoung, safe>>

NoDefault ==
    /\ step = "default" /\ ~disk["default"].there
    /\ Proceed("install") /\ UNCHANGED <<disk, backupYoung, safe>>

Install ==
    /\ step = "install"
    /\ disk' = [disk EXCEPT !["default"] = disk["tmp"], !["tmp"] = Gone]
    /\ safe' = TRUE
    /\ Proceed("sync") /\ UNCHANGED backupYoung

\* The markers follow what was written; _write returns True.  Whether the counted
\* starts and writes suffice for the primary mode is left open.
SyncMarkers ==
    /\ step = "sync" /\ step' = "idle"
    /\ emergencyMarker' = (Emergency(current)
                             /\ (emergencyMarker \/ disk["default"].mirror # Nothing))
    /\ primaryMarker' \in {FALSE, Primary(current) /\ Ready(current, emergencyMarker')}
    /\ answer' = CASE caller = "timer" -> "none"
                   [] caller = "save_now" -> "saved"
                   [] OTHER -> "flushed"
    /\ stored' = current
    /\ verified' = (emergencyMarker' /\ Strict(current))
    /\ UNCHANGED <<up, current, pending, caller, disk, backupYoung, attempt, safe, counts>>

\* Mutant: save_now does not look at what _write returned either.
AbortUnnoticed ==
    /\ failures < MaxFailures /\ failures' = failures + 1
    /\ step' = "idle"
    /\ answer' = CASE caller = "timer" -> "none"
                   [] caller = "save_now" -> "saved"
                   [] OTHER -> "flushed"
    /\ UNCHANGED <<up, current, pending, caller, primaryMarker, emergencyMarker,
                   backupYoung, history, changes, crashes, damage>>

\* An operation raises: _write catches it and returns False.  flush does not look
\* at what _write returned.
Abort ==
    /\ failures < MaxFailures /\ failures' = failures + 1
    /\ step' = "idle"
    /\ answer' = CASE caller = "timer" -> "none"
                   [] caller = "save_now" -> "failed"
                   [] OTHER -> "flushed"
    /\ UNCHANGED <<up, current, pending, caller, primaryMarker, emergencyMarker,
                   backupYoung, history, changes, crashes, damage>>

WriteFails ==
    /\ step \in {"clear", "shelf", "default", "install"} \/ (step = "backup" /\ DropsBackup)
    /\ Abort /\ UNCHANGED disk

\* The strict option rejects a write whose mirror fails, and removes its files.
StrictReject ==
    /\ step = "mirror" /\ Strict(current)
    /\ disk' = [disk EXCEPT !["tmp"] = Gone]
    /\ Abort

WriteStep ==
    \/ \E d \in Dirs : RemovePart(d)
    \/ ClearTmp \/ WritePart \/ WriteShelf \/ WriteMirror \/ WriteNoMirror
    \/ KeepBackup \/ DropBackup \/ MoveToBackup \/ DropDefault \/ NoDefault
    \/ Install \/ SyncMarkers \/ WriteFails \/ StrictReject

-----------------------------------------------------------------------------
(* The surroundings. *)

\* The process is killed, or power is lost; what was only in memory is gone.
Crash ==
    /\ up /\ crashes < MaxCrashes
    /\ crashes' = crashes + 1
    /\ up' = FALSE /\ step' = "idle" /\ pending' = FALSE /\ answer' = "none"
    /\ UNCHANGED <<current, caller, files, history, changes, failures,
                   damage>>

HourPasses ==
    /\ step = "idle" /\ backupYoung /\ backupYoung' = FALSE
    /\ UNCHANGED <<up, current, pending, step, caller, answer, disk, primaryMarker,
                   emergencyMarker, history, counts>>

\* A shelf becomes unreadable between two writes.
Damage(d) ==
    /\ step = "idle" /\ damage < MaxDamage
    /\ disk[d].shelf # Nothing
    /\ disk' = [disk EXCEPT ![d].shelf = Nothing]
    /\ damage' = damage + 1
    /\ safe' = FALSE
    /\ answer' = "none"
    /\ UNCHANGED <<up, current, pending, step, caller, primaryMarker,
                   emergencyMarker, backupYoung, stored, attempt,
                   verified, changes, crashes, failures>>

\* A new installation: no files, not started.
Init ==
    /\ up = FALSE /\ current = Fresh /\ pending = FALSE
    /\ step = "idle" /\ caller = Nothing /\ answer = "none"
    /\ disk = [d \in Dirs |-> Gone]
    /\ primaryMarker = FALSE /\ emergencyMarker = FALSE /\ backupYoung = FALSE
    /\ stored = Fresh /\ attempt = Fresh /\ safe = TRUE /\ verified = FALSE
    /\ changes = 0 /\ crashes = 0 /\ failures = 0 /\ damage = 0

Next ==
    \/ Start \/ RecoveryStops
    \/ \E m \in Modes : Change(m)
    \/ \E c \in Callers : BeginWrite(c)
    \/ WriteStep
    \/ Crash \/ HourPasses
    \/ \E d \in Dirs : Damage(d)

\* The process is started again, its timer fires, and a write goes on.
Fairness == WF_vars(Start) /\ WF_vars(BeginWrite("timer")) /\ WF_vars(WriteStep)

Spec == Init /\ [][Next]_vars
FairSpec == Spec /\ Fairness

-----------------------------------------------------------------------------
(* Properties. *)

\* A write that began with the complete settings in "default" may stop at any file
\* operation, by a crash or an error: a start then finds the old settings or the new
\* ones, complete (_write's order of directories, and the order __init__ reads them).
CrashKeepsSettings == safe => Loads \in {stored, attempt}

\* Once a start would find the new settings it does not find the old ones again,
\* whatever fails later in the same write or after it.
CommitIsFinal ==
    [][safe /\ safe' /\ Loads = attempt /\ attempt' = attempt => Loads' = attempt]_vars

\* When save_now has returned True, a start would load what is in memory.
SavedIsStored == answer = "saved" => Loads = current

\* After a strict write with emergency recovery switched on, the settings survive the
\* loss of every shelve database (_attempt_sqlite_emergency_recovery).
EmergencyKeepsSettings == verified /\ ShelfLoads = Nothing => Loads = stored

\* If no operation fails, a change is written in the end, or lost with its process.
EventuallySaved == (up /\ current # stored) ~> (current = stored \/ failures > 0)

\* The directories, databases and markers keep the promise of DurableSettings: what a
\* start would find is one value, replaced at once (_Options.__init__ reads what every
\* step of _write leaves).
Durable == INSTANCE DurableSettings WITH Values <- Settings, value <- Loads,
                                         offer <- attempt, exposed <- ~safe
KeepsPromise == Durable!Spec
=============================================================================

------------------------------ MODULE SensorLogs ------------------------------
(***************************************************************************)
(* The history of the sensors in a database: ospy/sensor_logs.py, with the *)
(* pages that read, clear and delete it (ospy/webpages.py).                *)
(*                                                                         *)
(* A record goes to a bounded outbox on disk, from which one worker writes *)
(* it to the database when there is one.  A record the outbox refuses goes *)
(* to a fallback file in the directory of the sensor, to be queued again   *)
(* by the next write or read.  The thread of the sensors, a page that      *)
(* reads, a page that clears or deletes and the worker interleave, and the *)
(* process may stop between any two steps.                                 *)
(*                                                                         *)
(* Abstracted: one kind of record; a record is the number of its turn, so  *)
(* that a larger one is newer; the write of a local file succeeds, except  *)
(* that of the fallback file.  The write of several records to the outbox  *)
(* and that of the fallback file are steps of their own.                   *)
(***************************************************************************)
EXTENDS Naturals, Sequences, FiniteSets

CONSTANTS
    InitialSensors, \* the identifiers of the sensors, in the order of their index
    Storages,       \* of "database" and "both": where a sensor's records go
    Limit,          \* run_sensor_entries, 0 for none
    Capacity,       \* OUTBOX_MAX_OPERATIONS
    BatchSize,      \* WORKER_BATCH_SIZE
    MaxRecords, MaxClears, MaxReads, MaxCrashes,
    MaxFailures     \* bound on the changes the database or the outbox refuses

Index == 1..Len(InitialSensors)
Uid == {InitialSensors[i] : i \in Index}
Places == Index \cup {0}   \* a sensor that is gone has none

ASSUME SensorAssumption ==
    /\ InitialSensors \in Seq(Uid) /\ InitialSensors # <<>>
    /\ \A i, j \in Index : InitialSensors[i] = InitialSensors[j] => i = j
    /\ Storages \subseteq {"database", "both"}
    /\ Limit \in Nat /\ Capacity \in Nat /\ BatchSize \in Nat \ {0}
    /\ MaxRecords \in Nat /\ MaxClears \in Nat /\ MaxReads \in Nat
    /\ MaxCrashes \in Nat /\ MaxFailures \in Nat

None == 0   \* no record: the row is a deletion

VARIABLES
    storage,     \* log_storage
    sensors,     \* the identifiers of the sensors there are
    history,     \* index -> records of the local JSON file in its directory
    fallback,    \* index -> records of the fallback file
    outbox,      \* rows [id, uid, rec] of the outbox
    nextId,
    database,    \* rows [uid, rec] of the database
    reachable,   \* whether the database answers
    batch,       \* the rows that the worker has read
    written,     \* whether the first of them is in the database
    pc,          \* the thread of the sensors, and a page that reads: what each is at
    subject,     \* its sensor
    place, left, \* the directory whose fallback file it queues, and what is left of it
    shown,       \* what the page that reads has got so far
    failed,      \* whether the database did not answer it
    since, gone, \* history: records there were, and were cleared, when it was opened
    task,        \* a page that clears or deletes: what it is at
    targets,     \* its sensors
    everything,  \* whether it deletes all there are
    deleting,    \* _deleting_uids
    owner,       \* history: record -> the sensor that measured it
    accepted,    \* history: records that were taken
    asked,       \* history: records whose removal has begun
    cleared,     \* history: records whose removal was acknowledged
    used         \* counts what is bounded

files == <<history, fallback>>
queue == <<outbox, nextId>>
remote == <<database, reachable>>
worker == <<batch, written>>
threads == <<pc, subject, place, left>>
view == <<shown, failed, since, gone>>
page == <<task, targets, everything, deleting>>
ghosts == <<owner, accepted, asked, cleared>>
vars == <<storage, sensors, files, queue, remote, worker, threads, view, page, ghosts, used>>

Records == 1..MaxRecords
Rows == [id : Nat, uid : Uid, rec : Records \cup {None}]
Threads == {"writer", "reader"}
Steps == {"idle", "requeue", "moving", "enqueue", "fallback", "pending", "deleted", "remote",
          "retry", "local", "shown"}
Bounds == {"clears", "reads", "crashes", "failures"}

SensorTypes ==
    storage \in Storages /\ sensors \in Seq(Uid) /\ Len(sensors) <= Len(InitialSensors)
FileTypes == history \in [Index -> SUBSET Records] /\ fallback \in [Index -> SUBSET Records]
QueueTypes == outbox \subseteq Rows /\ nextId \in Nat
RemoteTypes == database \subseteq [uid : Uid, rec : Records] /\ reachable \in BOOLEAN
WorkerTypes == batch \subseteq Rows /\ written \in BOOLEAN
ThreadTypes ==
    /\ pc \in [Threads -> Steps] /\ subject \in [Threads -> Uid]
    /\ place \in [Threads -> Places] /\ left \in [Threads -> SUBSET Records]
ViewTypes ==
    /\ shown \subseteq Records /\ failed \in BOOLEAN
    /\ since \subseteq Records /\ gone \subseteq Records
PageTypes ==
    /\ task \in {"idle", "clear", "delete", "remove"} /\ targets \in Seq(Uid)
    /\ everything \in BOOLEAN /\ deleting \subseteq Uid
GhostTypes ==
    /\ owner \in Seq(Uid) /\ Len(owner) <= MaxRecords
    /\ accepted \subseteq Records /\ asked \subseteq Records /\ cleared \subseteq Records
UsedTypes == used \in [Bounds -> Nat]

TypeOK ==
    /\ SensorTypes /\ FileTypes /\ QueueTypes /\ RemoteTypes /\ WorkerTypes /\ ThreadTypes
    /\ ViewTypes /\ PageTypes /\ GhostTypes /\ UsedTypes

-----------------------------------------------------------------------------
(* The files, the outbox and the database. *)

\* The records that retention keeps: the newest ones (a prefix of the file, the
\* subquery of _trim_database, _apply_retention).
Newest(recs) ==
    IF Limit = 0 THEN recs
    ELSE {n \in recs : Cardinality({m \in recs : m > n}) < Limit}

\* The directory of a sensor is named after its index, not its identifier.
PlaceOf(u) ==
    IF \E i \in 1..Len(sensors) : sensors[i] = u
    THEN CHOOSE i \in 1..Len(sensors) : sensors[i] = u
    ELSE 0
At(file, i) == IF i = 0 THEN {} ELSE file[i]
Without(file, i) == [j \in Index |-> IF j = i THEN {} ELSE file[j]]

\* The lock of the local files, held while the fallback file is queued again, and
\* that of the writes and clears.
LocalLock == \E t \in Threads : pc[t] = "moving"
DeleteLock == pc["writer"] # "idle" \/ task = "clear"

Pending(u) == {r.rec : r \in {q \in outbox : q.uid = u /\ q.rec # None}}
\* Mutant: a deletion that waits is not looked for.
TombstoneUnseen(u) == FALSE
Tombstone(u) == \E r \in outbox : r.uid = u /\ r.rec = None
InDatabase(u) == {s.rec : s \in {q \in database : q.uid = u}}

\* INSERT OR IGNORE of a record, when there is room.
QueueInsert(u, n) ==
    /\ Cardinality(outbox) < Capacity
    /\ IF \E r \in outbox : r.rec = n
       THEN UNCHANGED queue
       ELSE /\ outbox' = outbox \cup {[id |-> nextId, uid |-> u, rec |-> n]}
            /\ nextId' = nextId + 1

Count(what) == [used EXCEPT ![what] = @ + 1]

\* Either the outbox is full, or it could not be written.
Refused ==
    \/ (Cardinality(outbox) >= Capacity /\ UNCHANGED used)
    \/ (used["failures"] < MaxFailures /\ used' = Count("failures"))

Deletions(us) == {[id |-> nextId + i - 1, uid |-> us[i], rec |-> None] : i \in 1..Len(us)}

\* Mutant: the rows that wait stay in front of the deletion.
ReplacedNothing(us) == outbox \cup Deletions(us)
\* In one transaction the deletion of each sensor takes the place of its rows.
Replaced(us) == {r \in outbox : \A i \in 1..Len(us) : r.uid # us[i]} \cup Deletions(us)

QueueDeletes(us) ==
    /\ outbox' = Replaced(us)
    /\ nextId' = nextId + Len(us)

Init ==
    /\ storage \in Storages
    /\ sensors = InitialSensors
    /\ history = [i \in Index |-> {}] /\ fallback = [i \in Index |-> {}]
    /\ outbox = {} /\ nextId = 1
    /\ database = {} /\ reachable = TRUE
    /\ batch = {} /\ written = FALSE
    /\ pc = [t \in Threads |-> "idle"] /\ subject = [t \in Threads |-> InitialSensors[1]]
    /\ place = [t \in Threads |-> 0] /\ left = [t \in Threads |-> {}]
    /\ shown = {} /\ failed = FALSE /\ since = {} /\ gone = {}
    /\ task = "idle" /\ targets = <<>> /\ everything = FALSE /\ deleting = {}
    /\ owner = <<>> /\ accepted = {} /\ asked = {} /\ cleared = {}
    /\ used = [b \in Bounds |-> 0]

-----------------------------------------------------------------------------
(* A write or a read queues the fallback file again (_queue_fallback_records). *)

TakeFallback(t) ==
    /\ pc[t] = "requeue" /\ ~LocalLock
    /\ pc' = [pc EXCEPT ![t] = "moving"]
    /\ place' = [place EXCEPT ![t] = PlaceOf(subject[t])]
    /\ left' = [left EXCEPT ![t] = At(fallback, PlaceOf(subject[t]))]
    /\ UNCHANGED <<subject, storage, sensors, files, queue, remote, worker, view, page, ghosts,
                   used>>

MoveOne(t) ==
    /\ pc[t] = "moving"
    /\ \E n \in left[t] :
        /\ \A m \in left[t] : m <= n
        /\ QueueInsert(subject[t], n)
        /\ left' = [left EXCEPT ![t] = @ \ {n}]
    /\ UNCHANGED <<pc, subject, place, storage, sensors, files, remote, worker, view, page,
                   ghosts, used>>

\* Mutant: the file is removed whatever the outbox took.
RestLost(recs) == {}
\* What the outbox refused stays in the file.
Rest(recs) == recs

EndMove(t) ==
    /\ pc[t] = "moving"
    /\ IF left[t] = {} THEN UNCHANGED used ELSE Refused
    /\ fallback' = [i \in Index |-> IF i = place[t] THEN Rest(left[t]) ELSE fallback[i]]
    /\ pc' = [pc EXCEPT ![t] = IF t = "writer" THEN "enqueue" ELSE "fallback"]
    /\ place' = [place EXCEPT ![t] = 0] /\ left' = [left EXCEPT ![t] = {}]
    /\ UNCHANGED <<subject, storage, sensors, history, queue, remote, worker, view, page,
                   ghosts>>

-----------------------------------------------------------------------------
(* The thread of the sensors writes a record (write_record). *)

Measure(i) ==
    /\ ~DeleteLock
    /\ Len(owner) < MaxRecords
    /\ sensors[i] \notin deleting
    /\ owner' = Append(owner, sensors[i])
    /\ history' = IF storage = "both"
                  THEN [history EXCEPT ![i] = Newest(@ \cup {Len(owner')})]
                  ELSE history
    /\ pc' = [pc EXCEPT !["writer"] = "requeue"]
    /\ subject' = [subject EXCEPT !["writer"] = sensors[i]] /\ UNCHANGED <<place, left>>
    /\ UNCHANGED <<storage, sensors, fallback, queue, remote, worker, view, page, accepted,
                   asked, cleared, used>>

Enqueue ==
    /\ pc["writer"] = "enqueue"
    /\ QueueInsert(subject["writer"], Len(owner))
    /\ accepted' = accepted \cup {Len(owner)}
    /\ pc' = [pc EXCEPT !["writer"] = "idle"] /\ UNCHANGED <<subject, place, left>>
    /\ UNCHANGED <<storage, sensors, files, remote, worker, view, page, owner, asked, cleared,
                   used>>

EnqueueFails ==
    /\ pc["writer"] = "enqueue"
    /\ Refused
    /\ pc' = [pc EXCEPT !["writer"] = "fallback"] /\ UNCHANGED <<subject, place, left>>
    /\ UNCHANGED <<storage, sensors, files, queue, remote, worker, view, page, ghosts>>

\* A record that is only in the local file is reported and does not count as taken.
WriteFallback ==
    /\ pc["writer"] = "fallback" /\ ~LocalLock
    /\ LET i == PlaceOf(subject["writer"])
           n == Len(owner)
       IN  /\ history' = [history EXCEPT ![i] = Newest(@ \cup {n})]
           /\ \/ /\ fallback' = [fallback EXCEPT ![i] = Newest(@ \cup {n})]
                 /\ accepted' = accepted \cup {n}
                 /\ UNCHANGED used
              \/ /\ used["failures"] < MaxFailures
                 /\ used' = Count("failures")
                 /\ UNCHANGED <<fallback, accepted>>
    /\ pc' = [pc EXCEPT !["writer"] = "idle"] /\ UNCHANGED <<subject, place, left>>
    /\ UNCHANGED <<storage, sensors, queue, remote, worker, view, page, owner, asked, cleared>>

-----------------------------------------------------------------------------
(* The worker delivers the outbox (process_pending_batch). *)

FirstOf(rows) == CHOOSE r \in rows : \A q \in rows : r.id <= q.id

ReadBatch ==
    /\ batch = {} /\ outbox # {} /\ reachable
    /\ batch' = {r \in outbox : Cardinality({q \in outbox : q.id < r.id}) < BatchSize}
    /\ UNCHANGED written
    /\ UNCHANGED <<storage, sensors, files, queue, remote, threads, view, page, ghosts, used>>

Inserted(r) ==
    IF \E s \in database : s.rec = r.rec THEN database
    ELSE database \cup {[uid |-> r.uid, rec |-> r.rec]}

Trimmed(rows, u) ==
    {s \in rows : s.uid = u => s.rec \in Newest({q.rec : q \in {p \in rows : p.uid = u}})}

\* What writing a row to the database does.
Effect(r) ==
    IF r.rec = None THEN {s \in database : s.uid # r.uid} ELSE Trimmed(Inserted(r), r.uid)

\* Mutant: the worker does not know a sensor that is gone.
WriteRowOfSensor ==
    /\ batch # {} /\ ~written /\ reachable
    /\ FirstOf(batch).uid \in {sensors[i] : i \in 1..Len(sensors)}
    /\ database' = Effect(FirstOf(batch))
    /\ written' = TRUE /\ UNCHANGED batch
    /\ UNCHANGED <<storage, sensors, files, queue, reachable, threads, view, page, ghosts,
                   used>>
WriteRow ==
    /\ batch # {} /\ ~written /\ reachable
    /\ database' = Effect(FirstOf(batch))
    /\ written' = TRUE /\ UNCHANGED batch
    /\ UNCHANGED <<storage, sensors, files, queue, reachable, threads, view, page, ghosts,
                   used>>

\* A write that fails ends the batch; it may have had its effect, or half of it.
WriteFails ==
    /\ batch # {} /\ ~written
    /\ LET r == FirstOf(batch) IN
       \/ (~reachable /\ UNCHANGED <<database, used>>)
       \/ /\ reachable /\ used["failures"] < MaxFailures
          /\ used' = Count("failures")
          /\ database' \in {database, Effect(r)} \cup IF r.rec = None THEN {} ELSE {Inserted(r)}
    /\ batch' = {} /\ written' = FALSE
    /\ UNCHANGED <<storage, sensors, files, queue, reachable, threads, view, page, ghosts>>

RemoveRow ==
    /\ written
    /\ LET r == FirstOf(batch) IN
       /\ outbox' = {q \in outbox : q.id # r.id}
       /\ batch' = batch \ {r} /\ written' = FALSE
    /\ UNCHANGED <<storage, sensors, files, nextId, remote, threads, view, page, ghosts, used>>

Outage ==
    /\ reachable /\ used["failures"] < MaxFailures
    /\ reachable' = FALSE
    /\ used' = Count("failures")
    /\ UNCHANGED <<storage, sensors, files, queue, database, worker, threads, view, page,
                   ghosts>>

Recover ==
    /\ ~reachable /\ reachable' = TRUE
    /\ UNCHANGED <<storage, sensors, files, queue, database, worker, threads, view, page,
                   ghosts, used>>

-----------------------------------------------------------------------------
(* A page reads the history of a sensor from the database (read_records). *)

Of(u) == {n \in 1..Len(owner) : owner[n] = u}

OpenHistory(i) ==
    /\ pc["reader"] = "idle" /\ used["reads"] < MaxReads
    /\ pc' = [pc EXCEPT !["reader"] = "requeue"]
    /\ subject' = [subject EXCEPT !["reader"] = sensors[i]] /\ UNCHANGED <<place, left>>
    /\ since' = (accepted \cap Of(sensors[i])) \ asked /\ gone' = cleared
    /\ UNCHANGED <<shown, failed>>
    /\ used' = Count("reads")
    /\ UNCHANGED <<storage, sensors, files, queue, remote, worker, page, ghosts>>

Reads(at, next, got) ==
    /\ pc["reader"] = at
    /\ pc' = [pc EXCEPT !["reader"] = next] /\ UNCHANGED <<subject, place, left>>
    /\ shown' = got /\ UNCHANGED <<failed, since, gone>>
    /\ UNCHANGED <<storage, sensors, files, queue, remote, worker, page, ghosts, used>>

Viewed == subject["reader"]

ReadFallback == ~LocalLock /\ Reads("fallback", "pending", At(fallback, PlaceOf(Viewed)))
ReadPending == Reads("pending", "deleted", shown \cup Pending(Viewed))

\* While a deletion waits, what is in the database does not count.
ReadTombstone ==
    IF Tombstone(Viewed)
    THEN Reads("deleted", "shown", Newest(shown))
    ELSE Reads("deleted", "remote", shown)

\* Mutant: what waits is left out when the database answers.
ReadRemoteOnly ==
    /\ reachable
    /\ Reads("remote", "shown", Newest(InDatabase(Viewed)))
ReadRemote ==
    /\ reachable
    /\ Reads("remote", "shown", Newest(shown \cup Newest(InDatabase(Viewed))))

\* Without the database the page shows what waits, and the local file.
RemoteFails ==
    /\ pc["reader"] = "remote" /\ ~reachable
    /\ pc' = [pc EXCEPT !["reader"] = "retry"] /\ UNCHANGED <<subject, place, left>>
    /\ shown' = {} /\ failed' = TRUE /\ UNCHANGED <<since, gone>>
    /\ UNCHANGED <<storage, sensors, files, queue, remote, worker, page, ghosts, used>>

ReadAgain == Reads("retry", "local", Pending(Viewed))
ReadLocal == Reads("local", "shown", Newest(shown \cup At(history, PlaceOf(Viewed))))

CloseHistory ==
    /\ pc["reader"] = "shown"
    /\ pc' = [pc EXCEPT !["reader"] = "idle"] /\ UNCHANGED <<subject, place, left>>
    /\ shown' = {} /\ failed' = FALSE /\ since' = {} /\ gone' = {}
    /\ UNCHANGED <<storage, sensors, files, queue, remote, worker, page, ghosts, used>>

Read == ReadFallback \/ ReadPending \/ ReadTombstone \/ ReadRemote \/ RemoteFails
        \/ ReadAgain \/ ReadLocal \/ CloseHistory

-----------------------------------------------------------------------------
(* Pages clear the history of a sensor, or delete sensors. *)

StartClear(i) ==
    /\ task = "idle" /\ ~DeleteLock /\ ~LocalLock /\ used["clears"] < MaxClears
    /\ history' = Without(history, i) /\ fallback' = Without(fallback, i)
    /\ asked' = asked \cup Of(sensors[i])
    /\ task' = "clear" /\ targets' = <<sensors[i]>> /\ UNCHANGED <<everything, deleting>>
    /\ used' = Count("clears")
    /\ UNCHANGED <<storage, sensors, queue, remote, worker, threads, view, owner, accepted,
                   cleared>>

EndClear ==
    /\ task = "clear"
    /\ QueueDeletes(targets)
    /\ cleared' = cleared \cup Of(targets[1])
    /\ task' = "idle" /\ targets' = <<>> /\ UNCHANGED <<everything, deleting>>
    /\ UNCHANGED <<storage, sensors, files, remote, worker, threads, view, owner, accepted,
                   asked, used>>

ClearFails ==
    /\ task = "clear"
    /\ used["failures"] < MaxFailures
    /\ used' = Count("failures")
    /\ task' = "idle" /\ targets' = <<>> /\ UNCHANGED <<everything, deleting>>
    /\ UNCHANGED <<storage, sensors, files, queue, remote, worker, threads, view, ghosts>>

\* From the deletion on the sensor is refused, one that cannot be queued is not begun.
StartDelete(us, all) ==
    /\ task = "idle" /\ ~DeleteLock /\ used["clears"] < MaxClears
    /\ deleting' = deleting \cup {us[i] : i \in 1..Len(us)}
    /\ QueueDeletes(us)
    /\ asked' = asked \cup UNION {Of(us[i]) : i \in 1..Len(us)}
    /\ task' = "delete" /\ targets' = us /\ everything' = all
    /\ used' = Count("clears")
    /\ UNCHANGED <<storage, sensors, files, remote, worker, threads, view, owner, accepted,
                   cleared>>

DeleteOne(i) == StartDelete(<<sensors[i]>>, FALSE)
DeleteAll ==
    /\ sensors # <<>>
    /\ StartDelete([i \in 1..Len(sensors) |-> sensors[Len(sensors) + 1 - i]], TRUE)

DeleteFiles ==
    /\ task = "delete" /\ ~LocalLock
    /\ history' = Without(history, PlaceOf(targets[1]))
    /\ fallback' = Without(fallback, PlaceOf(targets[1]))
    /\ task' = "remove" /\ UNCHANGED <<targets, everything, deleting>>
    /\ UNCHANGED <<storage, sensors, queue, remote, worker, threads, view, ghosts, used>>

\* The sensors behind it move up; their directories keep their names.
RemoveSensor ==
    /\ task = "remove"
    /\ LET k == PlaceOf(targets[1]) IN
       sensors' = [i \in 1..(Len(sensors) - 1) |-> sensors[IF i < k THEN i ELSE i + 1]]
    /\ IF Len(targets) > 1
       THEN /\ task' = "delete" /\ targets' = Tail(targets) /\ UNCHANGED <<everything, files>>
       ELSE /\ task' = "idle" /\ targets' = <<>> /\ everything' = FALSE
            /\ IF everything
               THEN history' = [i \in Index |-> {}] /\ fallback' = [i \in Index |-> {}]
               ELSE UNCHANGED files
    /\ UNCHANGED <<storage, queue, remote, worker, threads, view, deleting, ghosts, used>>

\* The process stops and starts again: the files and the outbox are what it left.
Crash ==
    /\ used["crashes"] < MaxCrashes
    /\ batch' = {} /\ written' = FALSE
    /\ pc' = [t \in Threads |-> "idle"]
    /\ place' = [t \in Threads |-> 0] /\ left' = [t \in Threads |-> {}] /\ UNCHANGED subject
    /\ shown' = {} /\ failed' = FALSE /\ since' = {} /\ gone' = {}
    /\ task' = "idle" /\ targets' = <<>> /\ everything' = FALSE /\ deleting' = {}
    /\ used' = Count("crashes")
    /\ UNCHANGED <<storage, sensors, files, queue, remote, ghosts>>

Deliver == ReadBatch \/ WriteRow \/ RemoveRow

Next ==
    \/ \E t \in Threads : TakeFallback(t) \/ MoveOne(t) \/ EndMove(t)
    \/ \E i \in 1..Len(sensors) : Measure(i) \/ OpenHistory(i) \/ StartClear(i) \/ DeleteOne(i)
    \/ Enqueue \/ EnqueueFails \/ WriteFallback
    \/ Deliver \/ WriteFails \/ Outage \/ Recover
    \/ Read
    \/ EndClear \/ ClearFails \/ DeleteAll \/ DeleteFiles \/ RemoveSensor
    \/ Crash

Spec == Init /\ [][Next]_vars

\* The worker is a loop that ends with the process only, and outages end.
FairSpec == Spec /\ WF_vars(Deliver) /\ WF_vars(Recover)

-----------------------------------------------------------------------------
(* Properties. *)

\* Nothing that was taken is lost: until somebody asks for its removal a record is in
\* the outbox, in the database or in the fallback file, or retention gave it up for
\* enough newer ones (write_record, process_pending_batch, _queue_fallback_records).
AcceptedKept ==
    \A n \in accepted \ asked :
        \/ n \in Pending(owner[n]) \cup InDatabase(owner[n])
        \/ n \in At(fallback, PlaceOf(owner[n]))
        \/ (Limit > 0 /\ Cardinality({m \in accepted \cap Of(owner[n]) : m > n}) >= Limit)

\* What a clear has removed does not come back: a record that the worker, the fallback
\* file or an earlier row still had may reach the database only while the deletion waits
\* behind it (clear_records, _enqueue_deletes).
ClearedStaysGone ==
    \A n \in cleared :
        /\ n \notin Pending(owner[n])
        /\ \A i \in Index : n \notin fallback[i]
        /\ n \in InDatabase(owner[n]) => Tombstone(owner[n])

\* A page that read the database shows every record that was there when it began, though
\* records move from the fallback file to the outbox and on while it reads; without the
\* database only what has left for it is missing (read_records, read_database_records).
ReadComplete ==
    pc["reader"] = "shown" =>
        \A n \in since \ asked :
            \/ n \in shown
            \/ (Limit > 0 /\ Cardinality({m \in shown : m > n}) >= Limit)
            \/ /\ failed /\ storage = "database"
               /\ n \notin Pending(owner[n]) \cup At(fallback, PlaceOf(owner[n]))

\* No page shows what was cleared before it was opened.
ReadClean == pc["reader"] = "shown" => shown \cap gone = {}

\* A page that reads four stores one after the other, while records move between them,
\* shows what an undisturbed look would have shown (sensor_logs.py:806).
ReadExact == ReadComplete /\ ReadClean

\* When outages end, whatever waits is delivered: the records reach the database, and
\* those that were cleared have left it (SensorLogDatabaseWorker.run).
OutboxDrains == []<>(outbox = {})
=============================================================================

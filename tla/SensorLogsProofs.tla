--------------------------- MODULE SensorLogsProofs ---------------------------
(***************************************************************************)
(* Proofs about SensorLogs, for every capacity, retention, number of       *)
(* records, failures and crashes.  The properties are those of a sensor    *)
(* alone: with several, the deletion of one leaves its neighbours with the *)
(* directories, and the fallback files, of others.                         *)
(***************************************************************************)
EXTENDS SensorLogs, SequenceTheorems, FiniteSetTheorems, NaturalsInduction,
        WellFoundedInduction, TLAPS

-----------------------------------------------------------------------------
(* Types. *)

LEMMA NewestSubset == \A S : Newest(S) \subseteq S
  BY DEF Newest

LEMMA NewestWith ==
  ASSUME NEW S \in SUBSET Records, NEW n \in Records
  PROVE  Newest(S \cup {n}) \in SUBSET Records
  BY NewestSubset

\* The places of the sensors there are, and their identifiers.
LEMMA SensorsInRange ==
  ASSUME SensorTypes
  PROVE  /\ Len(sensors) \in Nat /\ Len(InitialSensors) \in Nat
         /\ \A i \in 1..Len(sensors) : i \in Index /\ sensors[i] \in Uid
  BY SensorAssumption DEF SensorTypes, Index

LEMMA PlaceInRange == \A x : PlaceOf(x) = 0 \/ PlaceOf(x) \in 1..Len(sensors)
  BY DEF PlaceOf

\* A batch that is not empty has a first row.
LEMMA FirstRow ==
  ASSUME NEW rows \in SUBSET Rows, rows # {}
  PROVE  FirstOf(rows) \in rows /\ \A q \in rows : FirstOf(rows).id <= q.id
<1> DEFINE S == {r.id : r \in rows}
           R == OpToRel(<, Nat)
<1>1. S \subseteq Nat /\ S # {}
  BY DEF Rows
<1>2. \E x \in S : \A y \in S : ~(<<y, x>> \in R)
  <2>1. IsWellFoundedOn(R, Nat)
    BY NatLessThanWellFounded
  <2> HIDE DEF S, R
  <2> QED BY <1>1, <2>1, WFMin, Zenon
<1>3. \A x, y \in Nat : y < x => <<y, x>> \in R
  BY DEF OpToRel
<1>4. \E x \in S : \A y \in S : x <= y
  <2>1. PICK x \in S : \A y \in S : ~(<<y, x>> \in R)
    BY <1>2
  <2>2. SUFFICES ASSUME NEW y \in S PROVE x <= y
    OBVIOUS
  <2>3. x \in Nat /\ y \in Nat /\ ~(y < x)
    BY <1>1, <1>3, <2>1
  <2> QED BY <2>3
<1>5. \E r \in rows : \A q \in rows : r.id <= q.id
  BY <1>4
<1> QED BY <1>5 DEF FirstOf

LEMMA OfRecords == GhostTypes => \A u : Of(u) \subseteq Records
  BY SensorAssumption DEF GhostTypes, Of, Records

LEMMA NoTargets == <<>> \in Seq(Uid)
  OBVIOUS

\* A thread that writes has a record.
Busy == pc["writer"] # "idle" => Len(owner) > 0


LEMMA TypesInitially == Init => TypeOK /\ Busy
<1> SUFFICES ASSUME Init PROVE TypeOK /\ Busy
  OBVIOUS
<1> USE SensorAssumption DEF Init
<1>1. 1 \in Index /\ InitialSensors[1] \in Uid /\ Len(InitialSensors) \in Nat
  BY DEF Index, Uid
<1>2. SensorTypes
  BY <1>1 DEF SensorTypes
<1>3. FileTypes /\ QueueTypes /\ RemoteTypes /\ WorkerTypes /\ ViewTypes /\ UsedTypes
  BY DEF FileTypes, QueueTypes, RemoteTypes, WorkerTypes, ViewTypes, UsedTypes
<1>4. ThreadTypes
  BY <1>1 DEF ThreadTypes, Threads, Steps, Places
<1>5. PageTypes /\ GhostTypes
  <2>1. <<>> \in Seq(Uid) /\ Len(<<>>) = 0 /\ 0 <= MaxRecords
    BY NoTargets
  <2>2. PageTypes
    BY <2>1 DEF PageTypes
  <2>3. owner \in Seq(Uid) /\ Len(owner) <= MaxRecords
    BY <2>1
  <2> QED BY <2>2, <2>3 DEF GhostTypes
<1>6. Busy
  BY DEF Busy, Threads
<1> QED BY <1>2, <1>3, <1>4, <1>5, <1>6 DEF TypeOK

LEMMA TypesStep ==
  ASSUME TypeOK, Busy, [Next]_vars
  PROVE  TypeOK'
<1> USE SensorAssumption DEF TypeOK
<1>1. ASSUME NEW t \in Threads, TakeFallback(t)
      PROVE  TypeOK'
  <2>1. ThreadTypes'
    BY <1>1, PlaceInRange DEF TakeFallback, ThreadTypes, Threads, Steps, At, FileTypes,
       SensorTypes, Places, Index
  <2>2. /\ SensorTypes' /\ FileTypes' /\ QueueTypes' /\ RemoteTypes'
       /\ WorkerTypes' /\ ViewTypes' /\ PageTypes' /\ GhostTypes' /\ UsedTypes'
    BY <1>1 DEF TakeFallback, files, queue, remote, worker, threads, view, page, ghosts,
       SensorTypes, FileTypes, QueueTypes, RemoteTypes, WorkerTypes, ViewTypes, PageTypes,
       GhostTypes, UsedTypes
  <2> QED BY <2>1, <2>2
<1>2. ASSUME NEW t \in Threads, MoveOne(t)
      PROVE  TypeOK'
  <2>1. QueueTypes'
    BY <1>2 DEF MoveOne, QueueInsert, QueueTypes, Rows, ThreadTypes, Threads, queue
  <2>2. ThreadTypes'
    BY <1>2 DEF MoveOne, QueueInsert, ThreadTypes, Threads, Steps, Places
  <2>3. /\ SensorTypes' /\ FileTypes' /\ RemoteTypes' /\ WorkerTypes'
       /\ ViewTypes' /\ PageTypes' /\ GhostTypes' /\ UsedTypes'
    BY <1>2 DEF MoveOne, files, queue, remote, worker, threads, view, page, ghosts,
       SensorTypes, FileTypes, RemoteTypes, WorkerTypes, ViewTypes, PageTypes, GhostTypes,
       UsedTypes
  <2> QED BY <2>1, <2>2, <2>3
<1>3. ASSUME NEW t \in Threads, EndMove(t)
      PROVE  TypeOK'
  <2>1. FileTypes'
    BY <1>3 DEF EndMove, Rest, Refused, FileTypes, ThreadTypes, Threads
  <2>2. ThreadTypes'
    BY <1>3 DEF EndMove, Rest, Refused, ThreadTypes, Threads, Steps, Places
  <2>3. UsedTypes'
    BY <1>3 DEF EndMove, Rest, Refused, UsedTypes, Count, Bounds
  <2>4. /\ SensorTypes' /\ QueueTypes' /\ RemoteTypes'
       /\ WorkerTypes' /\ ViewTypes' /\ PageTypes' /\ GhostTypes'
    BY <1>3 DEF EndMove, Rest, Refused, files, queue, remote, worker, threads, view, page,
       ghosts, SensorTypes, QueueTypes, RemoteTypes, WorkerTypes, ViewTypes, PageTypes,
       GhostTypes
  <2> QED BY <2>1, <2>2, <2>3, <2>4
<1>4. ASSUME NEW i \in 1..Len(sensors), Measure(i)
      PROVE  TypeOK'
  <2>1. FileTypes'
    <3>1. i \in Index /\ Len(owner') \in Records
      BY <1>4, SensorsInRange DEF Measure, GhostTypes, Records
    <3>2. Newest(history[i] \cup {Len(owner')}) \in SUBSET Records
      BY <3>1, NewestWith DEF FileTypes
    <3> QED BY <1>4, <3>1, <3>2 DEF Measure, FileTypes
  <2>2. ThreadTypes'
    BY <1>4 DEF Measure, ThreadTypes, Threads, Steps, SensorTypes
  <2>3. GhostTypes'
    BY <1>4 DEF Measure, GhostTypes, SensorTypes
  <2>4. /\ SensorTypes' /\ QueueTypes' /\ RemoteTypes'
       /\ WorkerTypes' /\ ViewTypes' /\ PageTypes' /\ UsedTypes'
    BY <1>4 DEF Measure, files, queue, remote, worker, threads, view, page, ghosts,
       SensorTypes, QueueTypes, RemoteTypes, WorkerTypes, ViewTypes, PageTypes, UsedTypes
  <2> QED BY <2>1, <2>2, <2>3, <2>4
<1>5. ASSUME NEW i \in 1..Len(sensors), OpenHistory(i)
      PROVE  TypeOK'
  <2>1. ThreadTypes'
    BY <1>5 DEF OpenHistory, ThreadTypes, Threads, Steps, SensorTypes
  <2>2. ViewTypes'
    BY <1>5 DEF OpenHistory, ViewTypes, GhostTypes
  <2>3. UsedTypes'
    BY <1>5 DEF OpenHistory, UsedTypes, Count, Bounds
  <2>4. /\ SensorTypes' /\ FileTypes' /\ QueueTypes'
       /\ RemoteTypes' /\ WorkerTypes' /\ PageTypes' /\ GhostTypes'
    BY <1>5 DEF OpenHistory, files, queue, remote, worker, threads, view, page, ghosts,
       SensorTypes, FileTypes, QueueTypes, RemoteTypes, WorkerTypes, PageTypes, GhostTypes
  <2> QED BY <2>1, <2>2, <2>3, <2>4
<1>6. ASSUME NEW i \in 1..Len(sensors), StartClear(i)
      PROVE  TypeOK'
  <2>1. FileTypes'
    BY <1>6 DEF StartClear, Without, FileTypes
  <2>2. PageTypes'
    BY <1>6 DEF StartClear, Without, PageTypes, SensorTypes
  <2>3. GhostTypes'
    BY <1>6, OfRecords DEF StartClear, Without, GhostTypes
  <2>4. UsedTypes'
    BY <1>6 DEF StartClear, Without, UsedTypes, Count, Bounds
  <2>5. /\ SensorTypes' /\ QueueTypes' /\ RemoteTypes'
       /\ WorkerTypes' /\ ThreadTypes' /\ ViewTypes'
    BY <1>6 DEF StartClear, Without, files, queue, remote, worker, threads, view, page,
       ghosts, SensorTypes, QueueTypes, RemoteTypes, WorkerTypes, ThreadTypes, ViewTypes
  <2> QED BY <2>1, <2>2, <2>3, <2>4, <2>5
<1>7. ASSUME NEW i \in 1..Len(sensors), DeleteOne(i)
      PROVE  TypeOK'
  <2>1. SensorTypes'
    BY <1>7 DEF DeleteOne, StartDelete, QueueDeletes, Replaced, Deletions, SensorTypes
  <2>2. QueueTypes'
    BY <1>7 DEF DeleteOne, StartDelete, QueueDeletes, Replaced, Deletions, QueueTypes, Rows,
       SensorTypes
  <2>3. PageTypes'
    <3>1. <<sensors[i]>> \in Seq(Uid) /\ <<sensors[i]>>[1] = sensors[i] /\ Len(<<sensors[i]>>) = 1
      BY SensorsInRange
    <3>2. \A k \in 1..1 : <<sensors[i]>>[k] \in Uid
      BY <3>1, SensorsInRange
    <3> QED BY <1>7, <3>1, <3>2 DEF DeleteOne, StartDelete, PageTypes
  <2>4. GhostTypes'
    BY <1>7, OfRecords DEF DeleteOne, StartDelete, QueueDeletes, Replaced, Deletions,
       GhostTypes
  <2>5. UsedTypes'
    BY <1>7 DEF DeleteOne, StartDelete, QueueDeletes, Replaced, Deletions, UsedTypes, Count,
       Bounds
  <2>6. FileTypes' /\ RemoteTypes' /\ WorkerTypes' /\ ThreadTypes' /\ ViewTypes'
    BY <1>7 DEF DeleteOne, StartDelete, QueueDeletes, Replaced, Deletions, files, queue,
       remote, worker, threads, view, page, ghosts, FileTypes, RemoteTypes, WorkerTypes,
       ThreadTypes, ViewTypes
  <2> QED BY <2>1, <2>2, <2>3, <2>4, <2>5, <2>6
<1>8. CASE Enqueue
  <2>1. QueueTypes'
    BY <1>8 DEF Enqueue, QueueInsert, QueueTypes, Rows, ThreadTypes, Threads, GhostTypes,
       Records, queue, Busy
  <2>2. ThreadTypes'
    BY <1>8 DEF Enqueue, QueueInsert, ThreadTypes, Threads, Steps, Places
  <2>3. GhostTypes'
    <3>1. Len(owner) \in Records
      BY <1>8 DEF Enqueue, GhostTypes, Records, Busy
    <3> QED BY <1>8, <3>1 DEF Enqueue, GhostTypes
  <2>4. /\ SensorTypes' /\ FileTypes' /\ RemoteTypes'
       /\ WorkerTypes' /\ ViewTypes' /\ PageTypes' /\ UsedTypes'
    BY <1>8 DEF Enqueue, QueueInsert, files, queue, remote, worker, threads, view, page,
       ghosts, SensorTypes, FileTypes, RemoteTypes, WorkerTypes, ViewTypes, PageTypes,
       UsedTypes
  <2> QED BY <2>1, <2>2, <2>3, <2>4
<1>9. CASE EnqueueFails
  <2>1. ThreadTypes'
    BY <1>9 DEF EnqueueFails, Refused, ThreadTypes, Threads, Steps, Places
  <2>2. UsedTypes'
    BY <1>9 DEF EnqueueFails, Refused, UsedTypes, Count, Bounds
  <2>3. /\ SensorTypes' /\ FileTypes' /\ QueueTypes' /\ RemoteTypes'
       /\ WorkerTypes' /\ ViewTypes' /\ PageTypes' /\ GhostTypes'
    BY <1>9 DEF EnqueueFails, Refused, files, queue, remote, worker, threads, view, page,
       ghosts, SensorTypes, FileTypes, QueueTypes, RemoteTypes, WorkerTypes, ViewTypes,
       PageTypes, GhostTypes
  <2> QED BY <2>1, <2>2, <2>3
<1>10. CASE WriteFallback
  <2>1. FileTypes'
    <3> DEFINE i == PlaceOf(subject["writer"])
    <3>1. Len(owner) \in Records
      BY <1>10 DEF WriteFallback, GhostTypes, Records, Busy
    <3>2. \A k \in Index : /\ Newest(history[k] \cup {Len(owner)}) \in SUBSET Records
                          /\ Newest(fallback[k] \cup {Len(owner)}) \in SUBSET Records
      BY <3>1, NewestWith DEF FileTypes
    <3>3. /\ history' = [history EXCEPT ![i] = Newest(@ \cup {Len(owner)})]
          /\ \/ fallback' = [fallback EXCEPT ![i] = Newest(@ \cup {Len(owner)})]
             \/ fallback' = fallback
      BY <1>10 DEF WriteFallback
    <3> HIDE DEF i
    <3>4. history' \in [Index -> SUBSET Records]
      BY <3>2, <3>3 DEF FileTypes
    <3>5. fallback' \in [Index -> SUBSET Records]
      BY <3>2, <3>3 DEF FileTypes
    <3> QED BY <3>4, <3>5 DEF FileTypes
  <2>2. ThreadTypes'
    BY <1>10 DEF WriteFallback, ThreadTypes, Threads, Steps, Places
  <2>3. GhostTypes'
    <3>1. Len(owner) \in Records
      BY <1>10 DEF WriteFallback, GhostTypes, Records, Busy
    <3> QED BY <1>10, <3>1 DEF WriteFallback, GhostTypes
  <2>4. UsedTypes'
    BY <1>10 DEF WriteFallback, UsedTypes, Count, Bounds
  <2>5. /\ SensorTypes' /\ QueueTypes' /\ RemoteTypes'
       /\ WorkerTypes' /\ ViewTypes' /\ PageTypes'
    BY <1>10 DEF WriteFallback, files, queue, remote, worker, threads, view, page, ghosts,
       SensorTypes, QueueTypes, RemoteTypes, WorkerTypes, ViewTypes, PageTypes
  <2> QED BY <2>1, <2>2, <2>3, <2>4, <2>5
<1>11. CASE ReadBatch
  <2>1. WorkerTypes'
    BY <1>11 DEF ReadBatch, WorkerTypes, QueueTypes
  <2>2. /\ SensorTypes' /\ FileTypes' /\ QueueTypes' /\ RemoteTypes'
       /\ ThreadTypes' /\ ViewTypes' /\ PageTypes' /\ GhostTypes' /\ UsedTypes'
    BY <1>11 DEF ReadBatch, files, queue, remote, worker, threads, view, page, ghosts,
       SensorTypes, FileTypes, QueueTypes, RemoteTypes, ThreadTypes, ViewTypes, PageTypes,
       GhostTypes, UsedTypes
  <2> QED BY <2>1, <2>2
<1>12. CASE WriteRow
  <2>1. RemoteTypes'
    BY <1>12, FirstRow DEF WriteRow, RemoteTypes, Effect, Inserted, Trimmed, WorkerTypes,
       Rows, None
  <2>2. WorkerTypes'
    BY <1>12 DEF WriteRow, WorkerTypes
  <2>3. /\ SensorTypes' /\ FileTypes' /\ QueueTypes' /\ ThreadTypes'
       /\ ViewTypes' /\ PageTypes' /\ GhostTypes' /\ UsedTypes'
    BY <1>12 DEF WriteRow, files, queue, remote, worker, threads, view, page, ghosts,
       SensorTypes, FileTypes, QueueTypes, ThreadTypes, ViewTypes, PageTypes, GhostTypes,
       UsedTypes
  <2> QED BY <2>1, <2>2, <2>3
<1>13. CASE RemoveRow
  <2>1. QueueTypes'
    BY <1>13 DEF RemoveRow, QueueTypes
  <2>2. WorkerTypes'
    BY <1>13 DEF RemoveRow, WorkerTypes
  <2>3. /\ SensorTypes' /\ FileTypes' /\ RemoteTypes' /\ ThreadTypes'
       /\ ViewTypes' /\ PageTypes' /\ GhostTypes' /\ UsedTypes'
    BY <1>13 DEF RemoveRow, files, queue, remote, worker, threads, view, page, ghosts,
       SensorTypes, FileTypes, RemoteTypes, ThreadTypes, ViewTypes, PageTypes, GhostTypes,
       UsedTypes
  <2> QED BY <2>1, <2>2, <2>3
<1>14. CASE WriteFails
  <2>1. RemoteTypes'
    <3> DEFINE r == FirstOf(batch)
    <3>1. r \in Rows
      BY <1>14, FirstRow DEF WriteFails, WorkerTypes
    <3>2. Effect(r) \subseteq [uid : Uid, rec : Records]
      BY <3>1 DEF RemoteTypes, Effect, Inserted, Trimmed, Rows, None
    <3>3. r.rec # None => Inserted(r) \subseteq [uid : Uid, rec : Records]
      BY <3>1 DEF RemoteTypes, Inserted, Rows, None
    <3>4. \/ database' = database
          \/ database' = Effect(r)
          \/ r.rec # None /\ database' = Inserted(r)
      BY <1>14 DEF WriteFails
    <3> HIDE DEF r
    <3>5. reachable' = reachable
      BY <1>14 DEF WriteFails
    <3> QED BY <3>2, <3>3, <3>4, <3>5 DEF RemoteTypes
  <2>2. WorkerTypes'
    BY <1>14 DEF WriteFails, WorkerTypes
  <2>3. UsedTypes'
    BY <1>14 DEF WriteFails, UsedTypes, Count, Bounds
  <2>4. /\ SensorTypes' /\ FileTypes' /\ QueueTypes'
       /\ ThreadTypes' /\ ViewTypes' /\ PageTypes' /\ GhostTypes'
    BY <1>14 DEF WriteFails, files, queue, remote, worker, threads, view, page, ghosts,
       SensorTypes, FileTypes, QueueTypes, ThreadTypes, ViewTypes, PageTypes, GhostTypes
  <2> QED BY <2>1, <2>2, <2>3, <2>4
<1>15. CASE Outage
  <2>1. RemoteTypes'
    BY <1>15 DEF Outage, RemoteTypes
  <2>2. UsedTypes'
    BY <1>15 DEF Outage, UsedTypes, Count, Bounds
  <2>3. /\ SensorTypes' /\ FileTypes' /\ QueueTypes' /\ WorkerTypes'
       /\ ThreadTypes' /\ ViewTypes' /\ PageTypes' /\ GhostTypes'
    BY <1>15 DEF Outage, files, queue, remote, worker, threads, view, page, ghosts,
       SensorTypes, FileTypes, QueueTypes, WorkerTypes, ThreadTypes, ViewTypes, PageTypes,
       GhostTypes
  <2> QED BY <2>1, <2>2, <2>3
<1>16. CASE Recover
  <2>1. RemoteTypes'
    BY <1>16 DEF Recover, RemoteTypes
  <2>2. /\ SensorTypes' /\ FileTypes' /\ QueueTypes' /\ WorkerTypes'
       /\ ThreadTypes' /\ ViewTypes' /\ PageTypes' /\ GhostTypes' /\ UsedTypes'
    BY <1>16 DEF Recover, files, queue, remote, worker, threads, view, page, ghosts,
       SensorTypes, FileTypes, QueueTypes, WorkerTypes, ThreadTypes, ViewTypes, PageTypes,
       GhostTypes, UsedTypes
  <2> QED BY <2>1, <2>2
<1>17. CASE Read
  <2>1. ThreadTypes'
    BY <1>17 DEF Read, ReadFallback, ReadPending, ReadTombstone, ReadRemote, RemoteFails,
       ReadAgain, ReadLocal, CloseHistory, Reads, Viewed, ThreadTypes, Threads, Steps
  <2>2. ViewTypes'
    <3>1. \A u : Pending(u) \subseteq Records
      BY DEF Pending, QueueTypes, Rows
    <3>2. \A u : InDatabase(u) \subseteq Records
      BY DEF InDatabase, RemoteTypes
    <3>3. At(fallback, PlaceOf(Viewed)) \subseteq Records /\ At(history, PlaceOf(Viewed)) \subseteq Records
      BY PlaceInRange, SensorsInRange DEF At, FileTypes
    <3>4. \A S : S \subseteq Records => Newest(S) \subseteq Records
      BY NewestSubset
    <3>5. \A at, next, got : Reads(at, next, got) /\ got \subseteq Records => ViewTypes'
      BY DEF Reads, ViewTypes
    <3>6. CASE ReadFallback
      BY <3>3, <3>5, <3>6 DEF ReadFallback
    <3>7. CASE ReadPending
      BY <3>1, <3>5, <3>7 DEF ReadPending, ViewTypes
    <3>8. CASE ReadTombstone
      BY <3>4, <3>5, <3>8 DEF ReadTombstone, ViewTypes
    <3>9. CASE ReadRemote
      <4>1. Newest(shown \cup Newest(InDatabase(Viewed))) \subseteq Records
        BY <3>2, <3>4 DEF ViewTypes
      <4> QED BY <4>1, <3>5, <3>9 DEF ReadRemote
    <3>10. CASE RemoteFails
      BY <3>10 DEF RemoteFails, ViewTypes
    <3>11. CASE ReadAgain
      BY <3>1, <3>5, <3>11 DEF ReadAgain
    <3>12. CASE ReadLocal
      <4>1. Newest(shown \cup At(history, PlaceOf(Viewed))) \subseteq Records
        BY <3>3, <3>4 DEF ViewTypes
      <4> QED BY <4>1, <3>5, <3>12 DEF ReadLocal
    <3>13. CASE CloseHistory
      BY <3>13 DEF CloseHistory, ViewTypes
    <3> QED BY <1>17, <3>6, <3>7, <3>8, <3>9, <3>10, <3>11, <3>12, <3>13 DEF Read
  <2>3. /\ SensorTypes' /\ FileTypes' /\ QueueTypes' /\ RemoteTypes'
       /\ WorkerTypes' /\ PageTypes' /\ GhostTypes' /\ UsedTypes'
    BY <1>17 DEF Read, ReadFallback, ReadPending, ReadTombstone, ReadRemote, RemoteFails,
       ReadAgain, ReadLocal, CloseHistory, Reads, Viewed, files, queue, remote, worker,
       threads, view, page, ghosts, SensorTypes, FileTypes, QueueTypes, RemoteTypes,
       WorkerTypes, PageTypes, GhostTypes, UsedTypes
  <2> QED BY <2>1, <2>2, <2>3
<1>18. CASE EndClear
  <2>1. QueueTypes'
    BY <1>18 DEF EndClear, QueueDeletes, Replaced, Deletions, QueueTypes, Rows, PageTypes
  <2>2. PageTypes'
    BY <1>18, NoTargets DEF EndClear, QueueDeletes, Replaced, Deletions, PageTypes
  <2>3. GhostTypes'
    BY <1>18, OfRecords DEF EndClear, QueueDeletes, Replaced, Deletions, GhostTypes
  <2>4. /\ SensorTypes' /\ FileTypes' /\ RemoteTypes'
       /\ WorkerTypes' /\ ThreadTypes' /\ ViewTypes' /\ UsedTypes'
    BY <1>18 DEF EndClear, QueueDeletes, Replaced, Deletions, files, queue, remote, worker,
       threads, view, page, ghosts, SensorTypes, FileTypes, RemoteTypes, WorkerTypes,
       ThreadTypes, ViewTypes, UsedTypes
  <2> QED BY <2>1, <2>2, <2>3, <2>4
<1>19. CASE ClearFails
  <2>1. PageTypes'
    BY <1>19, NoTargets DEF ClearFails, PageTypes
  <2>2. UsedTypes'
    BY <1>19 DEF ClearFails, UsedTypes, Count, Bounds
  <2>3. /\ SensorTypes' /\ FileTypes' /\ QueueTypes' /\ RemoteTypes'
       /\ WorkerTypes' /\ ThreadTypes' /\ ViewTypes' /\ GhostTypes'
    BY <1>19 DEF ClearFails, files, queue, remote, worker, threads, view, page, ghosts,
       SensorTypes, FileTypes, QueueTypes, RemoteTypes, WorkerTypes, ThreadTypes, ViewTypes,
       GhostTypes
  <2> QED BY <2>1, <2>2, <2>3
<1>20. CASE DeleteAll
  <2>1. SensorTypes'
    BY <1>20 DEF DeleteAll, StartDelete, QueueDeletes, Replaced, Deletions, SensorTypes
  <2>2. QueueTypes'
    BY <1>20 DEF DeleteAll, StartDelete, QueueDeletes, Replaced, Deletions, QueueTypes, Rows,
       SensorTypes
  <2>3. PageTypes'
    <3> DEFINE us == [i \in 1..Len(sensors) |-> sensors[Len(sensors) + 1 - i]]
    <3>1. \A i \in 1..Len(sensors) : Len(sensors) + 1 - i \in 1..Len(sensors)
      BY SensorsInRange
    <3>2. us \in Seq(Uid) /\ Len(us) = Len(sensors)
      BY <3>1, SensorsInRange
    <3>3. \A i \in 1..Len(us) : us[i] \in Uid
      BY <3>1, <3>2, SensorsInRange
    <3>4. StartDelete(us, TRUE)
      BY <1>20 DEF DeleteAll
    <3> HIDE DEF us
    <3> QED BY <3>2, <3>3, <3>4 DEF StartDelete, PageTypes
  <2>4. GhostTypes'
    BY <1>20, OfRecords DEF DeleteAll, StartDelete, QueueDeletes, Replaced, Deletions,
       GhostTypes
  <2>5. UsedTypes'
    BY <1>20 DEF DeleteAll, StartDelete, QueueDeletes, Replaced, Deletions, UsedTypes, Count,
       Bounds
  <2>6. FileTypes' /\ RemoteTypes' /\ WorkerTypes' /\ ThreadTypes' /\ ViewTypes'
    BY <1>20 DEF DeleteAll, StartDelete, QueueDeletes, Replaced, Deletions, files, queue,
       remote, worker, threads, view, page, ghosts, FileTypes, RemoteTypes, WorkerTypes,
       ThreadTypes, ViewTypes
  <2> QED BY <2>1, <2>2, <2>3, <2>4, <2>5, <2>6
<1>21. CASE DeleteFiles
  <2>1. FileTypes'
    BY <1>21 DEF DeleteFiles, Without, FileTypes
  <2>2. PageTypes'
    BY <1>21 DEF DeleteFiles, Without, PageTypes
  <2>3. /\ SensorTypes' /\ QueueTypes' /\ RemoteTypes' /\ WorkerTypes'
       /\ ThreadTypes' /\ ViewTypes' /\ GhostTypes' /\ UsedTypes'
    BY <1>21 DEF DeleteFiles, Without, files, queue, remote, worker, threads, view, page,
       ghosts, SensorTypes, QueueTypes, RemoteTypes, WorkerTypes, ThreadTypes, ViewTypes,
       GhostTypes, UsedTypes
  <2> QED BY <2>1, <2>2, <2>3
<1>22. CASE RemoveSensor
  <2>1. SensorTypes'
    <3> DEFINE k == PlaceOf(targets[1])
    <3>1. sensors' = [i \in 1..(Len(sensors) - 1) |-> sensors[IF i < k THEN i ELSE i + 1]]
      BY <1>22 DEF RemoveSensor
    <3>2. storage' = storage
      BY <1>22 DEF RemoveSensor
    <3>3. \A i \in 1..(Len(sensors) - 1) : i \in 1..Len(sensors) /\ i + 1 \in 1..Len(sensors)
      BY SensorsInRange
    <3>4. \A i \in 1..(Len(sensors) - 1) : sensors[IF i < k THEN i ELSE i + 1] \in Uid
      BY <3>3, SensorsInRange
    <3> HIDE DEF k
    <3>5. CASE Len(sensors) = 0
      <4>1. 1..(Len(sensors) - 1) = 1..0
        BY <3>5
      <4>2. sensors' = [i \in 1..0 |-> sensors[IF i < k THEN i ELSE i + 1]]
        BY <3>1, <4>1
      <4>3. sensors' \in Seq(Uid) /\ Len(sensors') = 0
        BY <4>2
      <4> QED BY <3>2, <4>3, SensorsInRange DEF SensorTypes
    <3>6. CASE Len(sensors) > 0
      <4>1. Len(sensors) - 1 \in Nat
        BY <3>6, SensorsInRange
      <4>2. sensors' \in Seq(Uid) /\ Len(sensors') = Len(sensors) - 1
        BY <3>1, <3>4, <4>1
      <4> QED BY <3>2, <4>2, SensorsInRange DEF SensorTypes
    <3> QED BY <3>5, <3>6, SensorsInRange
  <2>2. FileTypes'
    <3>1. \/ history' = history /\ fallback' = fallback
          \/ history' = [i \in Index |-> {}] /\ fallback' = [i \in Index |-> {}]
      BY <1>22 DEF RemoveSensor, files
    <3> QED BY <3>1 DEF FileTypes
  <2>3. PageTypes'
    <3>1. deleting' = deleting
      BY <1>22 DEF RemoveSensor
    <3>2. CASE Len(targets) > 1
      <4>1. Tail(targets) \in Seq(Uid)
        BY <3>2 DEF PageTypes
      <4> QED BY <1>22, <3>1, <3>2, <4>1 DEF RemoveSensor, PageTypes
    <3>3. CASE ~(Len(targets) > 1)
      BY <1>22, <3>1, <3>3, NoTargets DEF RemoveSensor, PageTypes
    <3> QED BY <3>2, <3>3
  <2>4. /\ QueueTypes' /\ RemoteTypes' /\ WorkerTypes'
       /\ ThreadTypes' /\ ViewTypes' /\ GhostTypes' /\ UsedTypes'
    BY <1>22 DEF RemoveSensor, files, queue, remote, worker, threads, view, page, ghosts,
       QueueTypes, RemoteTypes, WorkerTypes, ThreadTypes, ViewTypes, GhostTypes, UsedTypes
  <2> QED BY <2>1, <2>2, <2>3, <2>4
<1>23. CASE Crash
  <2>1. SensorTypes'
    BY <1>23 DEF Crash, SensorTypes
  <2>2. WorkerTypes'
    BY <1>23 DEF Crash, WorkerTypes
  <2>3. ThreadTypes'
    BY <1>23 DEF Crash, ThreadTypes, Threads, Steps, Places
  <2>4. ViewTypes'
    BY <1>23 DEF Crash, ViewTypes
  <2>5. PageTypes'
    BY <1>23, NoTargets DEF Crash, PageTypes
  <2>6. UsedTypes'
    BY <1>23 DEF Crash, UsedTypes, Count, Bounds
  <2>7. FileTypes' /\ QueueTypes' /\ RemoteTypes' /\ GhostTypes'
    BY <1>23 DEF Crash, files, queue, remote, worker, threads, view, page, ghosts, FileTypes,
       QueueTypes, RemoteTypes, GhostTypes
  <2> QED BY <2>1, <2>2, <2>3, <2>4, <2>5, <2>6, <2>7
<1>24. CASE UNCHANGED vars
  BY <1>24 DEF vars, files, queue, remote, worker, threads, view, page, ghosts, SensorTypes,
     FileTypes, QueueTypes, RemoteTypes, WorkerTypes, ThreadTypes, ViewTypes, PageTypes,
     GhostTypes, UsedTypes
<1> QED BY <1>1, <1>2, <1>3, <1>4, <1>5, <1>6, <1>7, <1>8, <1>9, <1>10, <1>11, <1>12, <1>13,
   <1>14, <1>15, <1>16, <1>17, <1>18, <1>19, <1>20, <1>21, <1>22, <1>23, <1>24 DEF Next,
   Deliver

LEMMA BusyStep ==
  ASSUME TypeOK, Busy, [Next]_vars
  PROVE  Busy'
<1>1. ASSUME NEW t \in Threads, TakeFallback(t)
      PROVE  Busy'
  BY <1>1 DEF TakeFallback, Busy, TypeOK, GhostTypes, ThreadTypes, Threads, threads, ghosts
<1>2. ASSUME NEW t \in Threads, MoveOne(t)
      PROVE  Busy'
    BY <1>2 DEF MoveOne, QueueInsert, Busy, TypeOK, GhostTypes, ThreadTypes, Threads, threads,
       ghosts
<1>3. ASSUME NEW t \in Threads, EndMove(t)
      PROVE  Busy'
    BY <1>3 DEF EndMove, Rest, Refused, Busy, TypeOK, GhostTypes, ThreadTypes, Threads,
       threads, ghosts
<1>4. ASSUME NEW i \in 1..Len(sensors), Measure(i)
      PROVE  Busy'
  BY <1>4 DEF Measure, Busy, TypeOK, GhostTypes, ThreadTypes, Threads, threads, ghosts
<1>5. ASSUME NEW i \in 1..Len(sensors), OpenHistory(i)
      PROVE  Busy'
  BY <1>5 DEF OpenHistory, Busy, TypeOK, GhostTypes, ThreadTypes, Threads, threads, ghosts
<1>6. ASSUME NEW i \in 1..Len(sensors), StartClear(i)
      PROVE  Busy'
    BY <1>6 DEF StartClear, Without, Busy, TypeOK, GhostTypes, ThreadTypes, Threads, threads,
       ghosts
<1>7. ASSUME NEW i \in 1..Len(sensors), DeleteOne(i)
      PROVE  Busy'
    BY <1>7 DEF DeleteOne, StartDelete, QueueDeletes, Replaced, Deletions, Busy, TypeOK,
       GhostTypes, ThreadTypes, Threads, threads, ghosts
<1>8. CASE Enqueue
    BY <1>8 DEF Enqueue, QueueInsert, Busy, TypeOK, GhostTypes, ThreadTypes, Threads, threads,
       ghosts
<1>9. CASE EnqueueFails
    BY <1>9 DEF EnqueueFails, Refused, Busy, TypeOK, GhostTypes, ThreadTypes, Threads,
       threads, ghosts
<1>10. CASE WriteFallback
  BY <1>10 DEF WriteFallback, Busy, TypeOK, GhostTypes, ThreadTypes, Threads, threads, ghosts
<1>11. CASE ReadBatch
  BY <1>11 DEF ReadBatch, Busy, TypeOK, GhostTypes, ThreadTypes, Threads, threads, ghosts
<1>12. CASE WriteRow
  BY <1>12 DEF WriteRow, Busy, TypeOK, GhostTypes, ThreadTypes, Threads, threads, ghosts
<1>13. CASE RemoveRow
  BY <1>13 DEF RemoveRow, Busy, TypeOK, GhostTypes, ThreadTypes, Threads, threads, ghosts
<1>14. CASE WriteFails
  BY <1>14 DEF WriteFails, Busy, TypeOK, GhostTypes, ThreadTypes, Threads, threads, ghosts
<1>15. CASE Outage
  BY <1>15 DEF Outage, Busy, TypeOK, GhostTypes, ThreadTypes, Threads, threads, ghosts
<1>16. CASE Recover
  BY <1>16 DEF Recover, Busy, TypeOK, GhostTypes, ThreadTypes, Threads, threads, ghosts
<1>17. CASE Read
    BY <1>17 DEF Read, ReadFallback, ReadPending, ReadTombstone, ReadRemote, RemoteFails,
       ReadAgain, ReadLocal, CloseHistory, Reads, Viewed, Busy, TypeOK, GhostTypes,
       ThreadTypes, Threads, threads, ghosts
<1>18. CASE EndClear
    BY <1>18 DEF EndClear, QueueDeletes, Replaced, Deletions, Busy, TypeOK, GhostTypes,
       ThreadTypes, Threads, threads, ghosts
<1>19. CASE ClearFails
  BY <1>19 DEF ClearFails, Busy, TypeOK, GhostTypes, ThreadTypes, Threads, threads, ghosts
<1>20. CASE DeleteAll
    BY <1>20 DEF DeleteAll, StartDelete, QueueDeletes, Replaced, Deletions, Busy, TypeOK,
       GhostTypes, ThreadTypes, Threads, threads, ghosts
<1>21. CASE DeleteFiles
    BY <1>21 DEF DeleteFiles, Without, Busy, TypeOK, GhostTypes, ThreadTypes, Threads,
       threads, ghosts
<1>22. CASE RemoveSensor
  BY <1>22 DEF RemoveSensor, Busy, TypeOK, GhostTypes, ThreadTypes, Threads, threads, ghosts
<1>23. CASE Crash
  BY <1>23 DEF Crash, Busy, TypeOK, GhostTypes, ThreadTypes, Threads, threads, ghosts
<1>24. CASE UNCHANGED vars
    BY <1>24 DEF vars, files, queue, remote, ghosts, Busy, TypeOK, GhostTypes, ThreadTypes,
       Threads, threads, ghosts
<1> QED BY <1>1, <1>2, <1>3, <1>4, <1>5, <1>6, <1>7, <1>8, <1>9, <1>10, <1>11, <1>12, <1>13,
       <1>14, <1>15, <1>16, <1>17, <1>18, <1>19, <1>20, <1>21, <1>22, <1>23, <1>24 DEF Next,
       Deliver

\* TypeOK is an invariant, whatever the sensors.
THEOREM SensorLogTypes == Spec => []TypeOK
<1>1. Init => TypeOK /\ Busy
  BY TypesInitially
<1>2. TypeOK /\ Busy /\ [Next]_vars => TypeOK' /\ Busy'
  BY TypesStep, BusyStep
<1> QED BY <1>1, <1>2, PTL DEF Spec

-----------------------------------------------------------------------------
(* A single sensor: what a clear removed stays away. *)

Single == Len(InitialSensors) = 1

\* Rows have one number each, and a new one has a larger number than all.
Ids ==
  /\ written => batch # {}
  /\ \A r \in outbox \cup batch : r.id < nextId
  /\ \A q, r \in outbox \cup batch : q.id = r.id => q = r

\* A record is asked for after it was measured, and cleared after that.
Known == asked \subseteq 1..Len(owner) /\ cleared \subseteq asked

\* A clear holds the lock of the writes; it has emptied the directory.
Clearing ==
  /\ Len(targets) = 1 /\ 1..Len(owner) \subseteq asked
  /\ pc["writer"] = "idle"
  /\ \A i \in Index : fallback[i] = {}
  /\ \A t \in Threads : left[t] = {}
Locks ==
  /\ \A t \in Threads : pc[t] # "moving" => left[t] = {}
  /\ task = "clear" => Clearing
  /\ pc["writer"] # "idle" => Len(owner) \notin asked

\* What was cleared is in no file, and where it is left a deletion waits behind it.
Behind ==
  \A n \in cleared :
    /\ \A r \in outbox : r.rec # n
    /\ \A i \in Index : n \notin fallback[i]
    /\ \A t \in Threads : n \notin left[t]
    /\ \A r \in batch : r.rec = n => \E d \in outbox : d.rec = None /\ d.id > r.id
    /\ (\E s \in database : s.rec = n) =>
         \E d \in outbox : d.rec = None /\ (written => d # FirstOf(batch))

ClearInv == TypeOK /\ Busy /\ Ids /\ Known /\ Locks /\ Behind

LEMMA OneUid == Single => Index = {1} /\ Uid = {InitialSensors[1]}
  BY SensorAssumption DEF Single, Index, Uid

LEMMA ClearInitially == Init => ClearInv
<1> SUFFICES ASSUME Init PROVE ClearInv
  OBVIOUS
<1>1. TypeOK /\ Busy
  BY TypesInitially
<1>2. Ids /\ Known /\ Locks /\ Behind
  BY DEF Init, Ids, Known, Locks, Behind, Index, Threads
<1> QED BY <1>1, <1>2 DEF ClearInv

LEMMA ClearGone == Single /\ ClearInv => ClearedStaysGone
<1> SUFFICES ASSUME Single, ClearInv, NEW n \in cleared
             PROVE  /\ n \notin Pending(owner[n])
                    /\ \A i \in Index : n \notin fallback[i]
                    /\ n \in InDatabase(owner[n]) => Tombstone(owner[n])
  BY DEF ClearedStaysGone
<1> USE DEF ClearInv, TypeOK
<1>1. n \in 1..Len(owner) /\ owner[n] \in Uid
  BY DEF Known, GhostTypes
<1>2. \A d \in outbox : d.uid = owner[n]
  BY <1>1, OneUid DEF QueueTypes, Rows
<1>3. n \notin Pending(owner[n])
  BY DEF Behind, Pending
<1>4. \A i \in Index : n \notin fallback[i]
  BY DEF Behind
<1>5. ASSUME n \in InDatabase(owner[n]) PROVE Tombstone(owner[n])
  <2>1. \E s \in database : s.rec = n
    BY <1>5 DEF InDatabase
  <2> QED BY <1>2, <2>1 DEF Behind, Tombstone
<1> QED BY <1>3, <1>4, <1>5

\* The deletion of the only sensor takes the place of every row.
Deletion(u) == [id |-> nextId, uid |-> u, rec |-> None]
LEMMA OneDeletion ==
  ASSUME Single, TypeOK, NEW us, Len(us) = 1, us[1] \in Uid
  PROVE  Replaced(us) = {Deletion(us[1])}
<1>1. \A r \in outbox : r.uid = us[1]
  BY OneUid DEF TypeOK, QueueTypes, Rows
<1>2. nextId \in Nat /\ 1..Len(us) = {1}
  BY DEF TypeOK, QueueTypes
<1>3. Deletions(us) = {Deletion(us[1])}
  <2>1. nextId + 1 - 1 = nextId
    BY <1>2
  <2> QED BY <1>2, <2>1 DEF Deletions, Deletion
<1> QED BY <1>1, <1>2, <1>3 DEF Replaced

\* Everything measured belongs to it.
LEMMA AllOf ==
  ASSUME Single, TypeOK, NEW u \in Uid
  PROVE  Of(u) = 1..Len(owner)
  BY OneUid DEF TypeOK, GhostTypes, Of

LEMMA DeletedOnce ==
  ASSUME Single, TypeOK, DeleteAll \/ \E i \in 1..Len(sensors) : DeleteOne(i)
  PROVE  \E u \in Uid : /\ outbox' = {Deletion(u)} /\ nextId' = nextId + 1
                        /\ asked' = asked \cup 1..Len(owner)
                        /\ task' = "delete" /\ pc["writer"] = "idle"
                        /\ Len(targets') = 1 /\ u \in deleting'
<1> DEFINE Begun(us) == /\ outbox' = Replaced(us) /\ nextId' = nextId + Len(us)
                        /\ asked' = asked \cup UNION {Of(us[i]) : i \in 1..Len(us)}
                        /\ task' = "delete" /\ pc["writer"] = "idle"
                        /\ targets' = us /\ \A i \in 1..Len(us) : us[i] \in deleting'
<1>1. ASSUME NEW us, Begun(us), Len(us) = 1, us[1] \in Uid
      PROVE  \E u \in Uid : /\ outbox' = {Deletion(u)} /\ nextId' = nextId + 1
                            /\ asked' = asked \cup 1..Len(owner)
                            /\ task' = "delete" /\ pc["writer"] = "idle"
                            /\ Len(targets') = 1 /\ u \in deleting'
  <2>1. outbox' = {Deletion(us[1])}
    BY <1>1, OneDeletion
  <2>2. UNION {Of(us[i]) : i \in 1..Len(us)} = 1..Len(owner)
    <3>1. 1..Len(us) = {1} /\ Of(us[1]) = 1..Len(owner)
      BY <1>1, AllOf
    <3> QED BY <3>1
  <2> QED BY <1>1, <2>1, <2>2
<1>2. \A us, all : StartDelete(us, all) => Begun(us)
  BY DEF StartDelete, QueueDeletes, DeleteLock
<1> HIDE DEF Begun
<1>3. ASSUME NEW i \in 1..Len(sensors), DeleteOne(i)
      PROVE  \E us : Begun(us) /\ Len(us) = 1 /\ us[1] \in Uid
  <2>1. Begun(<<sensors[i]>>)
    BY <1>2, <1>3 DEF DeleteOne
  <2>2. Len(<<sensors[i]>>) = 1 /\ <<sensors[i]>>[1] \in Uid
    BY SensorsInRange DEF TypeOK
  <2> QED BY <2>1, <2>2
<1>4. CASE DeleteAll
  <2> DEFINE rev == [i \in 1..Len(sensors) |-> sensors[Len(sensors) + 1 - i]]
  <2>1. Begun(rev)
    BY <1>2, <1>4 DEF DeleteAll
  <2>2. Len(sensors) = 1
    <3>1. sensors \in Seq(Uid) /\ sensors # <<>> /\ Len(sensors) <= 1
      BY <1>4 DEF DeleteAll, TypeOK, SensorTypes, Single
    <3>2. Len(sensors) # 0
      BY <3>1, EmptySeq
    <3>3. Len(sensors) \in Nat
      BY <3>1
    <3>4. \A n \in Nat : n <= 1 /\ n # 0 => n = 1
      OBVIOUS
    <3> QED BY <3>1, <3>2, <3>3, <3>4
  <2>3. 1..Len(sensors) = {1} /\ Len(sensors) + 1 - 1 = 1 /\ sensors[1] \in Uid
    BY <2>2, SensorsInRange DEF TypeOK
  <2>4. rev = [i \in 1..1 |-> sensors[1 + 1 - i]]
    BY <2>2
  <2>5. Len(rev) = 1 /\ rev[1] \in Uid
    BY <2>3, <2>4
  <2> HIDE DEF rev
  <2> QED BY <1>1, <2>1, <2>5
<1> QED BY <1>1, <1>3, <1>4

\* Writing a row leaves, of what was cleared, only what a deletion waits behind.
LEMMA EffectBehind ==
  ASSUME Single, ClearInv, batch # {}, NEW n \in cleared, NEW r, r = FirstOf(batch)
  PROVE  /\ (\E s \in Effect(r) : s.rec = n) =>
              \E d \in outbox : d.rec = None /\ d # r
         /\ r.rec # None /\ (\E s \in Inserted(r) : s.rec = n) =>
              \E d \in outbox : d.rec = None /\ d # r
<1> USE DEF ClearInv, TypeOK
<1>1. r \in batch /\ r \in Rows
  BY FirstRow DEF WorkerTypes
<1>2. ASSUME r.rec = None PROVE Effect(r) = {}
  <2>1. \A s \in database : s.uid = r.uid
    BY <1>1, OneUid DEF RemoteTypes, Rows
  <2> QED BY <1>2, <2>1 DEF Effect
<1>3. ASSUME r.rec # None PROVE Effect(r) \subseteq Inserted(r)
  BY <1>3 DEF Effect, Trimmed
<1>4. ASSUME r.rec # None, \E s \in Inserted(r) : s.rec = n
      PROVE  \E d \in outbox : d.rec = None /\ d # r
  <2>1. r.rec = n \/ \E s \in database : s.rec = n
    BY <1>4 DEF Inserted
  <2>2. \E d \in outbox : d.rec = None
    BY <1>1, <2>1 DEF Behind
  <2> QED BY <1>4, <2>2
<1> QED BY <1>2, <1>3, <1>4

LEMMA IdsStep ==
  ASSUME Single, ClearInv, [Next]_vars
  PROVE  Ids'
<1> USE DEF ClearInv, TypeOK
<1>1. ASSUME NEW t \in Threads, TakeFallback(t)
      PROVE  Ids'
    BY <1>1 DEF TakeFallback, Ids, QueueTypes, WorkerTypes, Rows, threads, files, queue,
       remote, worker, view, page, ghosts
<1>2. ASSUME NEW t \in Threads, MoveOne(t)
      PROVE  Ids'
    BY <1>2 DEF MoveOne, QueueInsert, Ids, QueueTypes, WorkerTypes, Rows, threads, files,
       queue, remote, worker, view, page, ghosts
<1>3. ASSUME NEW t \in Threads, EndMove(t)
      PROVE  Ids'
    BY <1>3 DEF EndMove, Rest, Refused, Ids, QueueTypes, WorkerTypes, Rows, threads, files,
       queue, remote, worker, view, page, ghosts
<1>4. ASSUME NEW i \in 1..Len(sensors), Measure(i)
      PROVE  Ids'
    BY <1>4 DEF Measure, Ids, QueueTypes, WorkerTypes, Rows, threads, files, queue, remote,
       worker, view, page, ghosts
<1>5. ASSUME NEW i \in 1..Len(sensors), OpenHistory(i)
      PROVE  Ids'
    BY <1>5 DEF OpenHistory, Ids, QueueTypes, WorkerTypes, Rows, threads, files, queue,
       remote, worker, view, page, ghosts
<1>6. ASSUME NEW i \in 1..Len(sensors), StartClear(i)
      PROVE  Ids'
    BY <1>6 DEF StartClear, Without, Ids, QueueTypes, WorkerTypes, Rows, threads, files,
       queue, remote, worker, view, page, ghosts
<1>7. ASSUME NEW i \in 1..Len(sensors), DeleteOne(i)
      PROVE  Ids'
    BY <1>7 DEF DeleteOne, StartDelete, QueueDeletes, Replaced, Deletions, Ids, QueueTypes,
       WorkerTypes, Rows, threads, files, queue, remote, worker, view, page, ghosts
<1>8. CASE Enqueue
    BY <1>8 DEF Enqueue, QueueInsert, Ids, QueueTypes, WorkerTypes, Rows, threads, files,
       queue, remote, worker, view, page, ghosts
<1>9. CASE EnqueueFails
    BY <1>9 DEF EnqueueFails, Refused, Ids, QueueTypes, WorkerTypes, Rows, threads, files,
       queue, remote, worker, view, page, ghosts
<1>10. CASE WriteFallback
    BY <1>10 DEF WriteFallback, Ids, QueueTypes, WorkerTypes, Rows, threads, files, queue,
       remote, worker, view, page, ghosts
<1>11. CASE ReadBatch
    BY <1>11 DEF ReadBatch, Ids, QueueTypes, WorkerTypes, Rows, threads, files, queue, remote,
       worker, view, page, ghosts
<1>12. CASE WriteRow
    BY <1>12 DEF WriteRow, Ids, QueueTypes, WorkerTypes, Rows, threads, files, queue, remote,
       worker, view, page, ghosts
<1>13. CASE RemoveRow
    BY <1>13 DEF RemoveRow, Ids, QueueTypes, WorkerTypes, Rows, threads, files, queue, remote,
       worker, view, page, ghosts
<1>14. CASE WriteFails
    BY <1>14 DEF WriteFails, Ids, QueueTypes, WorkerTypes, Rows, threads, files, queue,
       remote, worker, view, page, ghosts
<1>15. CASE Outage
    BY <1>15 DEF Outage, Ids, QueueTypes, WorkerTypes, Rows, threads, files, queue, remote,
       worker, view, page, ghosts
<1>16. CASE Recover
    BY <1>16 DEF Recover, Ids, QueueTypes, WorkerTypes, Rows, threads, files, queue, remote,
       worker, view, page, ghosts
<1>17. CASE Read
    BY <1>17 DEF Read, ReadFallback, ReadPending, ReadTombstone, ReadRemote, RemoteFails,
       ReadAgain, ReadLocal, CloseHistory, Reads, Viewed, Ids, QueueTypes, WorkerTypes, Rows,
       threads, files, queue, remote, worker, view, page, ghosts
<1>18. CASE EndClear
    BY <1>18 DEF EndClear, QueueDeletes, Replaced, Deletions, Ids, QueueTypes, WorkerTypes,
       Rows, threads, files, queue, remote, worker, view, page, ghosts
<1>19. CASE ClearFails
    BY <1>19 DEF ClearFails, Ids, QueueTypes, WorkerTypes, Rows, threads, files, queue,
       remote, worker, view, page, ghosts
<1>20. CASE DeleteAll
    BY <1>20 DEF DeleteAll, StartDelete, QueueDeletes, Replaced, Deletions, Ids, QueueTypes,
       WorkerTypes, Rows, threads, files, queue, remote, worker, view, page, ghosts
<1>21. CASE DeleteFiles
    BY <1>21 DEF DeleteFiles, Without, Ids, QueueTypes, WorkerTypes, Rows, threads, files,
       queue, remote, worker, view, page, ghosts
<1>22. CASE RemoveSensor
    BY <1>22 DEF RemoveSensor, Ids, QueueTypes, WorkerTypes, Rows, threads, files, queue,
       remote, worker, view, page, ghosts
<1>23. CASE Crash
    BY <1>23 DEF Crash, Ids, QueueTypes, WorkerTypes, Rows, threads, files, queue, remote,
       worker, view, page, ghosts
<1>24. CASE UNCHANGED vars
    BY <1>24 DEF vars, files, queue, remote, ghosts, Ids, QueueTypes, WorkerTypes, Rows,
       threads, files, queue, remote, worker, view, page, ghosts
<1> QED BY <1>1, <1>2, <1>3, <1>4, <1>5, <1>6, <1>7, <1>8, <1>9, <1>10, <1>11, <1>12, <1>13,
       <1>14, <1>15, <1>16, <1>17, <1>18, <1>19, <1>20, <1>21, <1>22, <1>23, <1>24 DEF Next,
       Deliver

LEMMA KnownStep ==
  ASSUME Single, ClearInv, [Next]_vars
  PROVE  Known'
<1> USE DEF ClearInv, TypeOK
<1>1. ASSUME NEW t \in Threads, TakeFallback(t)
      PROVE  Known'
    BY <1>1 DEF TakeFallback, Known, GhostTypes, Of, threads, files, queue, remote, worker,
       view, page, ghosts
<1>2. ASSUME NEW t \in Threads, MoveOne(t)
      PROVE  Known'
    BY <1>2 DEF MoveOne, QueueInsert, Known, GhostTypes, Of, threads, files, queue, remote,
       worker, view, page, ghosts
<1>3. ASSUME NEW t \in Threads, EndMove(t)
      PROVE  Known'
    BY <1>3 DEF EndMove, Rest, Refused, Known, GhostTypes, Of, threads, files, queue, remote,
       worker, view, page, ghosts
<1>4. ASSUME NEW i \in 1..Len(sensors), Measure(i)
      PROVE  Known'
    BY <1>4 DEF Measure, Known, GhostTypes, Of, threads, files, queue, remote, worker, view,
       page, ghosts
<1>5. ASSUME NEW i \in 1..Len(sensors), OpenHistory(i)
      PROVE  Known'
    BY <1>5 DEF OpenHistory, Known, GhostTypes, Of, threads, files, queue, remote, worker,
       view, page, ghosts
<1>6. ASSUME NEW i \in 1..Len(sensors), StartClear(i)
      PROVE  Known'
    BY <1>6 DEF StartClear, Without, Known, GhostTypes, Of, threads, files, queue, remote,
       worker, view, page, ghosts
<1>7. ASSUME NEW i \in 1..Len(sensors), DeleteOne(i)
      PROVE  Known'
  <2>1. PICK u \in Uid : /\ outbox' = {Deletion(u)} /\ nextId' = nextId + 1
                         /\ asked' = asked \cup 1..Len(owner)
                         /\ task' = "delete" /\ pc["writer"] = "idle"
    BY <1>7, DeletedOnce
  <2>2. owner' = owner /\ cleared' = cleared
    BY <1>7 DEF DeleteOne, StartDelete
  <2> QED BY <2>1, <2>2 DEF Known
<1>8. CASE Enqueue
    BY <1>8 DEF Enqueue, QueueInsert, Known, GhostTypes, Of, threads, files, queue, remote,
       worker, view, page, ghosts
<1>9. CASE EnqueueFails
    BY <1>9 DEF EnqueueFails, Refused, Known, GhostTypes, Of, threads, files, queue, remote,
       worker, view, page, ghosts
<1>10. CASE WriteFallback
    BY <1>10 DEF WriteFallback, Known, GhostTypes, Of, threads, files, queue, remote, worker,
       view, page, ghosts
<1>11. CASE ReadBatch
    BY <1>11 DEF ReadBatch, Known, GhostTypes, Of, threads, files, queue, remote, worker,
       view, page, ghosts
<1>12. CASE WriteRow
    BY <1>12 DEF WriteRow, Known, GhostTypes, Of, threads, files, queue, remote, worker, view,
       page, ghosts
<1>13. CASE RemoveRow
    BY <1>13 DEF RemoveRow, Known, GhostTypes, Of, threads, files, queue, remote, worker,
       view, page, ghosts
<1>14. CASE WriteFails
    BY <1>14 DEF WriteFails, Known, GhostTypes, Of, threads, files, queue, remote, worker,
       view, page, ghosts
<1>15. CASE Outage
    BY <1>15 DEF Outage, Known, GhostTypes, Of, threads, files, queue, remote, worker, view,
       page, ghosts
<1>16. CASE Recover
    BY <1>16 DEF Recover, Known, GhostTypes, Of, threads, files, queue, remote, worker, view,
       page, ghosts
<1>17. CASE Read
    BY <1>17 DEF Read, ReadFallback, ReadPending, ReadTombstone, ReadRemote, RemoteFails,
       ReadAgain, ReadLocal, CloseHistory, Reads, Viewed, Known, GhostTypes, Of, threads,
       files, queue, remote, worker, view, page, ghosts
<1>18. CASE EndClear
  <2>1. task = "clear" /\ cleared' = cleared \cup Of(targets[1]) /\ owner' = owner /\ asked' = asked
    BY <1>18 DEF EndClear
  <2>2. targets[1] \in Uid
    BY <2>1 DEF Locks, Clearing, PageTypes
  <2>3. Of(targets[1]) \subseteq asked
    BY <2>1, <2>2, AllOf DEF Locks, Clearing
  <2> QED BY <2>1, <2>3 DEF Known
<1>19. CASE ClearFails
    BY <1>19 DEF ClearFails, Known, GhostTypes, Of, threads, files, queue, remote, worker,
       view, page, ghosts
<1>20. CASE DeleteAll
  <2>1. PICK u \in Uid : /\ outbox' = {Deletion(u)} /\ nextId' = nextId + 1
                         /\ asked' = asked \cup 1..Len(owner)
                         /\ task' = "delete" /\ pc["writer"] = "idle"
    BY <1>20, DeletedOnce
  <2>2. owner' = owner /\ cleared' = cleared
    BY <1>20 DEF DeleteAll, StartDelete
  <2> QED BY <2>1, <2>2 DEF Known
<1>21. CASE DeleteFiles
    BY <1>21 DEF DeleteFiles, Without, Known, GhostTypes, Of, threads, files, queue, remote,
       worker, view, page, ghosts
<1>22. CASE RemoveSensor
    BY <1>22 DEF RemoveSensor, Known, GhostTypes, Of, threads, files, queue, remote, worker,
       view, page, ghosts
<1>23. CASE Crash
    BY <1>23 DEF Crash, Known, GhostTypes, Of, threads, files, queue, remote, worker, view,
       page, ghosts
<1>24. CASE UNCHANGED vars
    BY <1>24 DEF vars, files, queue, remote, ghosts, Known, GhostTypes, Of, threads, files,
       queue, remote, worker, view, page, ghosts
<1> QED BY <1>1, <1>2, <1>3, <1>4, <1>5, <1>6, <1>7, <1>8, <1>9, <1>10, <1>11, <1>12, <1>13,
       <1>14, <1>15, <1>16, <1>17, <1>18, <1>19, <1>20, <1>21, <1>22, <1>23, <1>24 DEF Next,
       Deliver

LEMMA LocksStep ==
  ASSUME Single, ClearInv, [Next]_vars
  PROVE  Locks'
<1> USE DEF ClearInv, TypeOK
<1>1. ASSUME NEW t \in Threads, TakeFallback(t)
      PROVE  Locks'
  <2>1. task' = task /\ targets' = targets /\ owner' = owner /\ asked' = asked /\ fallback' = fallback
    BY <1>1 DEF TakeFallback, page, ghosts, files
  <2>2. /\ pc[t] = "requeue" /\ pc' = [pc EXCEPT ![t] = "moving"]
        /\ left' = [left EXCEPT ![t] = At(fallback, PlaceOf(subject[t]))]
    BY <1>1 DEF TakeFallback
  <2>3. (\A i \in Index : fallback[i] = {}) => At(fallback, PlaceOf(subject[t])) = {}
    BY PlaceInRange, SensorsInRange DEF At
  <2>4. pc["writer"] = "idle" => pc'["writer"] = "idle"
    BY <2>2 DEF ThreadTypes, Threads
  <2>5. pc'["writer"] # "idle" => pc["writer"] # "idle"
    BY <2>2 DEF ThreadTypes, Threads
  <2>6. Clearing => Clearing'
    BY <2>1, <2>2, <2>3, <2>4 DEF Clearing, ThreadTypes
  <2>7. \A s \in Threads : pc'[s] # "moving" => left'[s] = {}
    BY <2>2 DEF Locks, ThreadTypes
  <2> QED BY <2>1, <2>5, <2>6, <2>7 DEF Locks
<1>2. ASSUME NEW t \in Threads, MoveOne(t)
      PROVE  Locks'
    BY <1>2 DEF MoveOne, QueueInsert, Locks, Clearing, ThreadTypes, Threads, FileTypes,
       threads, files, queue, remote, worker, view, page, ghosts
<1>3. ASSUME NEW t \in Threads, EndMove(t)
      PROVE  Locks'
    BY <1>3 DEF EndMove, Rest, Refused, Locks, Clearing, ThreadTypes, Threads, FileTypes,
       threads, files, queue, remote, worker, view, page, ghosts
<1>4. ASSUME NEW i \in 1..Len(sensors), Measure(i)
      PROVE  Locks'
  <2>1. /\ task # "clear" /\ task' = task /\ left' = left /\ asked' = asked
        /\ pc' = [pc EXCEPT !["writer"] = "requeue"] /\ pc["writer"] = "idle"
        /\ owner' = Append(owner, sensors[i])
    BY <1>4 DEF Measure, page, DeleteLock
  <2>2. Len(owner') = Len(owner) + 1 /\ Len(owner) \in Nat
    BY <2>1, SensorsInRange DEF GhostTypes
  <2>3. Len(owner') \notin asked
    BY <2>2 DEF Known
  <2>4. \A s \in Threads : pc'[s] # "moving" => left'[s] = {}
    BY <2>1 DEF Locks, ThreadTypes
  <2> QED BY <2>1, <2>3, <2>4 DEF Locks
<1>5. ASSUME NEW i \in 1..Len(sensors), OpenHistory(i)
      PROVE  Locks'
    BY <1>5 DEF OpenHistory, Locks, Clearing, ThreadTypes, Threads, FileTypes, threads, files,
       queue, remote, worker, view, page, ghosts
<1>6. ASSUME NEW i \in 1..Len(sensors), StartClear(i)
      PROVE  Locks'
  <2>1. /\ pc["writer"] = "idle" /\ pc' = pc /\ left' = left /\ owner' = owner
        /\ \A s \in Threads : pc[s] # "moving"
        /\ targets' = <<sensors[i]>> /\ asked' = asked \cup Of(sensors[i])
        /\ fallback' = Without(fallback, i)
    BY <1>6 DEF StartClear, DeleteLock, LocalLock, threads
  <2>2. Len(targets') = 1
    BY <2>1
  <2>3. 1..Len(owner') \subseteq asked'
    BY <2>1, AllOf, SensorsInRange
  <2>4. \A j \in Index : fallback'[j] = {}
    BY <2>1, OneUid, SensorsInRange DEF Without
  <2>5. \A s \in Threads : left'[s] = {}
    BY <2>1 DEF Locks
  <2>6. Clearing'
    BY <2>1, <2>2, <2>3, <2>4, <2>5 DEF Clearing
  <2> QED BY <2>1, <2>5, <2>6 DEF Locks
<1>7. ASSUME NEW i \in 1..Len(sensors), DeleteOne(i)
      PROVE  Locks'
  <2>1. PICK u \in Uid : /\ outbox' = {Deletion(u)} /\ nextId' = nextId + 1
                         /\ asked' = asked \cup 1..Len(owner)
                         /\ task' = "delete" /\ pc["writer"] = "idle"
    BY <1>7, DeletedOnce
  <2>2. pc' = pc /\ left' = left
    BY <1>7 DEF DeleteOne, StartDelete, threads
  <2> QED BY <2>1, <2>2 DEF Locks
<1>8. CASE Enqueue
    BY <1>8 DEF Enqueue, QueueInsert, Locks, Clearing, ThreadTypes, Threads, FileTypes,
       threads, files, queue, remote, worker, view, page, ghosts
<1>9. CASE EnqueueFails
    BY <1>9 DEF EnqueueFails, Refused, Locks, Clearing, ThreadTypes, Threads, FileTypes,
       threads, files, queue, remote, worker, view, page, ghosts
<1>10. CASE WriteFallback
    BY <1>10 DEF WriteFallback, Locks, Clearing, ThreadTypes, Threads, FileTypes, threads,
       files, queue, remote, worker, view, page, ghosts
<1>11. CASE ReadBatch
    BY <1>11 DEF ReadBatch, Locks, Clearing, ThreadTypes, Threads, FileTypes, threads, files,
       queue, remote, worker, view, page, ghosts
<1>12. CASE WriteRow
    BY <1>12 DEF WriteRow, Locks, Clearing, ThreadTypes, Threads, FileTypes, threads, files,
       queue, remote, worker, view, page, ghosts
<1>13. CASE RemoveRow
    BY <1>13 DEF RemoveRow, Locks, Clearing, ThreadTypes, Threads, FileTypes, threads, files,
       queue, remote, worker, view, page, ghosts
<1>14. CASE WriteFails
    BY <1>14 DEF WriteFails, Locks, Clearing, ThreadTypes, Threads, FileTypes, threads, files,
       queue, remote, worker, view, page, ghosts
<1>15. CASE Outage
    BY <1>15 DEF Outage, Locks, Clearing, ThreadTypes, Threads, FileTypes, threads, files,
       queue, remote, worker, view, page, ghosts
<1>16. CASE Recover
    BY <1>16 DEF Recover, Locks, Clearing, ThreadTypes, Threads, FileTypes, threads, files,
       queue, remote, worker, view, page, ghosts
<1>17. CASE Read
    BY <1>17 DEF Read, ReadFallback, ReadPending, ReadTombstone, ReadRemote, RemoteFails,
       ReadAgain, ReadLocal, CloseHistory, Reads, Viewed, Locks, Clearing, ThreadTypes,
       Threads, FileTypes, threads, files, queue, remote, worker, view, page, ghosts
<1>18. CASE EndClear
    BY <1>18 DEF EndClear, QueueDeletes, Replaced, Deletions, Locks, Clearing, ThreadTypes,
       Threads, FileTypes, threads, files, queue, remote, worker, view, page, ghosts
<1>19. CASE ClearFails
    BY <1>19 DEF ClearFails, Locks, Clearing, ThreadTypes, Threads, FileTypes, threads, files,
       queue, remote, worker, view, page, ghosts
<1>20. CASE DeleteAll
  <2>1. PICK u \in Uid : /\ outbox' = {Deletion(u)} /\ nextId' = nextId + 1
                         /\ asked' = asked \cup 1..Len(owner)
                         /\ task' = "delete" /\ pc["writer"] = "idle"
    BY <1>20, DeletedOnce
  <2>2. pc' = pc /\ left' = left
    BY <1>20 DEF DeleteAll, StartDelete, threads
  <2> QED BY <2>1, <2>2 DEF Locks
<1>21. CASE DeleteFiles
    BY <1>21 DEF DeleteFiles, Without, Locks, Clearing, ThreadTypes, Threads, FileTypes,
       threads, files, queue, remote, worker, view, page, ghosts
<1>22. CASE RemoveSensor
    BY <1>22 DEF RemoveSensor, Locks, Clearing, ThreadTypes, Threads, FileTypes, threads,
       files, queue, remote, worker, view, page, ghosts
<1>23. CASE Crash
    BY <1>23 DEF Crash, Locks, Clearing, ThreadTypes, Threads, FileTypes, threads, files,
       queue, remote, worker, view, page, ghosts
<1>24. CASE UNCHANGED vars
    BY <1>24 DEF vars, files, queue, remote, ghosts, Locks, Clearing, ThreadTypes, Threads,
       FileTypes, threads, files, queue, remote, worker, view, page, ghosts
<1> QED BY <1>1, <1>2, <1>3, <1>4, <1>5, <1>6, <1>7, <1>8, <1>9, <1>10, <1>11, <1>12, <1>13,
       <1>14, <1>15, <1>16, <1>17, <1>18, <1>19, <1>20, <1>21, <1>22, <1>23, <1>24 DEF Next,
       Deliver

LEMMA BehindStep ==
  ASSUME Single, ClearInv, [Next]_vars, Ids', Known', Locks'
  PROVE  Behind'
<1> USE DEF ClearInv, TypeOK
<1>1. ASSUME NEW t \in Threads, TakeFallback(t)
      PROVE  Behind'
  <2>1. /\ outbox' = outbox /\ cleared' = cleared /\ fallback' = fallback /\ batch' = batch
        /\ database' = database /\ written' = written
        /\ left' = [left EXCEPT ![t] = At(fallback, PlaceOf(subject[t]))]
    BY <1>1 DEF TakeFallback, queue, ghosts, files, worker, remote
  <2>2. \A n \in cleared : n \notin At(fallback, PlaceOf(subject[t]))
    BY PlaceInRange, SensorsInRange DEF At, Behind
  <2>3. \A n \in cleared, s \in Threads : n \notin left'[s]
    BY <2>1, <2>2 DEF Behind, ThreadTypes
  <2> QED BY <2>1, <2>3 DEF Behind
<1>2. ASSUME NEW t \in Threads, MoveOne(t)
      PROVE  Behind'
    BY <1>2 DEF MoveOne, QueueInsert, Behind, threads, files, queue, remote, worker, view,
       page, ghosts
<1>3. ASSUME NEW t \in Threads, EndMove(t)
      PROVE  Behind'
    BY <1>3 DEF EndMove, Rest, Refused, Behind, threads, files, queue, remote, worker, view,
       page, ghosts
<1>4. ASSUME NEW i \in 1..Len(sensors), Measure(i)
      PROVE  Behind'
  BY <1>4 DEF Measure, Behind, threads, files, queue, remote, worker, view, page, ghosts
<1>5. ASSUME NEW i \in 1..Len(sensors), OpenHistory(i)
      PROVE  Behind'
  BY <1>5 DEF OpenHistory, Behind, threads, files, queue, remote, worker, view, page, ghosts
<1>6. ASSUME NEW i \in 1..Len(sensors), StartClear(i)
      PROVE  Behind'
    BY <1>6 DEF StartClear, Without, Behind, threads, files, queue, remote, worker, view,
       page, ghosts
<1>7. ASSUME NEW i \in 1..Len(sensors), DeleteOne(i)
      PROVE  Behind'
  <2>1. PICK u \in Uid : /\ outbox' = {Deletion(u)} /\ nextId' = nextId + 1
                         /\ asked' = asked \cup 1..Len(owner)
                         /\ task' = "delete" /\ pc["writer"] = "idle"
    BY <1>7, DeletedOnce
  <2>2. /\ cleared' = cleared /\ fallback' = fallback /\ left' = left
        /\ batch' = batch /\ database' = database /\ written' = written
    BY <1>7 DEF DeleteOne, StartDelete, files, threads, worker, remote
  <2> DEFINE d == Deletion(u)
  <2>3. d.rec = None /\ d.id = nextId
    BY DEF Deletion
  <2>4. \A r \in batch : d.id > r.id
    BY <2>3 DEF Ids, QueueTypes, WorkerTypes, Rows
  <2>5. written => d # FirstOf(batch)
    BY <2>4, FirstRow DEF Ids, WorkerTypes, Rows
  <2>6. \A n \in cleared : n # None
    BY DEF Known, None, GhostTypes
  <2>7. outbox' = {d}
    BY <2>1
  <2> HIDE DEF d
  <2> QED BY <2>2, <2>3, <2>7, <2>4, <2>5, <2>6 DEF Behind
<1>8. CASE Enqueue
  <2>1. Len(owner) \notin cleared
    BY <1>8 DEF Enqueue, Locks, Known
  <2>2. \A r \in outbox' : r \in outbox \/ r.rec = Len(owner)
    BY <1>8 DEF Enqueue, QueueInsert, queue
  <2>3. outbox \subseteq outbox'
    BY <1>8 DEF Enqueue, QueueInsert, queue
  <2>4. /\ cleared' = cleared /\ fallback' = fallback /\ left' = left /\ batch' = batch
        /\ database' = database /\ written' = written
    BY <1>8 DEF Enqueue, files, worker, remote
  <2> QED BY <2>1, <2>2, <2>3, <2>4 DEF Behind
<1>9. CASE EnqueueFails
    BY <1>9 DEF EnqueueFails, Refused, Behind, threads, files, queue, remote, worker, view,
       page, ghosts
<1>10. CASE WriteFallback
  <2> DEFINE i == PlaceOf(subject["writer"])
  <2>1. Len(owner) \notin cleared
    BY <1>10 DEF WriteFallback, Locks, Known
  <2>2. \/ fallback' = [fallback EXCEPT ![i] = Newest(@ \cup {Len(owner)})]
        \/ fallback' = fallback
    BY <1>10 DEF WriteFallback
  <2> HIDE DEF i
  <2>3. \A n \in cleared, k \in Index : n \notin fallback'[k]
    <3> SUFFICES ASSUME NEW n \in cleared, NEW k \in Index PROVE n \notin fallback'[k]
      OBVIOUS
    <3>1. n \notin fallback[k] /\ n # Len(owner)
      BY <2>1 DEF Behind
    <3>2. Newest(fallback[k] \cup {Len(owner)}) \subseteq fallback[k] \cup {Len(owner)}
      BY NewestSubset
    <3>3. fallback'[k] = fallback[k] \/ fallback'[k] = Newest(fallback[k] \cup {Len(owner)})
      BY <2>2 DEF FileTypes
    <3> QED BY <3>1, <3>2, <3>3
  <2>4. /\ cleared' = cleared /\ outbox' = outbox /\ left' = left /\ batch' = batch
        /\ database' = database /\ written' = written
    BY <1>10 DEF WriteFallback, queue, worker, remote
  <2> QED BY <2>3, <2>4 DEF Behind
<1>11. CASE ReadBatch
  <2>1. batch = {} /\ ~written
    BY <1>11 DEF ReadBatch, Ids
  <2>2. batch' \subseteq outbox /\ written' = written
    BY <1>11 DEF ReadBatch
  <2>3. /\ cleared' = cleared /\ fallback' = fallback /\ left' = left /\ outbox' = outbox
        /\ database' = database
    BY <1>11 DEF ReadBatch, files, queue, remote, ghosts, threads
  <2>4. ~written'
    BY <2>1, <2>2 DEF WorkerTypes
  <2> QED BY <2>2, <2>3, <2>4 DEF Behind
<1>12. CASE WriteRow
  <2> DEFINE r == FirstOf(batch)
  <2>1. batch # {} /\ database' = Effect(r) /\ batch' = batch
    BY <1>12 DEF WriteRow
  <2>2. /\ cleared' = cleared /\ fallback' = fallback /\ left' = left /\ outbox' = outbox
    BY <1>12 DEF WriteRow, files, queue, ghosts, threads
  <2>3. \A n \in cleared : (\E s \in database' : s.rec = n) =>
                            \E d \in outbox : d.rec = None /\ d # r
    BY <2>1, EffectBehind
  <2>4. FirstOf(batch') = r
    BY <2>1
  <2> HIDE DEF r
  <2> QED BY <2>1, <2>2, <2>3, <2>4 DEF Behind
<1>13. CASE RemoveRow
  <2> DEFINE r == FirstOf(batch)
  <2>1. /\ written /\ written' = FALSE /\ batch' = batch \ {r}
        /\ outbox' = {q \in outbox : q.id # r.id}
    BY <1>13 DEF RemoveRow
  <2>2. /\ cleared' = cleared /\ fallback' = fallback /\ left' = left /\ database' = database
    BY <1>13 DEF RemoveRow, files, remote, ghosts, threads
  <2>3. r \in batch /\ \A q \in batch : r.id <= q.id
    BY <2>1, FirstRow DEF Ids, WorkerTypes
  <2> HIDE DEF r
  <2>4. \A q \in batch : r.id <= q.id /\ r.id \in Nat /\ q.id \in Nat
    BY <2>3 DEF WorkerTypes, Rows
  <2>5. \A d \in outbox : d.id \in Nat
    BY DEF QueueTypes, Rows
  <2>6. \A n \in cleared, q \in batch' : q.rec = n => \E d \in outbox' : d.rec = None /\ d.id > q.id
    <3> SUFFICES ASSUME NEW n \in cleared, NEW q \in batch', q.rec = n
                 PROVE  \E d \in outbox' : d.rec = None /\ d.id > q.id
      OBVIOUS
    <3>1. q \in batch
      BY <2>1
    <3>2. PICK d \in outbox : d.rec = None /\ d.id > q.id
      BY <3>1 DEF Behind
    <3>3. d.id # r.id
      BY <2>4, <2>5, <3>1, <3>2
    <3> QED BY <2>1, <3>2, <3>3
  <2>7. ASSUME NEW n \in cleared, \E s \in database' : s.rec = n
        PROVE  \E d \in outbox' : d.rec = None
    <3>1. PICK d \in outbox : d.rec = None /\ d # r
      BY <2>1, <2>2, <2>7 DEF Behind, r
    <3>2. d.id # r.id
      BY <2>3, <3>1 DEF Ids
    <3> QED BY <2>1, <3>1, <3>2
  <2>8. \A n \in cleared : \A q \in outbox' : q.rec # n
    BY <2>1 DEF Behind
  <2> QED BY <2>1, <2>2, <2>6, <2>7, <2>8 DEF Behind
<1>14. CASE WriteFails
  <2> DEFINE r == FirstOf(batch)
  <2>1. batch # {} /\ batch' = {} /\ written' = FALSE
    BY <1>14 DEF WriteFails
  <2>2. /\ cleared' = cleared /\ fallback' = fallback /\ left' = left /\ outbox' = outbox
    BY <1>14 DEF WriteFails, files, queue, ghosts, threads
  <2>3. \/ database' = database
        \/ database' = Effect(r)
        \/ r.rec # None /\ database' = Inserted(r)
    BY <1>14 DEF WriteFails
  <2>4. \A n \in cleared : (\E s \in database' : s.rec = n) => \E d \in outbox : d.rec = None
    <3> SUFFICES ASSUME NEW n \in cleared, \E s \in database' : s.rec = n
                 PROVE  \E d \in outbox : d.rec = None
      OBVIOUS
    <3>1. /\ (\E s \in Effect(r) : s.rec = n) => \E d \in outbox : d.rec = None
          /\ r.rec # None /\ (\E s \in Inserted(r) : s.rec = n) => \E d \in outbox : d.rec = None
      BY <2>1, EffectBehind
    <3>2. (\E s \in database : s.rec = n) => \E d \in outbox : d.rec = None
      BY DEF Behind
    <3> HIDE DEF r
    <3> QED BY <2>3, <3>1, <3>2
  <2> QED BY <2>1, <2>2, <2>4 DEF Behind
<1>15. CASE Outage
  BY <1>15 DEF Outage, Behind, threads, files, queue, remote, worker, view, page, ghosts
<1>16. CASE Recover
  BY <1>16 DEF Recover, Behind, threads, files, queue, remote, worker, view, page, ghosts
<1>17. CASE Read
    BY <1>17 DEF Read, ReadFallback, ReadPending, ReadTombstone, ReadRemote, RemoteFails,
       ReadAgain, ReadLocal, CloseHistory, Reads, Viewed, Behind, threads, files, queue,
       remote, worker, view, page, ghosts
<1>18. CASE EndClear
  <2>1. task = "clear" /\ outbox' = Replaced(targets) /\ cleared' = cleared \cup Of(targets[1])
    BY <1>18 DEF EndClear, QueueDeletes
  <2>2. Clearing /\ targets[1] \in Uid
    BY <2>1 DEF Locks, Clearing, PageTypes
  <2>3. /\ fallback' = fallback /\ left' = left
        /\ batch' = batch /\ database' = database /\ written' = written
    BY <1>18 DEF EndClear, files, threads, worker, remote
  <2> DEFINE d == Deletion(targets[1])
  <2>4. outbox' = {d}
    BY <2>1, <2>2, OneDeletion DEF Clearing
  <2>5. d.rec = None /\ d.id = nextId
    BY DEF Deletion
  <2>6. \A r \in batch : d.id > r.id
    BY <2>5 DEF Ids, QueueTypes, WorkerTypes, Rows
  <2>7. written => d # FirstOf(batch)
    BY <2>6, FirstRow DEF Ids, WorkerTypes, Rows
  <2>8. \A n \in cleared' : n # None
    <3>1. cleared' \subseteq 1..Len(owner')
      BY DEF Known
    <3> QED BY <3>1 DEF None
  <2> HIDE DEF d
  <2> QED BY <2>2, <2>3, <2>4, <2>5, <2>6, <2>7, <2>8 DEF Behind, Clearing
<1>19. CASE ClearFails
  BY <1>19 DEF ClearFails, Behind, threads, files, queue, remote, worker, view, page, ghosts
<1>20. CASE DeleteAll
  <2>1. PICK u \in Uid : /\ outbox' = {Deletion(u)} /\ nextId' = nextId + 1
                         /\ asked' = asked \cup 1..Len(owner)
                         /\ task' = "delete" /\ pc["writer"] = "idle"
    BY <1>20, DeletedOnce
  <2>2. /\ cleared' = cleared /\ fallback' = fallback /\ left' = left
        /\ batch' = batch /\ database' = database /\ written' = written
    BY <1>20 DEF DeleteAll, StartDelete, files, threads, worker, remote
  <2> DEFINE d == Deletion(u)
  <2>3. d.rec = None /\ d.id = nextId
    BY DEF Deletion
  <2>4. \A r \in batch : d.id > r.id
    BY <2>3 DEF Ids, QueueTypes, WorkerTypes, Rows
  <2>5. written => d # FirstOf(batch)
    BY <2>4, FirstRow DEF Ids, WorkerTypes, Rows
  <2>6. \A n \in cleared : n # None
    BY DEF Known, None, GhostTypes
  <2>7. outbox' = {d}
    BY <2>1
  <2> HIDE DEF d
  <2> QED BY <2>2, <2>3, <2>7, <2>4, <2>5, <2>6 DEF Behind
<1>21. CASE DeleteFiles
    BY <1>21 DEF DeleteFiles, Without, Behind, threads, files, queue, remote, worker, view,
       page, ghosts
<1>22. CASE RemoveSensor
  BY <1>22 DEF RemoveSensor, Behind, threads, files, queue, remote, worker, view, page, ghosts
<1>23. CASE Crash
  BY <1>23 DEF Crash, Behind, threads, files, queue, remote, worker, view, page, ghosts
<1>24. CASE UNCHANGED vars
    BY <1>24 DEF vars, files, queue, remote, ghosts, Behind, threads, files, queue, remote,
       worker, view, page, ghosts
<1> QED BY <1>1, <1>2, <1>3, <1>4, <1>5, <1>6, <1>7, <1>8, <1>9, <1>10, <1>11, <1>12, <1>13,
       <1>14, <1>15, <1>16, <1>17, <1>18, <1>19, <1>20, <1>21, <1>22, <1>23, <1>24 DEF Next,
       Deliver

LEMMA ClearStep ==
  ASSUME Single, ClearInv, [Next]_vars
  PROVE  ClearInv'
<1>1. TypeOK' /\ Busy'
  BY TypesStep, BusyStep DEF ClearInv
<1>2. Ids' /\ Known' /\ Locks'
  BY IdsStep, KnownStep, LocksStep
<1>3. Behind'
  BY <1>2, BehindStep
<1> QED BY <1>1, <1>2, <1>3 DEF ClearInv

\* What was cleared does not come back: of one sensor, whatever the outbox holds, the
\* worker has read, fails or crashes (clear_records, process_pending_batch).
THEOREM ClearedGone == Single => (Spec => []ClearedStaysGone)
<1> SUFFICES ASSUME Single PROVE Spec => []ClearedStaysGone
  OBVIOUS
<1>1. Init => ClearInv
  BY ClearInitially
<1>2. ClearInv /\ [Next]_vars => ClearInv'
  BY ClearStep
<1>3. ClearInv => ClearedStaysGone
  BY ClearGone
<1> QED BY <1>1, <1>2, <1>3, PTL DEF Spec

-----------------------------------------------------------------------------
(* What retention keeps. *)

Numbers == 0..MaxRecords   \* records, and None for a deletion

LEMMA TheNumbers ==
  /\ Limit \in Nat /\ MaxRecords \in Nat
  /\ IsFiniteSet(Numbers) /\ Numbers \subseteq Nat /\ \A m \in Numbers : m <= MaxRecords
  BY SensorAssumption, FS_Interval DEF Numbers

\* Retention has given up a record for enough newer ones; a set has it, or need not have it.
Enough(S, n) == Limit > 0 /\ Cardinality({m \in S : m > n}) >= Limit
Covers(S, n) == n \in S \/ Enough(S, n)

\* A larger set has more newer records.
LEMMA MoreNewer ==
  ASSUME NEW S, NEW T \in SUBSET Numbers, NEW n \in Nat, NEW k \in Nat, n <= k,
         \A m \in S : m > k => m \in T, Enough(S, k)
  PROVE  Enough(T, n)
<1> DEFINE A == {m \in S : m > k}
           B == {m \in T : m > n}
<1>1. A \subseteq B
  <2> SUFFICES ASSUME NEW m \in S, m > k PROVE m \in T /\ m > n
    OBVIOUS
  <2>1. m \in T /\ m \in Nat
    BY TheNumbers
  <2> QED BY <2>1
<1>2. IsFiniteSet(Numbers)
  BY TheNumbers
<1>3. IsFiniteSet(B)
  BY <1>2, FS_Subset
<1>4. IsFiniteSet(A) /\ Cardinality(A) <= Cardinality(B)
  BY <1>1, <1>3, FS_Subset
<1>5. Cardinality(A) \in Nat /\ Cardinality(B) \in Nat
  BY <1>3, <1>4, FS_CardinalityType
<1>6. Limit > 0 /\ Cardinality(A) >= Limit /\ Limit \in Nat
  BY TheNumbers DEF Enough
<1>7. Cardinality(B) >= Limit
  BY <1>4, <1>5, <1>6
<1> QED BY <1>6, <1>7 DEF Enough

LEMMA CoversMore ==
  ASSUME NEW T \in SUBSET Numbers, NEW S \in SUBSET T, NEW n \in Nat, Covers(S, n)
  PROVE  Covers(T, n)
  BY MoreNewer DEF Covers

\* A set of numbers that is not empty has a largest one.
LEMMA Largest ==
  ASSUME NEW S \in SUBSET Numbers, S # {}
  PROVE  \E k \in S : \A m \in S : m <= k
<1> DEFINE T == {MaxRecords - m : m \in S}
<1>1. T \subseteq Nat /\ T # {}
  <2>1. \A m \in S : MaxRecords - m \in Nat
    BY TheNumbers
  <2> QED BY <2>1
<1> DEFINE R == OpToRel(<, Nat)
<1>2. \E x \in T : \A y \in T : ~(<<y, x>> \in R)
  <2>1. IsWellFoundedOn(R, Nat)
    BY NatLessThanWellFounded
  <2> HIDE DEF T, R
  <2> QED BY <1>1, <2>1, WFMin, Zenon
<1>3. \A x, y \in Nat : y < x => <<y, x>> \in R
  BY DEF OpToRel
<1>4. \E x \in T : \A y \in T : x <= y
  <2>1. PICK x \in T : \A y \in T : ~(<<y, x>> \in R)
    BY <1>2
  <2>2. SUFFICES ASSUME NEW y \in T PROVE x <= y
    OBVIOUS
  <2>3. x \in Nat /\ y \in Nat /\ ~(y < x)
    BY <1>1, <1>3, <2>1
  <2> QED BY <2>3
<1> HIDE DEF R
<1>5. PICK x \in T : \A y \in T : x <= y
  BY <1>4
<1>6. PICK k \in S : x = MaxRecords - k
  BY <1>5
<1>7. ASSUME NEW m \in S PROVE m <= k
  <2>1. MaxRecords - k <= MaxRecords - m
    BY <1>5, <1>6
  <2> QED BY <2>1, TheNumbers
<1> QED BY <1>7

\* When a set loses only older records, or such as it has enough newer ones than, it need
\* not have what it needed not have before: the newer ones than the newest it lost are left.
LEMMA CoverStep ==
  ASSUME NEW V \in SUBSET Numbers, NEW W \in SUBSET Numbers, NEW n \in Nat,
         \A m \in V : m >= n => m \in W \/ Enough(V, m),
         Covers(V, n)
  PROVE  Covers(W, n)
<1> DEFINE Lost == {m \in V : m >= n /\ m \notin W}
<1>1. \A m \in V : m \in Nat
  BY TheNumbers
<1>2. CASE Lost = {}
  <2>1. \A m \in V : m >= n => m \in W
    BY <1>2
  <2>2. CASE n \in V
    BY <2>1, <2>2, <1>1 DEF Covers
  <2>3. CASE Enough(V, n)
    <3>1. \A m \in V : m > n => m \in W
      BY <2>1, <1>1
    <3> QED BY <3>1, <2>3, MoreNewer DEF Covers
  <2> QED BY <2>2, <2>3 DEF Covers
<1>3. CASE Lost # {}
  <2>1. PICK k \in Lost : \A m \in Lost : m <= k
    BY <1>3, Largest
  <2>2. k \in Nat /\ n <= k /\ Enough(V, k)
    BY <2>1, <1>1
  <2>3. \A m \in V : m > k => m \in W
    <3>1. SUFFICES ASSUME NEW m \in V, m > k, m \notin W PROVE FALSE
      OBVIOUS
    <3>2. m \in Lost
      BY <3>1, <2>2, <1>1
    <3> QED BY <3>1, <3>2, <2>1, <2>2, <1>1
  <2> QED BY <2>2, <2>3, MoreNewer DEF Covers
<1> QED BY <1>2, <1>3

\* Retention only gives up a record for enough newer ones.
LEMMA CoverNewest ==
  ASSUME NEW F \in SUBSET Numbers, NEW S \in SUBSET Numbers, NEW n \in Nat,
         Covers(F \cup S, n)
  PROVE  Covers(F \cup Newest(S), n)
<1> DEFINE V == F \cup S
           W == F \cup Newest(S)
<1>1. V \in SUBSET Numbers /\ W \in SUBSET Numbers
  BY NewestSubset
<1>2. ASSUME NEW m \in V, m \notin W PROVE Enough(V, m)
  <2>1. m \in S \ Newest(S) /\ m \in Nat
    BY <1>2, TheNumbers
  <2>2. Limit > 0 /\ ~(Cardinality({x \in S : x > m}) < Limit)
    BY <2>1, TheNumbers DEF Newest
  <2>3. IsFiniteSet({x \in S : x > m})
    <3>1. IsFiniteSet(Numbers)
      BY TheNumbers
    <3> QED BY <3>1, FS_Subset
  <2>4. Enough(S, m)
    BY <2>2, <2>3, FS_CardinalityType, TheNumbers DEF Enough
  <2> QED BY <2>1, <2>4, <1>1, MoreNewer
<1> HIDE DEF V, W
<1>3. Covers(V, n)
  BY DEF V
<1>4. Covers(W, n)
  BY <1>1, <1>2, <1>3, CoverStep
<1> QED BY <1>4 DEF W
-----------------------------------------------------------------------------
(* A single sensor: what was taken is kept. *)

\* Every record that is anywhere was measured.
Recorded ==
  /\ accepted \subseteq 1..Len(owner)
  /\ \A r \in outbox \cup batch : r.rec = None \/ r.rec \in 1..Len(owner)
  /\ \A s \in database : s.rec \in 1..Len(owner)
  /\ \A i \in Index : fallback[i] \subseteq 1..Len(owner)
  /\ \A t \in Threads : left[t] \subseteq 1..Len(owner)

\* The worker has read a prefix of the outbox.
Prefix ==
  /\ IsFiniteSet(outbox)
  /\ \A q \in outbox, r \in batch : q.id < r.id => q \in batch

\* One thread queues the fallback file at a time, for a sensor there is; once its removal
\* has begun the sensor takes no more records.
Removal ==
  /\ \A s, t \in Threads : pc[s] = "moving" /\ pc[t] = "moving" => s = t
  /\ task # "idle" => Len(targets) = 1 /\ sensors = InitialSensors
  /\ task \in {"delete", "remove"} =>
       /\ InitialSensors[1] \in deleting
       /\ pc["writer"] = "idle" /\ accepted \subseteq asked
  /\ sensors = InitialSensors
     \/ (sensors = <<>> /\ pc["writer"] = "idle" /\ accepted \subseteq asked)

\* What nobody asked to remove is behind every deletion.
Ahead ==
  \A n \in (1..Len(owner)) \ asked, d \in outbox \cup batch :
    d.rec = None =>
      /\ \A s \in database : s.rec # n
      /\ \A r \in outbox \cup batch : r.rec = n => r.id > d.id

\* What somebody asked to remove is older than what nobody did.
Younger == \A n \in (1..Len(owner)) \ asked, m \in asked : m < n

OutRecs == {r.rec : r \in outbox}
DbRecs == {s.rec : s \in database}

\* What is in the stores was taken, what is being written not yet.
Taken ==
  /\ \A r \in outbox \cup batch : r.rec = None \/ r.rec \in accepted
  /\ DbRecs \subseteq accepted
  /\ \A i \in Index : fallback[i] \subseteq accepted
  /\ \A t \in Threads : left[t] \subseteq accepted
  /\ pc["writer"] # "idle" => Len(owner) \notin accepted

\* What was taken is in one of the stores, or they have enough newer records; this holds
\* without what has been moved, and of the row that was written without the outbox.
Held ==
  /\ \A n \in accepted \ asked : Covers(fallback[1] \cup OutRecs \cup DbRecs, n)
  /\ \A t \in Threads : pc[t] = "moving" /\ place[t] = 1 =>
       \A n \in accepted \ asked : Covers(left[t] \cup OutRecs \cup DbRecs, n)
  /\ written =>
       LET n == FirstOf(batch).rec
       IN  n = None \/ n \in asked \/ Covers(DbRecs, n)

KeptInv == ClearInv /\ Recorded /\ Prefix /\ Removal /\ Ahead /\ Younger /\ Taken /\ Held

LEMMA KeptInitially == Init => KeptInv
<1> SUFFICES ASSUME Init PROVE KeptInv
  OBVIOUS
<1>1. ClearInv
  BY ClearInitially
<1>2. Recorded /\ Removal /\ Ahead /\ Younger /\ Taken /\ Held
  BY DEF Init, Recorded, Removal, Ahead, Younger, Taken, Held, DbRecs, Index, Threads
<1>3. Prefix
  BY FS_EmptySet DEF Init, Prefix
<1> QED BY <1>1, <1>2, <1>3 DEF KeptInv

\* With one sensor, and while it is there, whoever it is.
LEMMA TheSensor ==
  ASSUME Single, KeptInv, NEW i \in 1..Len(sensors)
  PROVE  sensors = InitialSensors /\ sensors[i] = InitialSensors[1]
<1>1. sensors # <<>>
  OBVIOUS
<1>2. sensors = InitialSensors
  BY <1>1 DEF KeptInv, Removal
<1> QED BY <1>2, OneUid, SensorsInRange DEF KeptInv, ClearInv, TypeOK

\* What is queued is in the outbox then, behind all that was.
LEMMA Queued ==
  ASSUME KeptInv, NEW u, NEW n, n # None, QueueInsert(u, n)
  PROVE  /\ outbox \subseteq outbox' /\ IsFiniteSet(outbox')
         /\ \E r \in outbox' : r.rec = n
         /\ \A r \in outbox' : r \in outbox \/ (r.rec = n /\ r.id = nextId)
<1> DEFINE new == [id |-> nextId, uid |-> u, rec |-> n]
<1>1. CASE \E r \in outbox : r.rec = n
  BY <1>1 DEF QueueInsert, queue, KeptInv, Prefix
<1>2. CASE ~\E r \in outbox : r.rec = n
  <2>1. outbox' = outbox \cup {new}
    BY <1>2 DEF QueueInsert
  <2>2. IsFiniteSet(outbox')
    BY <2>1, FS_AddElement DEF KeptInv, Prefix
  <2>3. new.rec = n /\ new.id = nextId
    OBVIOUS
  <2> HIDE DEF new
  <2> QED BY <2>1, <2>2, <2>3
<1> QED BY <1>1, <1>2

\* A write to the database: what it adds is the record of the row, and what is left of the
\* others with it is what retention keeps, if it is no deletion.
LEMMA Delivered ==
  ASSUME Single, KeptInv, WriteRow \/ WriteFails
  PROVE  LET r == FirstOf(batch) IN
         /\ r \in batch /\ \A q \in batch : r.id <= q.id
         /\ \A s \in database' : s \in database \/ (r.rec # None /\ s.rec = r.rec)
         /\ r.rec = None => \A s \in database : s.rec \in asked
         /\ r.rec # None =>
              LET more == DbRecs \cup {r.rec} IN
              \/ DbRecs' = Newest(more)
              \/ ~WriteRow /\ DbRecs' \in {DbRecs, more}
<1> USE DEF KeptInv, ClearInv, TypeOK
<1> DEFINE r == FirstOf(batch)
           more == DbRecs \cup {r.rec}
<1>1. batch # {}
  BY DEF WriteRow, WriteFails
<1>2. r \in batch /\ r \in Rows /\ \A q \in batch : r.id <= q.id
  BY <1>1, FirstRow DEF WorkerTypes
<1>3. \/ database' = Effect(r)
      \/ ~WriteRow /\ (database' = database \/ (r.rec # None /\ database' = Inserted(r)))
  BY DEF WriteRow, WriteFails
<1>4. r.uid = InitialSensors[1] /\ \A s \in database : s.uid = InitialSensors[1]
  BY <1>2, OneUid DEF Rows, RemoteTypes
<1> HIDE DEF r
<1>5. /\ \A s \in Inserted(r) : (s \in database \/ s.rec = r.rec) /\ s.uid = r.uid
      /\ {s.rec : s \in Inserted(r)} = more
  <2> DEFINE new == [uid |-> r.uid, rec |-> r.rec]
  <2>1. \/ Inserted(r) = database /\ \E s \in database : s.rec = r.rec
        \/ Inserted(r) = database \cup {new}
    BY DEF Inserted
  <2>2. new.rec = r.rec /\ new.uid = r.uid
    OBVIOUS
  <2> HIDE DEF new
  <2>3. \A s \in Inserted(r) : (s \in database \/ s.rec = r.rec) /\ s.uid = r.uid
    BY <1>4, <2>1, <2>2
  <2>4. {s.rec : s \in Inserted(r)} = more
    BY <2>1, <2>2 DEF DbRecs
  <2> QED BY <2>3, <2>4
<1>6. ASSUME r.rec # None
      PROVE  Effect(r) \subseteq Inserted(r) /\ {s.rec : s \in Effect(r)} = Newest(more)
  <2> DEFINE I == Inserted(r)
  <2>1. Effect(r) = {s \in I : s.uid = r.uid =>
                       s.rec \in Newest({q.rec : q \in {p \in I : p.uid = r.uid}})}
    BY <1>6 DEF Effect, Trimmed
  <2>2. \A s \in I : s.uid = r.uid
    BY <1>5
  <2>3. {p \in I : p.uid = r.uid} = I
    BY <2>2
  <2>4. {s.rec : s \in I} = more
    BY <1>5
  <2> HIDE DEF I, more
  <2>5. Effect(r) = {s \in I : s.rec \in Newest(more)}
    BY <2>1, <2>2, <2>3, <2>4
  <2>6. Newest(more) \subseteq more
    BY NewestSubset
  <2>7. {s.rec : s \in Effect(r)} = Newest(more)
    BY <2>4, <2>5, <2>6
  <2> QED BY <2>5, <2>7 DEF I
<1>7. ASSUME r.rec = None
      PROVE  Effect(r) \subseteq database /\ \A s \in database : s.rec \in asked
  BY <1>2, <1>7 DEF Effect, Ahead, Recorded
<1>8. \A s \in database' : s \in database \/ (r.rec # None /\ s.rec = r.rec)
  BY <1>3, <1>5, <1>6, <1>7
<1>9. ASSUME r.rec # None
      PROVE  \/ DbRecs' = Newest(more)
             \/ ~WriteRow /\ DbRecs' \in {DbRecs, more}
  <2>1. CASE database' = Effect(r)
    BY <1>6, <1>9, <2>1 DEF DbRecs
  <2>2. CASE ~WriteRow /\ database' = database
    BY <2>2 DEF DbRecs
  <2>3. CASE ~WriteRow /\ database' = Inserted(r)
    BY <1>5, <2>3 DEF DbRecs
  <2> QED BY <1>3, <2>1, <2>2, <2>3
<1> QED BY <1>2, <1>7, <1>8, <1>9 DEF r

\* A removal leaves its deletion alone in the outbox, and everything is asked for.
LEMMA Replacing ==
  ASSUME Single, KeptInv,
         EndClear \/ DeleteAll \/ \E i \in 1..Len(sensors) : DeleteOne(i)
  PROVE  /\ \E d : outbox' = {d} /\ d.id = nextId /\ d.rec = None
         /\ 1..Len(owner) \subseteq asked'
         /\ UNCHANGED <<batch, written, database, fallback, pc, place, left, accepted, owner>>
<1> USE DEF KeptInv, ClearInv, TypeOK
<1>1. \A u : Deletion(u).id = nextId /\ Deletion(u).rec = None
  BY DEF Deletion
<1>2. UNCHANGED <<batch, written, database, fallback, pc, place, left, accepted, owner>>
  BY DEF EndClear, DeleteAll, DeleteOne, StartDelete, files, worker, remote, threads
<1>3. CASE EndClear
  <2>1. /\ task = "clear" /\ outbox' = Replaced(targets) /\ asked' = asked
    BY <1>3 DEF EndClear, QueueDeletes
  <2>2. Clearing /\ targets[1] \in Uid
    <3>1. Clearing
      BY <2>1 DEF Locks
    <3>2. Len(targets) = 1 /\ targets \in Seq(Uid)
      BY <3>1 DEF Clearing, PageTypes
    <3>3. targets[1] \in Uid
      <4>1. 1 \in 1..Len(targets)
        BY <3>2
      <4> QED BY <3>2, <4>1, ElementOfSeq
    <3> QED BY <3>1, <3>3
  <2>3. outbox' = {Deletion(targets[1])}
    BY <2>1, <2>2, OneDeletion DEF Clearing
  <2>4. \E d : outbox' = {d} /\ d.id = nextId /\ d.rec = None
    BY <1>1, <2>3
  <2>5. 1..Len(owner) \subseteq asked'
    BY <2>1, <2>2 DEF Clearing
  <2> QED BY <1>2, <2>4, <2>5
<1>4. CASE DeleteAll \/ \E i \in 1..Len(sensors) : DeleteOne(i)
  BY <1>1, <1>2, <1>4, DeletedOnce
<1> QED BY <1>3, <1>4

LEMMA RecordedStep ==
  ASSUME Single, KeptInv, [Next]_vars
  PROVE  Recorded'
<1> USE DEF KeptInv, ClearInv, TypeOK
<1>1. ASSUME NEW t \in Threads, TakeFallback(t)
      PROVE  Recorded'
  <2>1. At(fallback, PlaceOf(subject[t])) \subseteq 1..Len(owner)
    BY PlaceInRange, SensorsInRange DEF At, Recorded
  <2>2. \A s \in Threads : left'[s] \subseteq 1..Len(owner)
    BY <1>1, <2>1 DEF TakeFallback, Recorded, ThreadTypes
  <2> QED BY <1>1, <2>2 DEF TakeFallback, Recorded, queue, files, worker, remote, ghosts
<1>2. ASSUME NEW t \in Threads, MoveOne(t)
      PROVE  Recorded'
    BY <1>2 DEF MoveOne, QueueInsert, Recorded, Known, FileTypes, GhostTypes, ThreadTypes,
       threads, files, queue, remote, worker, view, page, ghosts
<1>3. ASSUME NEW t \in Threads, EndMove(t)
      PROVE  Recorded'
    BY <1>3 DEF EndMove, Rest, Refused, Recorded, Known, FileTypes, GhostTypes, ThreadTypes,
       threads, files, queue, remote, worker, view, page, ghosts
<1>4. ASSUME NEW i \in 1..Len(sensors), Measure(i)
      PROVE  Recorded'
    BY <1>4 DEF Measure, Recorded, Known, FileTypes, GhostTypes, ThreadTypes, threads, files,
       queue, remote, worker, view, page, ghosts
<1>5. ASSUME NEW i \in 1..Len(sensors), OpenHistory(i)
      PROVE  Recorded'
    BY <1>5 DEF OpenHistory, Recorded, Known, FileTypes, GhostTypes, ThreadTypes, threads,
       files, queue, remote, worker, view, page, ghosts
<1>6. ASSUME NEW i \in 1..Len(sensors), StartClear(i)
      PROVE  Recorded'
    BY <1>6 DEF StartClear, Without, Recorded, Known, FileTypes, GhostTypes, ThreadTypes,
       threads, files, queue, remote, worker, view, page, ghosts
<1>7. ASSUME NEW i \in 1..Len(sensors), DeleteOne(i)
      PROVE  Recorded'
    BY <1>7 DEF DeleteOne, StartDelete, QueueDeletes, Replaced, Deletions, Recorded, Known,
       FileTypes, GhostTypes, ThreadTypes, threads, files, queue, remote, worker, view, page,
       ghosts
<1>8. CASE Enqueue
  <2>1. Len(owner) \in 1..Len(owner) /\ Len(owner) # None
    BY <1>8 DEF Enqueue, Busy, GhostTypes, None
  <2>2. \A r \in outbox' : r \in outbox \/ r.rec = Len(owner)
    BY <1>8, <2>1, Queued DEF Enqueue
  <2> QED BY <1>8, <2>1, <2>2 DEF Enqueue, Recorded, files, worker, remote
<1>9. CASE EnqueueFails
    BY <1>9 DEF EnqueueFails, Refused, Recorded, Known, FileTypes, GhostTypes, ThreadTypes,
       threads, files, queue, remote, worker, view, page, ghosts
<1>10. CASE WriteFallback
  <2>1. Len(owner) \in 1..Len(owner) /\ Len(owner) # None
    BY <1>10 DEF WriteFallback, Busy, GhostTypes, None
  <2> DEFINE i == PlaceOf(subject["writer"])
  <2>2. /\ \/ fallback' = [fallback EXCEPT ![i] = Newest(@ \cup {Len(owner)})]
           \/ fallback' = fallback
        /\ accepted' \subseteq accepted \cup {Len(owner)}
        /\ UNCHANGED <<outbox, batch, database, left, owner>>
    BY <1>10 DEF WriteFallback, queue, worker, remote
  <2> HIDE DEF i
  <2>3. \A k \in Index : Newest(fallback[k] \cup {Len(owner)}) \subseteq 1..Len(owner)
    BY <2>1, NewestSubset DEF Recorded
  <2>4. \A k \in Index : fallback'[k] \subseteq 1..Len(owner)
    BY <2>2, <2>3 DEF Recorded, FileTypes
  <2> QED BY <2>1, <2>2, <2>4 DEF Recorded
<1>11. CASE ReadBatch
    BY <1>11 DEF ReadBatch, Recorded, Known, FileTypes, GhostTypes, ThreadTypes, threads,
       files, queue, remote, worker, view, page, ghosts
<1>12. CASE WriteRow
  <2> DEFINE r == FirstOf(batch)
  <2>1. r \in batch /\ \A s \in database' : s \in database \/ (r.rec # None /\ s.rec = r.rec)
    BY <1>12, Delivered
  <2>2. batch' \subseteq batch /\ UNCHANGED <<outbox, fallback, left, owner, accepted>>
    BY <1>12 DEF WriteRow, queue, files, threads, ghosts
  <2> HIDE DEF r
  <2> QED BY <2>1, <2>2 DEF Recorded
<1>13. CASE RemoveRow
    BY <1>13 DEF RemoveRow, Recorded, Known, FileTypes, GhostTypes, ThreadTypes, threads,
       files, queue, remote, worker, view, page, ghosts
<1>14. CASE WriteFails
  <2> DEFINE r == FirstOf(batch)
  <2>1. r \in batch /\ \A s \in database' : s \in database \/ (r.rec # None /\ s.rec = r.rec)
    BY <1>14, Delivered
  <2>2. batch' \subseteq batch /\ UNCHANGED <<outbox, fallback, left, owner, accepted>>
    BY <1>14 DEF WriteFails, queue, files, threads, ghosts
  <2> HIDE DEF r
  <2> QED BY <2>1, <2>2 DEF Recorded
<1>15. CASE Outage
    BY <1>15 DEF Outage, Recorded, Known, FileTypes, GhostTypes, ThreadTypes, threads, files,
       queue, remote, worker, view, page, ghosts
<1>16. CASE Recover
    BY <1>16 DEF Recover, Recorded, Known, FileTypes, GhostTypes, ThreadTypes, threads, files,
       queue, remote, worker, view, page, ghosts
<1>17. CASE Read
    BY <1>17 DEF Read, ReadFallback, ReadPending, ReadTombstone, ReadRemote, RemoteFails,
       ReadAgain, ReadLocal, CloseHistory, Reads, Viewed, Recorded, Known, FileTypes,
       GhostTypes, ThreadTypes, threads, files, queue, remote, worker, view, page, ghosts
<1>18. CASE EndClear
    BY <1>18 DEF EndClear, QueueDeletes, Replaced, Deletions, Recorded, Known, FileTypes,
       GhostTypes, ThreadTypes, threads, files, queue, remote, worker, view, page, ghosts
<1>19. CASE ClearFails
    BY <1>19 DEF ClearFails, Recorded, Known, FileTypes, GhostTypes, ThreadTypes, threads,
       files, queue, remote, worker, view, page, ghosts
<1>20. CASE DeleteAll
    BY <1>20 DEF DeleteAll, StartDelete, QueueDeletes, Replaced, Deletions, Recorded, Known,
       FileTypes, GhostTypes, ThreadTypes, threads, files, queue, remote, worker, view, page,
       ghosts
<1>21. CASE DeleteFiles
    BY <1>21 DEF DeleteFiles, Without, Recorded, Known, FileTypes, GhostTypes, ThreadTypes,
       threads, files, queue, remote, worker, view, page, ghosts
<1>22. CASE RemoveSensor
    BY <1>22 DEF RemoveSensor, Recorded, Known, FileTypes, GhostTypes, ThreadTypes, threads,
       files, queue, remote, worker, view, page, ghosts
<1>23. CASE Crash
    BY <1>23 DEF Crash, Recorded, Known, FileTypes, GhostTypes, ThreadTypes, threads, files,
       queue, remote, worker, view, page, ghosts
<1>24. CASE UNCHANGED vars
    BY <1>24 DEF vars, files, queue, remote, ghosts, Recorded, Known, FileTypes, GhostTypes,
       ThreadTypes, threads, files, queue, remote, worker, view, page, ghosts
<1> QED BY <1>1, <1>2, <1>3, <1>4, <1>5, <1>6, <1>7, <1>8, <1>9, <1>10, <1>11, <1>12, <1>13,
       <1>14, <1>15, <1>16, <1>17, <1>18, <1>19, <1>20, <1>21, <1>22, <1>23, <1>24 DEF Next,
       Deliver

LEMMA PrefixStep ==
  ASSUME Single, KeptInv, [Next]_vars
  PROVE  Prefix'
<1> USE DEF KeptInv, ClearInv, TypeOK
<1>1. ASSUME NEW t \in Threads, TakeFallback(t)
      PROVE  Prefix'
  BY <1>1 DEF TakeFallback, Prefix, threads, files, queue, remote, worker, view, page, ghosts
<1>2. ASSUME NEW t \in Threads, MoveOne(t)
      PROVE  Prefix'
  <2>1. PICK n \in left[t] : QueueInsert(subject[t], n)
    BY <1>2 DEF MoveOne
  <2>2. n # None
    BY DEF Recorded, None, GhostTypes
  <2>3. IsFiniteSet(outbox') /\ \A r \in outbox' : r \in outbox \/ r.id = nextId
    BY <2>1, <2>2, Queued
  <2>4. batch' = batch /\ \A r \in batch : ~(nextId < r.id)
    BY <1>2 DEF MoveOne, worker, Ids, QueueTypes, WorkerTypes, Rows
  <2> QED BY <2>3, <2>4 DEF Prefix
<1>3. ASSUME NEW t \in Threads, EndMove(t)
      PROVE  Prefix'
    BY <1>3 DEF EndMove, Rest, Refused, Prefix, threads, files, queue, remote, worker, view,
       page, ghosts
<1>4. ASSUME NEW i \in 1..Len(sensors), Measure(i)
      PROVE  Prefix'
  BY <1>4 DEF Measure, Prefix, threads, files, queue, remote, worker, view, page, ghosts
<1>5. ASSUME NEW i \in 1..Len(sensors), OpenHistory(i)
      PROVE  Prefix'
  BY <1>5 DEF OpenHistory, Prefix, threads, files, queue, remote, worker, view, page, ghosts
<1>6. ASSUME NEW i \in 1..Len(sensors), StartClear(i)
      PROVE  Prefix'
    BY <1>6 DEF StartClear, Without, Prefix, threads, files, queue, remote, worker, view,
       page, ghosts
<1>7. ASSUME NEW i \in 1..Len(sensors), DeleteOne(i)
      PROVE  Prefix'
  <2>1. PICK d : outbox' = {d} /\ d.id = nextId
    BY <1>7, Replacing
  <2>2. batch' = batch /\ IsFiniteSet(outbox')
    BY <1>7, <2>1, Replacing, FS_Singleton
  <2>3. \A r \in batch : ~(d.id < r.id)
    BY <2>1 DEF Ids, QueueTypes, WorkerTypes, Rows
  <2> QED BY <2>1, <2>2, <2>3 DEF Prefix
<1>8. CASE Enqueue
  <2>1. Len(owner) # None /\ QueueInsert(subject["writer"], Len(owner))
    BY <1>8 DEF Enqueue, Busy, GhostTypes, None
  <2>2. IsFiniteSet(outbox') /\ \A r \in outbox' : r \in outbox \/ r.id = nextId
    BY <2>1, Queued
  <2>3. batch' = batch /\ \A r \in batch : ~(nextId < r.id)
    BY <1>8 DEF Enqueue, worker, Ids, QueueTypes, WorkerTypes, Rows
  <2> QED BY <2>2, <2>3 DEF Prefix
<1>9. CASE EnqueueFails
    BY <1>9 DEF EnqueueFails, Refused, Prefix, threads, files, queue, remote, worker, view,
       page, ghosts
<1>10. CASE WriteFallback
  BY <1>10 DEF WriteFallback, Prefix, threads, files, queue, remote, worker, view, page, ghosts
<1>11. CASE ReadBatch
  <2> DEFINE Before(r) == {q \in outbox : q.id < r.id}
  <2>1. batch' = {r \in outbox : Cardinality(Before(r)) < BatchSize} /\ outbox' = outbox
    BY <1>11 DEF ReadBatch, queue
  <2>2. ASSUME NEW q \in outbox, NEW r \in batch', q.id < r.id
        PROVE  q \in batch'
    <3>1. r \in outbox /\ Cardinality(Before(r)) < BatchSize
      BY <2>1
    <3>2. Before(q) \subseteq Before(r)
      <4>1. \A x \in outbox : x.id \in Nat
        BY DEF QueueTypes, Rows
      <4> QED BY <2>2, <3>1, <4>1
    <3>3. IsFiniteSet(Before(r))
      BY FS_Subset DEF Prefix
    <3>4. /\ IsFiniteSet(Before(q)) /\ Cardinality(Before(q)) <= Cardinality(Before(r))
      BY <3>2, <3>3, FS_Subset
    <3>5. Cardinality(Before(q)) \in Nat /\ Cardinality(Before(r)) \in Nat
      BY <3>3, <3>4, FS_CardinalityType
    <3>6. Cardinality(Before(q)) < BatchSize
      BY <3>1, <3>4, <3>5, SensorAssumption
    <3> QED BY <2>1, <3>6
  <2> QED BY <2>1, <2>2 DEF Prefix
<1>12. CASE WriteRow
  BY <1>12 DEF WriteRow, Prefix, threads, files, queue, remote, worker, view, page, ghosts
<1>13. CASE RemoveRow
  <2> DEFINE f == FirstOf(batch)
  <2>1. batch' = batch \ {f} /\ outbox' = {q \in outbox : q.id # f.id}
    BY <1>13 DEF RemoveRow
  <2>2. IsFiniteSet(outbox')
    BY <2>1, FS_Subset DEF Prefix
  <2> HIDE DEF f
  <2> QED BY <2>1, <2>2 DEF Prefix
<1>14. CASE WriteFails
  BY <1>14 DEF WriteFails, Prefix, threads, files, queue, remote, worker, view, page, ghosts
<1>15. CASE Outage
  BY <1>15 DEF Outage, Prefix, threads, files, queue, remote, worker, view, page, ghosts
<1>16. CASE Recover
  BY <1>16 DEF Recover, Prefix, threads, files, queue, remote, worker, view, page, ghosts
<1>17. CASE Read
    BY <1>17 DEF Read, ReadFallback, ReadPending, ReadTombstone, ReadRemote, RemoteFails,
       ReadAgain, ReadLocal, CloseHistory, Reads, Viewed, Prefix, threads, files, queue,
       remote, worker, view, page, ghosts
<1>18. CASE EndClear
  <2>1. PICK d : outbox' = {d} /\ d.id = nextId
    BY <1>18, Replacing
  <2>2. batch' = batch /\ IsFiniteSet(outbox')
    BY <1>18, <2>1, Replacing, FS_Singleton
  <2>3. \A r \in batch : ~(d.id < r.id)
    BY <2>1 DEF Ids, QueueTypes, WorkerTypes, Rows
  <2> QED BY <2>1, <2>2, <2>3 DEF Prefix
<1>19. CASE ClearFails
  BY <1>19 DEF ClearFails, Prefix, threads, files, queue, remote, worker, view, page, ghosts
<1>20. CASE DeleteAll
  <2>1. PICK d : outbox' = {d} /\ d.id = nextId
    BY <1>20, Replacing
  <2>2. batch' = batch /\ IsFiniteSet(outbox')
    BY <1>20, <2>1, Replacing, FS_Singleton
  <2>3. \A r \in batch : ~(d.id < r.id)
    BY <2>1 DEF Ids, QueueTypes, WorkerTypes, Rows
  <2> QED BY <2>1, <2>2, <2>3 DEF Prefix
<1>21. CASE DeleteFiles
    BY <1>21 DEF DeleteFiles, Without, Prefix, threads, files, queue, remote, worker, view,
       page, ghosts
<1>22. CASE RemoveSensor
  BY <1>22 DEF RemoveSensor, Prefix, threads, files, queue, remote, worker, view, page, ghosts
<1>23. CASE Crash
  BY <1>23 DEF Crash, Prefix, threads, files, queue, remote, worker, view, page, ghosts
<1>24. CASE UNCHANGED vars
    BY <1>24 DEF vars, files, queue, remote, ghosts, Prefix, threads, files, queue, remote,
       worker, view, page, ghosts
<1> QED BY <1>1, <1>2, <1>3, <1>4, <1>5, <1>6, <1>7, <1>8, <1>9, <1>10, <1>11, <1>12, <1>13,
       <1>14, <1>15, <1>16, <1>17, <1>18, <1>19, <1>20, <1>21, <1>22, <1>23, <1>24 DEF Next,
       Deliver

LEMMA RemovalStep ==
  ASSUME Single, KeptInv, [Next]_vars
  PROVE  Removal'
<1> USE DEF KeptInv, ClearInv, TypeOK
<1>1. ASSUME NEW t \in Threads, TakeFallback(t)
      PROVE  Removal'
    BY <1>1 DEF TakeFallback, Removal, ThreadTypes, Threads, LocalLock, DeleteLock, threads,
       files, queue, remote, worker, view, page, ghosts
<1>2. ASSUME NEW t \in Threads, MoveOne(t)
      PROVE  Removal'
    BY <1>2 DEF MoveOne, QueueInsert, Removal, ThreadTypes, Threads, LocalLock, DeleteLock,
       threads, files, queue, remote, worker, view, page, ghosts
<1>3. ASSUME NEW t \in Threads, EndMove(t)
      PROVE  Removal'
    BY <1>3 DEF EndMove, Rest, Refused, Removal, ThreadTypes, Threads, LocalLock, DeleteLock,
       threads, files, queue, remote, worker, view, page, ghosts
<1>4. ASSUME NEW i \in 1..Len(sensors), Measure(i)
      PROVE  Removal'
  <2>1. sensors = InitialSensors /\ sensors[i] = InitialSensors[1]
    BY <1>4, TheSensor
  <2>2. task = "idle"
    BY <1>4, <2>1 DEF Measure, DeleteLock, Removal, PageTypes
  <2>3. /\ UNCHANGED <<sensors, task>>
        /\ pc' = [pc EXCEPT !["writer"] = "requeue"]
    BY <1>4 DEF Measure, page
  <2>4. \A s, t \in Threads : pc'[s] = "moving" /\ pc'[t] = "moving" => s = t
    BY <2>3 DEF Removal, ThreadTypes
  <2> QED BY <2>1, <2>2, <2>3, <2>4 DEF Removal
<1>5. ASSUME NEW i \in 1..Len(sensors), OpenHistory(i)
      PROVE  Removal'
    BY <1>5 DEF OpenHistory, Removal, ThreadTypes, Threads, LocalLock, DeleteLock, threads,
       files, queue, remote, worker, view, page, ghosts
<1>6. ASSUME NEW i \in 1..Len(sensors), StartClear(i)
      PROVE  Removal'
  <2>1. sensors = InitialSensors
    BY <1>6, TheSensor
  <2>2. UNCHANGED <<sensors, pc>> /\ targets' = <<sensors[i]>> /\ task' = "clear"
    BY <1>6 DEF StartClear, threads
  <2>3. Len(targets') = 1
    BY <2>2
  <2> QED BY <2>1, <2>2, <2>3 DEF Removal
<1>7. ASSUME NEW i \in 1..Len(sensors), DeleteOne(i)
      PROVE  Removal'
  <2>1. PICK u \in Uid : /\ task' = "delete" /\ pc["writer"] = "idle"
                         /\ Len(targets') = 1 /\ u \in deleting'
    BY <1>7, DeletedOnce
  <2>2. u = InitialSensors[1]
    BY OneUid
  <2>3. UNCHANGED <<sensors, pc, accepted>> /\ accepted \subseteq asked'
    BY <1>7, Replacing DEF DeleteOne, StartDelete, Recorded
  <2>4. sensors # <<>>
    BY <1>7 DEF DeleteOne, StartDelete
  <2> QED BY <2>1, <2>2, <2>3, <2>4 DEF Removal
<1>8. CASE Enqueue
    BY <1>8 DEF Enqueue, QueueInsert, Removal, ThreadTypes, Threads, LocalLock, DeleteLock,
       threads, files, queue, remote, worker, view, page, ghosts
<1>9. CASE EnqueueFails
    BY <1>9 DEF EnqueueFails, Refused, Removal, ThreadTypes, Threads, LocalLock, DeleteLock,
       threads, files, queue, remote, worker, view, page, ghosts
<1>10. CASE WriteFallback
    BY <1>10 DEF WriteFallback, Removal, ThreadTypes, Threads, LocalLock, DeleteLock, threads,
       files, queue, remote, worker, view, page, ghosts
<1>11. CASE ReadBatch
    BY <1>11 DEF ReadBatch, Removal, ThreadTypes, Threads, LocalLock, DeleteLock, threads,
       files, queue, remote, worker, view, page, ghosts
<1>12. CASE WriteRow
    BY <1>12 DEF WriteRow, Removal, ThreadTypes, Threads, LocalLock, DeleteLock, threads,
       files, queue, remote, worker, view, page, ghosts
<1>13. CASE RemoveRow
    BY <1>13 DEF RemoveRow, Removal, ThreadTypes, Threads, LocalLock, DeleteLock, threads,
       files, queue, remote, worker, view, page, ghosts
<1>14. CASE WriteFails
    BY <1>14 DEF WriteFails, Removal, ThreadTypes, Threads, LocalLock, DeleteLock, threads,
       files, queue, remote, worker, view, page, ghosts
<1>15. CASE Outage
    BY <1>15 DEF Outage, Removal, ThreadTypes, Threads, LocalLock, DeleteLock, threads, files,
       queue, remote, worker, view, page, ghosts
<1>16. CASE Recover
    BY <1>16 DEF Recover, Removal, ThreadTypes, Threads, LocalLock, DeleteLock, threads,
       files, queue, remote, worker, view, page, ghosts
<1>17. CASE Read
    BY <1>17 DEF Read, ReadFallback, ReadPending, ReadTombstone, ReadRemote, RemoteFails,
       ReadAgain, ReadLocal, CloseHistory, Reads, Viewed, Removal, ThreadTypes, Threads,
       LocalLock, DeleteLock, threads, files, queue, remote, worker, view, page, ghosts
<1>18. CASE EndClear
    BY <1>18 DEF EndClear, QueueDeletes, Replaced, Deletions, Removal, ThreadTypes, Threads,
       LocalLock, DeleteLock, threads, files, queue, remote, worker, view, page, ghosts
<1>19. CASE ClearFails
    BY <1>19 DEF ClearFails, Removal, ThreadTypes, Threads, LocalLock, DeleteLock, threads,
       files, queue, remote, worker, view, page, ghosts
<1>20. CASE DeleteAll
  <2>1. PICK u \in Uid : /\ task' = "delete" /\ pc["writer"] = "idle"
                         /\ Len(targets') = 1 /\ u \in deleting'
    BY <1>20, DeletedOnce
  <2>2. u = InitialSensors[1]
    BY OneUid
  <2>3. UNCHANGED <<sensors, pc, accepted>> /\ accepted \subseteq asked'
    BY <1>20, Replacing DEF DeleteAll, StartDelete, Recorded
  <2>4. sensors # <<>>
    BY <1>20 DEF DeleteAll, StartDelete
  <2> QED BY <2>1, <2>2, <2>3, <2>4 DEF Removal
<1>21. CASE DeleteFiles
    BY <1>21 DEF DeleteFiles, Without, Removal, ThreadTypes, Threads, LocalLock, DeleteLock,
       threads, files, queue, remote, worker, view, page, ghosts
<1>22. CASE RemoveSensor
  <2>1. /\ task = "remove" /\ Len(targets) = 1 /\ Len(sensors) = 1
        /\ pc["writer"] = "idle" /\ accepted \subseteq asked
    BY <1>22 DEF RemoveSensor, Removal, Single
  <2>2. UNCHANGED <<pc, accepted, asked>> /\ task' = "idle"
    BY <1>22, <2>1 DEF RemoveSensor, threads, ghosts
  <2>3. sensors' = <<>>
    <3>1. sensors' \in Seq(Uid)
      BY TypesStep DEF SensorTypes
    <3> DEFINE k == PlaceOf(targets[1])
    <3>2. sensors' = [i \in 1..(Len(sensors) - 1) |-> sensors[IF i < k THEN i ELSE i + 1]]
      BY <1>22 DEF RemoveSensor
    <3> HIDE DEF k
    <3>3. Len(sensors') = 0
      <4>1. 1..(Len(sensors) - 1) = 1..0
        BY <2>1
      <4>2. sensors' = [i \in 1..0 |-> sensors[IF i < k THEN i ELSE i + 1]]
        BY <3>2, <4>1
      <4> QED BY <4>2
    <3> QED BY <3>1, <3>3, EmptySeq
  <2> QED BY <2>1, <2>2, <2>3 DEF Removal
<1>23. CASE Crash
    BY <1>23 DEF Crash, Removal, ThreadTypes, Threads, LocalLock, DeleteLock, threads, files,
       queue, remote, worker, view, page, ghosts
<1>24. CASE UNCHANGED vars
    BY <1>24 DEF vars, files, queue, remote, ghosts, Removal, ThreadTypes, Threads, LocalLock,
       DeleteLock, threads, files, queue, remote, worker, view, page, ghosts
<1> QED BY <1>1, <1>2, <1>3, <1>4, <1>5, <1>6, <1>7, <1>8, <1>9, <1>10, <1>11, <1>12, <1>13,
       <1>14, <1>15, <1>16, <1>17, <1>18, <1>19, <1>20, <1>21, <1>22, <1>23, <1>24 DEF Next,
       Deliver

LEMMA AheadStep ==
  ASSUME Single, KeptInv, [Next]_vars
  PROVE  Ahead'
<1> USE DEF KeptInv, ClearInv, TypeOK
<1>1. ASSUME NEW t \in Threads, TakeFallback(t)
      PROVE  Ahead'
  BY <1>1 DEF TakeFallback, Ahead, threads, files, queue, remote, worker, view, page, ghosts
<1>2. ASSUME NEW t \in Threads, MoveOne(t)
      PROVE  Ahead'
  <2>1. PICK n \in left[t] : QueueInsert(subject[t], n)
    BY <1>2 DEF MoveOne
  <2>2. n # None
    BY DEF Recorded, None, GhostTypes
  <2>3. \A r \in outbox' : r \in outbox \/ (r.rec = n /\ r.id = nextId)
    BY <2>1, <2>2, Queued
  <2>4. UNCHANGED <<batch, database, asked, owner>>
    BY <1>2 DEF MoveOne, worker, remote, ghosts
  <2>5. \A d \in outbox \cup batch : nextId > d.id
    BY DEF Ids, QueueTypes, WorkerTypes, Rows
  <2> QED BY <2>2, <2>3, <2>4, <2>5 DEF Ahead
<1>3. ASSUME NEW t \in Threads, EndMove(t)
      PROVE  Ahead'
    BY <1>3 DEF EndMove, Rest, Refused, Ahead, threads, files, queue, remote, worker, view,
       page, ghosts
<1>4. ASSUME NEW i \in 1..Len(sensors), Measure(i)
      PROVE  Ahead'
  <2>1. /\ UNCHANGED <<outbox, batch, database, asked>>
        /\ owner' = Append(owner, sensors[i])
    BY <1>4 DEF Measure, queue, worker, remote
  <2>2. Len(owner') = Len(owner) + 1 /\ Len(owner) \in Nat
    BY <2>1 DEF GhostTypes
  <2>3. /\ \A s \in database : s.rec # Len(owner')
        /\ \A r \in outbox \cup batch : r.rec # Len(owner')
    BY <2>2 DEF Recorded, None
  <2>4. \A n \in 1..Len(owner') : n \in 1..Len(owner) \/ n = Len(owner')
    BY <2>2
  <2> QED BY <2>1, <2>3, <2>4 DEF Ahead
<1>5. ASSUME NEW i \in 1..Len(sensors), OpenHistory(i)
      PROVE  Ahead'
  BY <1>5 DEF OpenHistory, Ahead, threads, files, queue, remote, worker, view, page, ghosts
<1>6. ASSUME NEW i \in 1..Len(sensors), StartClear(i)
      PROVE  Ahead'
    BY <1>6 DEF StartClear, Without, Ahead, threads, files, queue, remote, worker, view, page,
       ghosts
<1>7. ASSUME NEW i \in 1..Len(sensors), DeleteOne(i)
      PROVE  Ahead'
  <2>1. 1..Len(owner') \subseteq asked'
    BY <1>7, Replacing
  <2> QED BY <2>1 DEF Ahead
<1>8. CASE Enqueue
  <2>1. QueueInsert(subject["writer"], Len(owner))
    BY <1>8 DEF Enqueue
  <2>2. Len(owner) # None
    BY <1>8 DEF Enqueue, Busy, GhostTypes, None
  <2>3. \A r \in outbox' : r \in outbox \/ (r.rec = Len(owner) /\ r.id = nextId)
    BY <2>1, <2>2, Queued
  <2>4. UNCHANGED <<batch, database, asked, owner>>
    BY <1>8 DEF Enqueue, worker, remote, ghosts
  <2>5. \A d \in outbox \cup batch : nextId > d.id
    BY DEF Ids, QueueTypes, WorkerTypes, Rows
  <2> QED BY <2>2, <2>3, <2>4, <2>5 DEF Ahead
<1>9. CASE EnqueueFails
    BY <1>9 DEF EnqueueFails, Refused, Ahead, threads, files, queue, remote, worker, view,
       page, ghosts
<1>10. CASE WriteFallback
  BY <1>10 DEF WriteFallback, Ahead, threads, files, queue, remote, worker, view, page, ghosts
<1>11. CASE ReadBatch
  BY <1>11 DEF ReadBatch, Ahead, threads, files, queue, remote, worker, view, page, ghosts
<1>12. CASE WriteRow
  <2> DEFINE r == FirstOf(batch)
  <2>1. /\ r \in batch /\ \A q \in batch : r.id <= q.id
        /\ \A s \in database' : s \in database \/ (r.rec # None /\ s.rec = r.rec)
    BY <1>12, Delivered
  <2>2. batch' \subseteq batch /\ UNCHANGED <<outbox, asked, owner>>
    BY <1>12 DEF WriteRow, queue, ghosts
  <2> HIDE DEF r
  <2>3. ASSUME NEW n \in (1..Len(owner)) \ asked, NEW d \in outbox \cup batch, d.rec = None
        PROVE  r.rec # n
    <3> SUFFICES ASSUME r.rec = n PROVE FALSE
      OBVIOUS
    <3>1. r.id > d.id
      BY <2>1, <2>3 DEF Ahead
    <3>2. r.id \in Nat /\ d.id \in Nat
      BY <2>1 DEF QueueTypes, WorkerTypes, Rows
    <3>3. d \in batch
      BY <2>1, <3>1, <3>2 DEF Prefix
    <3> QED BY <2>1, <3>1, <3>2, <3>3
  <2> QED BY <2>1, <2>2, <2>3 DEF Ahead
<1>13. CASE RemoveRow
  BY <1>13 DEF RemoveRow, Ahead, threads, files, queue, remote, worker, view, page, ghosts
<1>14. CASE WriteFails
  <2> DEFINE r == FirstOf(batch)
  <2>1. /\ r \in batch /\ \A q \in batch : r.id <= q.id
        /\ \A s \in database' : s \in database \/ (r.rec # None /\ s.rec = r.rec)
    BY <1>14, Delivered
  <2>2. batch' \subseteq batch /\ UNCHANGED <<outbox, asked, owner>>
    BY <1>14 DEF WriteFails, queue, ghosts
  <2> HIDE DEF r
  <2>3. ASSUME NEW n \in (1..Len(owner)) \ asked, NEW d \in outbox \cup batch, d.rec = None
        PROVE  r.rec # n
    <3> SUFFICES ASSUME r.rec = n PROVE FALSE
      OBVIOUS
    <3>1. r.id > d.id
      BY <2>1, <2>3 DEF Ahead
    <3>2. r.id \in Nat /\ d.id \in Nat
      BY <2>1 DEF QueueTypes, WorkerTypes, Rows
    <3>3. d \in batch
      BY <2>1, <3>1, <3>2 DEF Prefix
    <3> QED BY <2>1, <3>1, <3>2, <3>3
  <2> QED BY <2>1, <2>2, <2>3 DEF Ahead
<1>15. CASE Outage
  BY <1>15 DEF Outage, Ahead, threads, files, queue, remote, worker, view, page, ghosts
<1>16. CASE Recover
  BY <1>16 DEF Recover, Ahead, threads, files, queue, remote, worker, view, page, ghosts
<1>17. CASE Read
    BY <1>17 DEF Read, ReadFallback, ReadPending, ReadTombstone, ReadRemote, RemoteFails,
       ReadAgain, ReadLocal, CloseHistory, Reads, Viewed, Ahead, threads, files, queue,
       remote, worker, view, page, ghosts
<1>18. CASE EndClear
  <2>1. 1..Len(owner') \subseteq asked'
    BY <1>18, Replacing
  <2> QED BY <2>1 DEF Ahead
<1>19. CASE ClearFails
  BY <1>19 DEF ClearFails, Ahead, threads, files, queue, remote, worker, view, page, ghosts
<1>20. CASE DeleteAll
  <2>1. 1..Len(owner') \subseteq asked'
    BY <1>20, Replacing
  <2> QED BY <2>1 DEF Ahead
<1>21. CASE DeleteFiles
    BY <1>21 DEF DeleteFiles, Without, Ahead, threads, files, queue, remote, worker, view,
       page, ghosts
<1>22. CASE RemoveSensor
  BY <1>22 DEF RemoveSensor, Ahead, threads, files, queue, remote, worker, view, page, ghosts
<1>23. CASE Crash
  BY <1>23 DEF Crash, Ahead, threads, files, queue, remote, worker, view, page, ghosts
<1>24. CASE UNCHANGED vars
    BY <1>24 DEF vars, files, queue, remote, ghosts, Ahead, threads, files, queue, remote,
       worker, view, page, ghosts
<1> QED BY <1>1, <1>2, <1>3, <1>4, <1>5, <1>6, <1>7, <1>8, <1>9, <1>10, <1>11, <1>12, <1>13,
       <1>14, <1>15, <1>16, <1>17, <1>18, <1>19, <1>20, <1>21, <1>22, <1>23, <1>24 DEF Next,
       Deliver

\* A step that moves no record, and lets nobody begin to move one.
Quiet ==
  /\ UNCHANGED <<outbox, database, files, left, place, owner, accepted, asked, storage>>
  /\ \A t \in Threads : pc'[t] = "moving" => pc[t] = "moving"
  /\ pc'["writer"] # "idle" => pc["writer"] # "idle"
  /\ (written' => written /\ batch' = batch) /\ batch' \subseteq outbox \cup batch

LEMMA QuietSteps ==
  ASSUME KeptInv,
         \/ \E i \in 1..Len(sensors) : OpenHistory(i)
         \/ EnqueueFails \/ ReadBatch \/ Outage \/ Recover \/ Read \/ ClearFails
         \/ UNCHANGED vars
  PROVE  Quiet
<1> USE DEF KeptInv, ClearInv, TypeOK, Quiet, ThreadTypes, Threads, queue, remote, worker,
        threads, ghosts
<1>1. ASSUME NEW i \in 1..Len(sensors), OpenHistory(i) PROVE Quiet
  BY <1>1 DEF OpenHistory
<1>2. CASE EnqueueFails
  BY <1>2 DEF EnqueueFails
<1>3. CASE ReadBatch
  BY <1>3 DEF ReadBatch, Ids
<1>4. CASE Outage \/ Recover \/ ClearFails
  BY <1>4 DEF Outage, Recover, ClearFails
<1>5. CASE Read
  <2>1. UNCHANGED <<outbox, database, files, left, place, owner, accepted, asked, storage,
                    worker>>
    BY <1>5 DEF Read, ReadFallback, ReadPending, ReadTombstone, ReadRemote, RemoteFails,
       ReadAgain, ReadLocal, CloseHistory, Reads
  <2>2. pc'["writer"] = pc["writer"] /\ pc'["reader"] # "moving"
    BY <1>5 DEF Read, ReadFallback, ReadPending, ReadTombstone, ReadRemote, RemoteFails,
       ReadAgain, ReadLocal, CloseHistory, Reads
  <2> QED BY <2>1, <2>2
<1>6. CASE UNCHANGED vars
  BY <1>6 DEF vars
<1> QED BY <1>1, <1>2, <1>3, <1>4, <1>5, <1>6

\* A step of a removal: everything that was taken is to go.
Removing ==
  \/ \E i \in 1..Len(sensors) : StartClear(i) \/ DeleteOne(i)
  \/ EndClear \/ DeleteAll \/ DeleteFiles \/ RemoveSensor

LEMMA RemovingAll ==
  ASSUME Single, KeptInv, Removing
  PROVE  /\ accepted \subseteq asked' /\ asked \subseteq asked'
         /\ asked' = asked \/ 1..Len(owner) \subseteq asked'
         /\ UNCHANGED <<batch, written, database, pc, place, left, accepted, owner, storage>>
         /\ pc["writer"] = "idle" /\ fallback'[1] \subseteq fallback[1]
         /\ \A r \in outbox' : r \in outbox \/ r.rec = None
<1> USE DEF KeptInv, ClearInv, TypeOK
<1>1. CASE EndClear \/ DeleteAll \/ \E i \in 1..Len(sensors) : DeleteOne(i)
  <2>1. /\ \E d : outbox' = {d} /\ d.rec = None
        /\ 1..Len(owner) \subseteq asked'
        /\ UNCHANGED <<batch, written, database, fallback, pc, place, left, accepted, owner>>
    BY <1>1, Replacing
  <2>2. asked \subseteq asked' /\ storage' = storage
    BY <1>1 DEF EndClear, DeleteOne, DeleteAll, StartDelete
  <2>3. pc["writer"] = "idle"
    BY <1>1 DEF EndClear, DeleteOne, DeleteAll, StartDelete, DeleteLock, Locks, Clearing
  <2> QED BY <2>1, <2>2, <2>3 DEF Recorded
<1>2. ASSUME NEW i \in 1..Len(sensors), StartClear(i)
      PROVE  /\ 1..Len(owner) \subseteq asked' /\ asked \subseteq asked'
             /\ UNCHANGED <<batch, written, database, pc, place, left, accepted, owner, storage,
                            outbox>>
             /\ pc["writer"] = "idle" /\ fallback'[1] \subseteq fallback[1]
  <2>1. 1..Len(owner) \subseteq asked' /\ asked \subseteq asked'
    BY <1>2, AllOf, SensorsInRange DEF StartClear
  <2>2. fallback'[1] \subseteq fallback[1]
    BY <1>2, OneUid DEF StartClear, Without
  <2> QED BY <1>2, <2>1, <2>2 DEF StartClear, DeleteLock, worker, remote, threads, queue
<1>3. CASE DeleteFiles \/ RemoveSensor
  <2>1. accepted \subseteq asked /\ pc["writer"] = "idle"
    BY <1>3 DEF DeleteFiles, RemoveSensor, Removal
  <2>2. UNCHANGED <<batch, written, database, pc, place, left, accepted, owner, storage, outbox,
                    asked>>
    BY <1>3 DEF DeleteFiles, RemoveSensor, worker, remote, threads, queue, ghosts
  <2>3. fallback' = fallback \/ \A i \in Index : fallback'[i] = {} \/ fallback'[i] = fallback[i]
    BY <1>3 DEF DeleteFiles, RemoveSensor, Without, files
  <2>4. fallback'[1] \subseteq fallback[1]
    BY <2>3, OneUid
  <2> QED BY <2>1, <2>2, <2>4
<1> QED BY <1>1, <1>2, <1>3 DEF Removing, Recorded

\* The other steps move records, or stop.
LEMMA KindsOfSteps ==
  ASSUME KeptInv, [Next]_vars
  PROVE  \/ Quiet \/ Removing \/ Crash
         \/ \E t \in Threads : TakeFallback(t) \/ MoveOne(t) \/ EndMove(t)
         \/ \E i \in 1..Len(sensors) : Measure(i)
         \/ Enqueue \/ WriteFallback \/ WriteRow \/ WriteFails \/ RemoveRow
  BY QuietSteps DEF Next, Deliver, Removing

LEMMA YoungerStep == ASSUME Single, KeptInv, [Next]_vars PROVE Younger'
<1> USE DEF KeptInv, ClearInv, TypeOK
<1>1. CASE UNCHANGED <<owner, asked>>
  BY <1>1 DEF Younger
<1>2. ASSUME NEW i \in 1..Len(sensors), Measure(i) PROVE Younger'
  <2>1. asked' = asked /\ Len(owner') = Len(owner) + 1 /\ Len(owner) \in Nat
    BY <1>2 DEF Measure, GhostTypes
  <2> QED BY <2>1 DEF Younger, Known
<1>3. CASE Removing
  BY <1>3, <1>1, RemovingAll DEF Younger
<1>4. CASE Quiet \/ Crash
  BY <1>4, <1>1 DEF Quiet, Crash, ghosts
<1>5. ASSUME NEW t \in Threads, TakeFallback(t) \/ MoveOne(t) \/ EndMove(t) PROVE Younger'
  BY <1>5, <1>1 DEF TakeFallback, MoveOne, EndMove, ghosts
<1>6. CASE Enqueue \/ WriteFallback \/ WriteRow \/ WriteFails \/ RemoveRow
  BY <1>6, <1>1 DEF Enqueue, WriteFallback, WriteRow, WriteFails, RemoveRow, ghosts
<1> QED BY <1>2, <1>3, <1>4, <1>5, <1>6, KindsOfSteps

\* While it is written to, the sensor is there, and its directory is the first.
LEMMA WriterPlace ==
  ASSUME Single, KeptInv, pc["writer"] # "idle"
  PROVE  PlaceOf(subject["writer"]) = 1
<1> USE DEF KeptInv, ClearInv, TypeOK
<1>1. sensors = InitialSensors /\ Len(sensors) = 1
  <2>1. sensors = InitialSensors
    BY DEF Removal
  <2> QED BY <2>1 DEF Single
<1>2. subject["writer"] = InitialSensors[1]
  BY OneUid DEF ThreadTypes, Threads
<1>3. 1 \in 1..Len(sensors) /\ sensors[1] = subject["writer"]
  BY <1>1, <1>2
<1>4. \A j \in 1..Len(sensors) : j = 1
  BY <1>1
<1> QED BY <1>3, <1>4 DEF PlaceOf

\* What the writer does with a record that the outbox refused.
LEMMA FallbackWritten ==
  ASSUME Single, KeptInv, WriteFallback
  PROVE  /\ history'[1] = Newest(history[1] \cup {Len(owner)})
         /\ \/ /\ fallback'[1] = Newest(fallback[1] \cup {Len(owner)})
               /\ accepted' = accepted \cup {Len(owner)}
            \/ UNCHANGED <<fallback, accepted>>
         /\ UNCHANGED <<outbox, batch, written, database, left, place, asked, owner, storage>>
         /\ \A t \in Threads : pc[t] # "moving" /\ pc'[t] # "moving"
         /\ pc["writer"] # "idle" /\ pc'["writer"] = "idle"
<1> USE DEF KeptInv, ClearInv, TypeOK
<1>1. pc["writer"] = "fallback" /\ pc' = [pc EXCEPT !["writer"] = "idle"]
      /\ \A t \in Threads : pc[t] # "moving"
  BY DEF WriteFallback, LocalLock
<1>2. PlaceOf(subject["writer"]) = 1
  BY <1>1, WriterPlace
<1>3. /\ history' = [history EXCEPT ![1] = Newest(@ \cup {Len(owner)})]
      /\ \/ /\ fallback' = [fallback EXCEPT ![1] = Newest(@ \cup {Len(owner)})]
            /\ accepted' = accepted \cup {Len(owner)}
         \/ UNCHANGED <<fallback, accepted>>
  BY <1>2 DEF WriteFallback
<1>4. UNCHANGED <<outbox, batch, written, database, left, place, asked, owner, storage>>
  BY DEF WriteFallback, queue, remote, worker
<1>5. 1 \in Index
  BY OneUid
<1> QED BY <1>1, <1>3, <1>4, <1>5 DEF FileTypes, ThreadTypes, Threads

\* A move ends: what is left of the file is the file.
LEMMA MoveEnded ==
  ASSUME Single, KeptInv, NEW t \in Threads, EndMove(t)
  PROVE  /\ fallback'[1] = IF place[t] = 1 THEN left[t] ELSE fallback[1]
         /\ \A s \in Threads : pc'[s] # "moving" /\ left'[s] \subseteq left[s]
         /\ pc[t] = "moving"
         /\ UNCHANGED <<outbox, batch, written, database, history, accepted, asked, owner,
                        storage>>
         /\ pc'["writer"] # "idle" => pc["writer"] # "idle"
<1> USE DEF KeptInv, ClearInv, TypeOK
<1>1. /\ pc[t] = "moving"
      /\ UNCHANGED <<outbox, batch, written, database, history, accepted, asked, owner, storage>>
      /\ fallback' = [i \in Index |-> IF i = place[t] THEN left[t] ELSE fallback[i]]
      /\ pc' = [pc EXCEPT ![t] = IF t = "writer" THEN "enqueue" ELSE "fallback"]
      /\ left' = [left EXCEPT ![t] = {}]
  BY DEF EndMove, Rest, queue, worker, remote, ghosts
<1>2. \A s \in Threads : pc'[s] # "moving" /\ left'[s] \subseteq left[s]
  BY <1>1 DEF Removal, ThreadTypes
<1>3. fallback'[1] = IF place[t] = 1 THEN left[t] ELSE fallback[1]
  BY <1>1, OneUid
<1>4. pc'["writer"] # "idle" => pc["writer"] # "idle"
  BY <1>1 DEF ThreadTypes, Threads
<1> QED BY <1>1, <1>2, <1>3, <1>4

\* A move begins, of the whole file.
LEMMA MoveBegun ==
  ASSUME Single, KeptInv, NEW t \in Threads, TakeFallback(t)
  PROVE  /\ \A s \in Threads : pc'[s] = "moving" => s = t
         /\ left'[t] \subseteq fallback[1] /\ (place'[t] = 1 => left'[t] = fallback[1])
         /\ \A s \in Threads : s # t => left'[s] = left[s]
         /\ UNCHANGED <<outbox, batch, written, database, files, accepted, asked, owner,
                        storage>>
         /\ pc'["writer"] # "idle" => pc["writer"] # "idle"
<1> USE DEF KeptInv, ClearInv, TypeOK
<1>1. /\ UNCHANGED <<outbox, batch, written, database, files, accepted, asked, owner, storage>>
      /\ pc[t] = "requeue" /\ \A s \in Threads : pc[s] # "moving"
      /\ pc' = [pc EXCEPT ![t] = "moving"]
      /\ place' = [place EXCEPT ![t] = PlaceOf(subject[t])]
      /\ left' = [left EXCEPT ![t] = At(fallback, PlaceOf(subject[t]))]
  BY DEF TakeFallback, LocalLock, queue, worker, remote, ghosts
<1>2. At(fallback, PlaceOf(subject[t])) \subseteq fallback[1]
  BY OneUid, PlaceInRange, SensorsInRange DEF At
<1>3. place'[t] = 1 => left'[t] = fallback[1]
  BY <1>1 DEF At, ThreadTypes
<1>4. left'[t] \subseteq fallback[1] /\ \A s \in Threads : s # t => left'[s] = left[s]
  BY <1>1, <1>2 DEF ThreadTypes
<1>5. \A s \in Threads : pc'[s] = "moving" => s = t
  BY <1>1 DEF ThreadTypes
<1>6. pc'["writer"] # "idle" => pc["writer"] # "idle"
  BY <1>1 DEF ThreadTypes, Threads
<1> QED BY <1>1, <1>3, <1>4, <1>5, <1>6

\* One record moves from the file to the outbox.
LEMMA OneMoved ==
  ASSUME Single, KeptInv, NEW t \in Threads, MoveOne(t)
  PROVE  \E m \in left[t] :
           /\ outbox \subseteq outbox' /\ OutRecs' = OutRecs \cup {m}
           /\ \A r \in outbox' : r \in outbox \/ r.rec = m
           /\ \A s \in Threads : left'[s] \subseteq left[s] /\ left[s] \subseteq left'[s] \cup {m}
           /\ UNCHANGED <<pc, place, batch, written, database, files, accepted, asked, owner,
                          storage>>
<1> USE DEF KeptInv, ClearInv, TypeOK
<1>1. PICK m \in left[t] : QueueInsert(subject[t], m) /\ left' = [left EXCEPT ![t] = @ \ {m}]
  BY DEF MoveOne
<1>2. m # None
  BY DEF Recorded, None, GhostTypes
<1>3. /\ outbox \subseteq outbox' /\ \E r \in outbox' : r.rec = m
      /\ \A r \in outbox' : r \in outbox \/ r.rec = m
  BY <1>1, <1>2, Queued
<1>4. \A s \in Threads : left'[s] \subseteq left[s] /\ left[s] \subseteq left'[s] \cup {m}
  BY <1>1 DEF ThreadTypes
<1>5. UNCHANGED <<pc, place, batch, written, database, files, accepted, asked, owner, storage>>
  BY DEF MoveOne, worker, remote, ghosts
<1>6. OutRecs' = OutRecs \cup {m}
  BY <1>3 DEF OutRecs
<1> QED BY <1>3, <1>4, <1>5, <1>6

\* A new record is queued, and taken.
LEMMA NewQueued ==
  ASSUME Single, KeptInv, Enqueue
  PROVE  /\ OutRecs' = OutRecs \cup {Len(owner)}
         /\ \A r \in outbox' : r \in outbox \/ r.rec = Len(owner)
         /\ accepted' = accepted \cup {Len(owner)}
         /\ UNCHANGED <<place, left, batch, written, database, files, asked, owner, storage>>
         /\ \A t \in Threads : pc'[t] = "moving" => pc[t] = "moving"
         /\ pc["writer"] # "idle" /\ pc'["writer"] = "idle"
<1> USE DEF KeptInv, ClearInv, TypeOK
<1>1. QueueInsert(subject["writer"], Len(owner))
  BY DEF Enqueue
<1>2. Len(owner) # None
  BY DEF Enqueue, Busy, GhostTypes, None
<1>3. /\ outbox \subseteq outbox' /\ \E r \in outbox' : r.rec = Len(owner)
      /\ \A r \in outbox' : r \in outbox \/ r.rec = Len(owner)
  BY <1>1, <1>2, Queued
<1>4. /\ accepted' = accepted \cup {Len(owner)}
      /\ UNCHANGED <<place, left, batch, written, database, files, asked, owner, storage>>
  BY DEF Enqueue, worker, remote
<1>5. /\ \A t \in Threads : pc'[t] = "moving" => pc[t] = "moving"
      /\ pc["writer"] # "idle" /\ pc'["writer"] = "idle"
  BY DEF Enqueue, ThreadTypes, Threads
<1>6. OutRecs' = OutRecs \cup {Len(owner)}
  BY <1>3 DEF OutRecs
<1> QED BY <1>3, <1>4, <1>5, <1>6

\* A record is measured: with both storages it goes to the local file first.
LEMMA NewMeasured ==
  ASSUME Single, KeptInv, NEW i \in 1..Len(sensors), Measure(i)
  PROVE  /\ Len(owner') = Len(owner) + 1 /\ Len(owner) \in Nat
         /\ history'[1] = IF storage = "both" THEN Newest(history[1] \cup {Len(owner')})
                          ELSE history[1]
         /\ UNCHANGED <<outbox, batch, written, database, fallback, left, place, accepted, asked,
                        storage>>
         /\ \A t \in Threads : pc'[t] = "moving" => pc[t] = "moving"
<1> USE DEF KeptInv, ClearInv, TypeOK
<1>1. Len(owner') = Len(owner) + 1 /\ Len(owner) \in Nat
  BY DEF Measure, GhostTypes
<1>2. i = 1 /\ 1 \in Index
  BY OneUid, SensorsInRange
<1>3. history'[1] = IF storage = "both" THEN Newest(history[1] \cup {Len(owner')})
                    ELSE history[1]
  BY <1>2 DEF Measure, FileTypes
<1>4. /\ UNCHANGED <<outbox, batch, written, database, fallback, left, place, accepted, asked,
                     storage>>
      /\ \A t \in Threads : pc'[t] = "moving" => pc[t] = "moving"
  BY DEF Measure, queue, worker, remote, ThreadTypes, Threads
<1> QED BY <1>1, <1>3, <1>4

LEMMA TakenStep == ASSUME Single, KeptInv, [Next]_vars PROVE Taken'
<1> USE DEF KeptInv, ClearInv, TypeOK
<1>1. ASSUME NEW t \in Threads, TakeFallback(t) PROVE Taken'
  <2>1. /\ left'[t] \subseteq fallback[1] /\ \A s \in Threads : s # t => left'[s] = left[s]
        /\ UNCHANGED <<outbox, batch, database, fallback, accepted, owner>>
        /\ pc'["writer"] # "idle" => pc["writer"] # "idle"
    BY <1>1, MoveBegun DEF files
  <2>2. \A s \in Threads : left'[s] \subseteq accepted
    BY <2>1, OneUid DEF Taken
  <2> QED BY <2>1, <2>2 DEF Taken, DbRecs
<1>2. ASSUME NEW t \in Threads, MoveOne(t) PROVE Taken'
  <2>1. PICK m \in left[t] :
           /\ \A r \in outbox' : r \in outbox \/ r.rec = m
           /\ \A s \in Threads : left'[s] \subseteq left[s]
           /\ UNCHANGED <<pc, batch, database, files, accepted, owner>>
    BY <1>2, OneMoved
  <2> QED BY <2>1 DEF Taken, files, DbRecs
<1>3. ASSUME NEW t \in Threads, EndMove(t) PROVE Taken'
  <2>1. fallback'[1] \subseteq accepted
    BY <1>3, MoveEnded, OneUid DEF Taken
  <2> QED BY <1>3, <2>1, MoveEnded, OneUid DEF Taken, DbRecs
<1>4. ASSUME NEW i \in 1..Len(sensors), Measure(i) PROVE Taken'
  <2>1. Len(owner') \notin accepted
    BY <1>4, NewMeasured DEF Recorded
  <2> QED BY <1>4, <2>1, NewMeasured DEF Taken, DbRecs
<1>5. CASE Enqueue
  BY <1>5, NewQueued DEF Taken, DbRecs, files
<1>6. CASE WriteFallback
  <2>1. fallback'[1] \subseteq accepted' /\ accepted \subseteq accepted'
    BY <1>6, FallbackWritten, NewestSubset, OneUid DEF Taken
  <2> QED BY <1>6, <2>1, FallbackWritten, OneUid DEF Taken, DbRecs
<1>7. CASE WriteRow \/ WriteFails
  <2>1. PICK r \in batch : \A s \in database' : s \in database \/ (r.rec # None /\ s.rec = r.rec)
    BY <1>7, Delivered
  <2>2. batch' \subseteq batch /\ UNCHANGED <<outbox, fallback, left, accepted, owner, pc>>
    BY <1>7 DEF WriteRow, WriteFails, queue, files, threads, ghosts
  <2>3. DbRecs' \subseteq accepted
    BY <2>1 DEF Taken, DbRecs
  <2> QED BY <2>2, <2>3 DEF Taken
<1>8. CASE RemoveRow
  <2>1. /\ outbox' \subseteq outbox /\ batch' \subseteq batch
        /\ UNCHANGED <<database, fallback, left, accepted, owner, pc>>
    BY <1>8 DEF RemoveRow, remote, files, threads, ghosts
  <2> QED BY <2>1 DEF Taken, DbRecs
<1>9. CASE Removing
  <2>1. /\ UNCHANGED <<batch, database, left, accepted>> /\ fallback'[1] \subseteq fallback[1]
        /\ \A r \in outbox' : r \in outbox \/ r.rec = None
        /\ pc'["writer"] = "idle"
    BY <1>9, RemovingAll
  <2> QED BY <2>1, OneUid DEF Taken, DbRecs
<1>10. CASE Quiet
  BY <1>10 DEF Quiet, Taken, DbRecs, files
<1>11. CASE Crash
  BY <1>11 DEF Crash, Taken, DbRecs, files, queue, remote, ghosts, Threads
<1> QED BY <1>1, <1>2, <1>3, <1>4, <1>5, <1>6, <1>7, <1>8, <1>9, <1>10, <1>11, KindsOfSteps

\* What is anywhere is a number.
NumbersOnly ==
  /\ OutRecs \subseteq Numbers /\ DbRecs \subseteq Numbers /\ shown \subseteq Numbers
  /\ fallback[1] \subseteq Numbers /\ history[1] \subseteq Numbers
  /\ \A t \in Threads : left[t] \subseteq Numbers
  /\ Len(owner) \in Numbers /\ 1..Len(owner) \subseteq Numbers

LEMMA OnlyNumbers == Single /\ TypeOK => NumbersOnly
<1> SUFFICES ASSUME Single, TypeOK PROVE NumbersOnly
  OBVIOUS
<1>1. Records \subseteq Numbers /\ None \in Numbers
  BY TheNumbers DEF Records, Numbers, None
<1>2. OutRecs \subseteq Numbers /\ DbRecs \subseteq Numbers
  BY <1>1 DEF TypeOK, QueueTypes, RemoteTypes, Rows, OutRecs, DbRecs
<1>3. /\ fallback[1] \subseteq Numbers /\ history[1] \subseteq Numbers
      /\ \A t \in Threads : left[t] \subseteq Numbers
  BY <1>1, OneUid DEF TypeOK, FileTypes, ThreadTypes
<1>4. Len(owner) \in Numbers /\ 1..Len(owner) \subseteq Numbers
  BY TheNumbers DEF TypeOK, GhostTypes, Numbers
<1> QED BY <1>1, <1>2, <1>3, <1>4 DEF NumbersOnly, TypeOK, ViewTypes

LEMMA OnlyNumbersNext == ASSUME Single, KeptInv, [Next]_vars PROVE NumbersOnly'
<1>1. TypeOK'
  BY TypesStep DEF KeptInv, ClearInv
<1>2. Single /\ TypeOK' => NumbersOnly'
  BY OnlyNumbers, PTL
<1> QED BY <1>1, <1>2

\* What was given up is newer than what was asked for, which needs no cover.
LEMMA NotAsked ==
  ASSUME KeptInv, NEW n \in (1..Len(owner)) \ asked, NEW m \in Nat, m >= n
  PROVE  m \notin asked /\ m # None
<1>1. Len(owner) \in Nat /\ asked \subseteq Nat
  BY TheNumbers DEF KeptInv, ClearInv, TypeOK, GhostTypes, Records
<1> QED BY <1>1 DEF KeptInv, Younger, None

\* A write to the database, with or without its answer, leaves enough.
LEMMA DeliveredCovers ==
  ASSUME Single, KeptInv, WriteRow \/ WriteFails, DbRecs' \subseteq Numbers,
         NEW n \in (1..Len(owner)) \ asked, NEW F \in SUBSET Numbers
  PROVE  /\ Covers(F \cup DbRecs, n) => Covers(F \cup DbRecs', n)
         /\ WriteRow /\ FirstOf(batch).rec = n => Covers(DbRecs', n)
<1> DEFINE r == FirstOf(batch)
           more == DbRecs \cup {r.rec}
<1>1. /\ r \in batch /\ \A s \in database' : s \in database \/ (r.rec # None /\ s.rec = r.rec)
      /\ r.rec = None => \A s \in database : s.rec \in asked
      /\ r.rec # None => DbRecs' = Newest(more) \/ (~WriteRow /\ DbRecs' \in {DbRecs, more})
  BY Delivered
<1>2. NumbersOnly
  BY OnlyNumbers DEF KeptInv, ClearInv
<1>3. n \in Nat /\ n # None
  BY DEF None
<1>4. r.rec \in Numbers
  BY <1>1, TheNumbers DEF KeptInv, ClearInv, TypeOK, WorkerTypes, Rows, Numbers, Records, None
<1>5. more \in SUBSET Numbers
  BY <1>2, <1>4 DEF NumbersOnly
<1> HIDE DEF r
<1>6. CASE r.rec # None
  <2>1. ASSUME Covers(F \cup DbRecs, n) PROVE Covers(F \cup DbRecs', n)
    <3>1. Covers(F \cup more, n)
      <4>1. F \cup more \in SUBSET Numbers /\ F \cup DbRecs \in SUBSET (F \cup more)
        BY <1>5
      <4> HIDE DEF more
      <4> QED BY <4>1, <1>3, <2>1, CoversMore
    <3>2. Covers(F \cup Newest(more), n)
      <4> HIDE DEF more
      <4> QED BY <3>1, <1>3, <1>5, CoverNewest
    <3> QED BY <1>1, <1>6, <2>1, <3>1, <3>2
  <2>2. ASSUME WriteRow, r.rec = n PROVE Covers(DbRecs', n)
    <3>1. DbRecs' = Newest(more) /\ Covers({} \cup more, n)
      BY <1>1, <1>6, <2>2 DEF Covers
    <3> HIDE DEF more
    <3>2. Covers({} \cup Newest(more), n)
      BY <3>1, <1>3, <1>5, CoverNewest
    <3> QED BY <3>1, <3>2
  <2> QED BY <2>1, <2>2 DEF r
<1>7. CASE r.rec = None
  <2>1. ASSUME Covers(F \cup DbRecs, n) PROVE Covers(F \cup DbRecs', n)
    <3>1. \A m \in DbRecs : m \in asked
      BY <1>1, <1>7 DEF DbRecs
    <3>2. \A m \in F \cup DbRecs : m >= n => m \in F \cup DbRecs' \/ Enough(F \cup DbRecs, m)
      BY <1>2, <3>1, NotAsked, TheNumbers DEF NumbersOnly
    <3>3. F \cup DbRecs \in SUBSET Numbers /\ F \cup DbRecs' \in SUBSET Numbers
      BY <1>2 DEF NumbersOnly
    <3> QED BY <1>3, <2>1, <3>2, <3>3, CoverStep
  <2> QED BY <1>3, <1>7, <2>1 DEF r
<1> QED BY <1>6, <1>7

\* The row that was written leaves the outbox: the database has its record or enough newer.
LEMMA RemovedCovers ==
  ASSUME Single, KeptInv, RemoveRow, OutRecs' \subseteq Numbers,
         NEW n \in (1..Len(owner)) \ asked, NEW F \in SUBSET Numbers,
         Covers(F \cup OutRecs \cup DbRecs, n)
  PROVE  Covers(F \cup OutRecs' \cup DbRecs, n)
<1> USE DEF KeptInv, ClearInv, TypeOK
<1> DEFINE f == FirstOf(batch)
           V == F \cup OutRecs \cup DbRecs
           W == F \cup OutRecs' \cup DbRecs
<1>1. written /\ outbox' = {q \in outbox : q.id # f.id}
  BY DEF RemoveRow
<1>2. f \in batch
  BY <1>1, FirstRow DEF Ids, WorkerTypes
<1>3. f.rec = None \/ f.rec \in asked \/ Covers(DbRecs, f.rec)
  BY <1>1 DEF Held
<1> HIDE DEF f
<1>4. \A q \in outbox : q.id = f.id => q = f
  BY <1>2 DEF Ids
<1>5. \A m \in OutRecs : m \in OutRecs' \/ m = f.rec
  BY <1>1, <1>4 DEF OutRecs
<1>6. NumbersOnly
  BY OnlyNumbers
<1>7. V \in SUBSET Numbers /\ W \in SUBSET Numbers
  BY <1>6 DEF NumbersOnly
<1>8. ASSUME NEW m \in V, m >= n PROVE m \in W \/ Enough(V, m)
  <2>1. SUFFICES ASSUME m \notin W PROVE Enough(V, m)
    OBVIOUS
  <2>2. m = f.rec /\ m \notin DbRecs /\ m \in Nat
    BY <1>5, <1>7, <2>1, TheNumbers
  <2>3. Enough(DbRecs, m)
    BY <1>3, <1>8, <2>2, NotAsked DEF Covers
  <2> QED BY <1>7, <2>2, <2>3, MoreNewer
<1>9. Covers(V, n) /\ n \in Nat
  OBVIOUS
<1> HIDE DEF V, W
<1>10. Covers(W, n)
  BY <1>7, <1>8, <1>9, CoverStep
<1> QED BY <1>10 DEF W

\* What a step does to a record that was taken and that nobody asks to remove: whatever
\* covers it together with the stores still does, and what has left for the database does not
\* come back.
Absent(n) ==
  /\ n \notin fallback[1] /\ n \notin OutRecs
  /\ \A t \in Threads : n \notin left[t]

Lasts(n) ==
  /\ \A F \in SUBSET Numbers :
       /\ Covers(F \cup OutRecs \cup DbRecs, n) => Covers(F \cup OutRecs' \cup DbRecs', n)
       /\ Covers(F \cup DbRecs, n) => Covers(F \cup DbRecs', n)
       /\ Covers(F \cup history[1], n) => Covers(F \cup history'[1], n)
  /\ Absent(n) => Absent(n)'

LEMMA LastsIfMore ==
  ASSUME NumbersOnly', NEW n \in Nat, OutRecs \subseteq OutRecs', DbRecs \subseteq DbRecs',
         history[1] \subseteq history'[1], Absent(n) => Absent(n)'
  PROVE  Lasts(n)
<1>1. ASSUME NEW F \in SUBSET Numbers
      PROVE  /\ F \cup OutRecs' \cup DbRecs' \in SUBSET Numbers
             /\ F \cup DbRecs' \in SUBSET Numbers
             /\ F \cup history'[1] \in SUBSET Numbers
  BY DEF NumbersOnly
<1>2. ASSUME NEW F \in SUBSET Numbers
      PROVE  /\ F \cup OutRecs \cup DbRecs \in SUBSET (F \cup OutRecs' \cup DbRecs')
             /\ F \cup DbRecs \in SUBSET (F \cup DbRecs')
             /\ F \cup history[1] \in SUBSET (F \cup history'[1])
  OBVIOUS
<1>3. ASSUME NEW F \in SUBSET Numbers
      PROVE  /\ Covers(F \cup OutRecs \cup DbRecs, n) => Covers(F \cup OutRecs' \cup DbRecs', n)
             /\ Covers(F \cup DbRecs, n) => Covers(F \cup DbRecs', n)
             /\ Covers(F \cup history[1], n) => Covers(F \cup history'[1], n)
  BY <1>1, <1>2, CoversMore
<1> QED BY <1>3 DEF Lasts

\* The local file is written: it keeps the newest records.
LEMMA LocalCovers ==
  ASSUME NEW H \in SUBSET Numbers, NEW F \in SUBSET Numbers, NEW k \in Numbers, NEW n \in Nat,
         Covers(F \cup H, n)
  PROVE  Covers(F \cup Newest(H \cup {k}), n)
<1>1. F \cup H \in SUBSET (F \cup (H \cup {k})) /\ F \cup (H \cup {k}) \in SUBSET Numbers
  OBVIOUS
<1>2. Covers(F \cup (H \cup {k}), n)
  BY <1>1, CoversMore
<1> QED BY <1>2, CoverNewest

LEMMA LastingStep ==
  ASSUME Single, KeptInv, [Next]_vars, NEW n \in accepted \ asked'
  PROVE  Lasts(n)
<1> USE DEF KeptInv, ClearInv, TypeOK
<1>0. NumbersOnly /\ NumbersOnly' /\ n \in 1..Len(owner) /\ n \in Nat
  BY OnlyNumbers, OnlyNumbersNext DEF Recorded, GhostTypes
<1>1. ASSUME NEW t \in Threads, TakeFallback(t) PROVE Lasts(n)
  <2>1. /\ left'[t] \subseteq fallback[1] /\ \A s \in Threads : s # t => left'[s] = left[s]
        /\ UNCHANGED <<outbox, database, files>>
    BY <1>1, MoveBegun
  <2>2. Absent(n) => Absent(n)'
    BY <2>1 DEF Absent, OutRecs, files
  <2> QED BY <1>0, <2>1, <2>2, LastsIfMore DEF OutRecs, DbRecs, files
<1>2. ASSUME NEW t \in Threads, MoveOne(t) PROVE Lasts(n)
  <2>1. PICK m \in left[t] :
           /\ OutRecs' = OutRecs \cup {m} /\ \A s \in Threads : left'[s] \subseteq left[s]
           /\ UNCHANGED <<database, files>>
    BY <1>2, OneMoved
  <2>2. Absent(n) => Absent(n)'
    BY <2>1 DEF Absent, files
  <2> QED BY <1>0, <2>1, <2>2, LastsIfMore DEF DbRecs, files
<1>3. ASSUME NEW t \in Threads, EndMove(t) PROVE Lasts(n)
  <2>1. /\ fallback'[1] \subseteq fallback[1] \cup left[t]
        /\ \A s \in Threads : left'[s] \subseteq left[s]
        /\ UNCHANGED <<outbox, database, history>>
    BY <1>3, MoveEnded
  <2>2. Absent(n) => Absent(n)'
    BY <2>1 DEF Absent, OutRecs
  <2> QED BY <1>0, <2>1, <2>2, LastsIfMore DEF OutRecs, DbRecs
<1>4. ASSUME NEW i \in 1..Len(sensors), Measure(i) PROVE Lasts(n)
  <2>1. /\ history'[1] = Newest(history[1] \cup {Len(owner')}) \/ history'[1] = history[1]
        /\ UNCHANGED <<outbox, database, fallback, left>>
    BY <1>4, NewMeasured
  <2>2. Absent(n) => Absent(n)'
    BY <2>1 DEF Absent, OutRecs
  <2>3. Len(owner') \in Numbers
    BY <1>0 DEF NumbersOnly
  <2>4. \A F \in SUBSET Numbers : Covers(F \cup history[1], n) => Covers(F \cup history'[1], n)
    BY <1>0, <2>1, <2>3, LocalCovers DEF NumbersOnly
  <2> QED BY <2>1, <2>2, <2>4 DEF Lasts, OutRecs, DbRecs
<1>5. CASE Enqueue
  <2>1. /\ OutRecs' = OutRecs \cup {Len(owner)} /\ Len(owner) # n
        /\ UNCHANGED <<database, files, left>>
    BY <1>5, NewQueued DEF Taken
  <2>2. Absent(n) => Absent(n)'
    BY <2>1 DEF Absent, files
  <2> QED BY <1>0, <2>1, <2>2, LastsIfMore DEF DbRecs, files
<1>6. CASE WriteFallback
  <2>1. /\ history'[1] = Newest(history[1] \cup {Len(owner)}) /\ Len(owner) # n
        /\ fallback'[1] \subseteq fallback[1] \cup {Len(owner)}
        /\ UNCHANGED <<outbox, database, left>>
    BY <1>6, FallbackWritten, NewestSubset DEF Taken
  <2>2. Absent(n) => Absent(n)'
    BY <2>1 DEF Absent, OutRecs
  <2>3. \A F \in SUBSET Numbers : Covers(F \cup history[1], n) => Covers(F \cup history'[1], n)
    BY <1>0, <2>1, LocalCovers DEF NumbersOnly
  <2> QED BY <2>1, <2>2, <2>3 DEF Lasts, OutRecs, DbRecs
<1>7. CASE WriteRow \/ WriteFails
  <2>1. UNCHANGED <<outbox, history, fallback, left, asked>>
    BY <1>7 DEF WriteRow, WriteFails, queue, files, threads, ghosts
  <2>2. \A F \in SUBSET Numbers : Covers(F \cup DbRecs, n) => Covers(F \cup DbRecs', n)
    BY <1>0, <1>7, <2>1, DeliveredCovers DEF NumbersOnly
  <2>3. \A F \in SUBSET Numbers : F \cup OutRecs \in SUBSET Numbers
    BY <1>0 DEF NumbersOnly
  <2>4. OutRecs' = OutRecs
    BY <2>1 DEF OutRecs
  <2>5. \A F \in SUBSET Numbers :
          Covers(F \cup OutRecs \cup DbRecs, n) => Covers(F \cup OutRecs' \cup DbRecs', n)
    BY <2>2, <2>3, <2>4
  <2>6. Absent(n) => Absent(n)'
    BY <2>1, <2>4 DEF Absent
  <2> QED BY <2>1, <2>2, <2>5, <2>6 DEF Lasts
<1>8. CASE RemoveRow
  <2>1. outbox' \subseteq outbox /\ UNCHANGED <<database, history, fallback, left, asked>>
    BY <1>8 DEF RemoveRow, remote, files, threads, ghosts
  <2>2. DbRecs' = DbRecs /\ OutRecs' \subseteq OutRecs
    BY <2>1 DEF DbRecs, OutRecs
  <2>3. \A F \in SUBSET Numbers :
          Covers(F \cup OutRecs \cup DbRecs, n) => Covers(F \cup OutRecs' \cup DbRecs, n)
    BY <1>0, <1>8, <2>1, RemovedCovers DEF NumbersOnly
  <2>4. Absent(n) => Absent(n)'
    BY <2>1, <2>2 DEF Absent
  <2> QED BY <2>1, <2>2, <2>3, <2>4 DEF Lasts
<1>9. CASE Removing
  BY <1>9, RemovingAll
<1>10. CASE Quiet
  <2>1. Absent(n) => Absent(n)'
    BY <1>10 DEF Quiet, Absent, OutRecs, files
  <2> QED BY <1>0, <1>10, <2>1, LastsIfMore DEF Quiet, OutRecs, DbRecs, files
<1>11. CASE Crash
  <2>1. UNCHANGED <<outbox, database, files>> /\ \A t \in Threads : left'[t] = {}
    BY <1>11 DEF Crash, queue, remote
  <2>2. Absent(n) => Absent(n)'
    BY <2>1 DEF Absent, OutRecs, files
  <2> QED BY <1>0, <2>1, <2>2, LastsIfMore DEF OutRecs, DbRecs, files
<1> QED BY <1>1, <1>2, <1>3, <1>4, <1>5, <1>6, <1>7, <1>8, <1>9, <1>10, <1>11, KindsOfSteps

\* What has begun, and what was taken, stays so.
LEMMA MoreAccepted ==
  ASSUME [Next]_vars
  PROVE  accepted \subseteq accepted' /\ asked \subseteq asked'
<1>1. ASSUME NEW t \in Threads, TakeFallback(t) \/ MoveOne(t) \/ EndMove(t)
      PROVE  UNCHANGED <<accepted, asked>>
  BY <1>1 DEF TakeFallback, MoveOne, EndMove, ghosts
<1>2. ASSUME NEW i \in 1..Len(sensors), Measure(i) \/ OpenHistory(i)
      PROVE  UNCHANGED <<accepted, asked>>
  BY <1>2 DEF Measure, OpenHistory, ghosts
<1>3. ASSUME NEW i \in 1..Len(sensors), StartClear(i) \/ DeleteOne(i)
      PROVE  accepted' = accepted /\ asked \subseteq asked'
  BY <1>3 DEF StartClear, DeleteOne, StartDelete
<1>4. CASE DeleteAll
  BY <1>4 DEF DeleteAll, StartDelete
<1>5. CASE Enqueue \/ EnqueueFails \/ WriteFallback
  BY <1>5 DEF Enqueue, EnqueueFails, WriteFallback, ghosts
<1>6. CASE Deliver \/ WriteFails \/ Outage \/ Recover \/ UNCHANGED vars
  BY <1>6 DEF Deliver, ReadBatch, WriteRow, RemoveRow, WriteFails, Outage, Recover, vars, ghosts
<1>7. CASE Read
  BY <1>7 DEF Read, ReadFallback, ReadPending, ReadTombstone, ReadRemote, RemoteFails,
     ReadAgain, ReadLocal, CloseHistory, Reads, ghosts
<1>8. CASE EndClear \/ ClearFails \/ DeleteFiles \/ RemoveSensor \/ Crash
  BY <1>8 DEF EndClear, ClearFails, DeleteFiles, RemoveSensor, Crash, ghosts
<1> QED BY <1>1, <1>2, <1>3, <1>4, <1>5, <1>6, <1>7, <1>8 DEF Next

\* What was held of a record that is not asked for is held after the step, of what there was.
LEMMA HeldOld ==
  ASSUME Single, KeptInv, [Next]_vars, NEW n \in accepted \ asked'
  PROVE  /\ Covers(fallback[1] \cup OutRecs' \cup DbRecs', n)
         /\ \A t \in Threads : pc[t] = "moving" /\ place[t] = 1 =>
              Covers(left[t] \cup OutRecs' \cup DbRecs', n)
         /\ written /\ FirstOf(batch).rec = n => n = None \/ Covers(DbRecs', n)
<1>1. NumbersOnly /\ n \in accepted \ asked
  BY OnlyNumbers, MoreAccepted DEF KeptInv, ClearInv
<1>2. Lasts(n)
  BY LastingStep
<1>3. Covers(fallback[1] \cup OutRecs' \cup DbRecs', n)
  BY <1>1, <1>2 DEF KeptInv, Held, Lasts, NumbersOnly
<1>4. ASSUME NEW t \in Threads, pc[t] = "moving" /\ place[t] = 1
      PROVE  Covers(left[t] \cup OutRecs' \cup DbRecs', n)
  BY <1>1, <1>2, <1>4 DEF KeptInv, Held, Lasts, NumbersOnly
<1>5. ASSUME written, FirstOf(batch).rec = n, n # None
      PROVE  Covers(DbRecs', n)
  <2>1. Covers({} \cup DbRecs, n)
    BY <1>1, <1>5 DEF KeptInv, Held
  <2>2. Covers({} \cup DbRecs', n)
    BY <1>2, <2>1 DEF Lasts
  <2> QED BY <2>2
<1> QED BY <1>3, <1>4, <1>5

\* The row that was written is in the database, or enough newer ones are.
Delivering ==
  written => LET n == FirstOf(batch).rec
             IN  n = None \/ n \in asked \/ Covers(DbRecs, n)

LEMMA DeliveringStep ==
  ASSUME Single, KeptInv, [Next]_vars
  PROVE  Delivering'
<1> USE DEF KeptInv, ClearInv, TypeOK
<1>1. ASSUME written, written', batch' = batch PROVE Delivering'
  <2> DEFINE n == FirstOf(batch).rec
  <2>1. FirstOf(batch) \in batch
    BY <1>1, FirstRow DEF Ids, WorkerTypes
  <2>2. n = None \/ n \in accepted
    BY <2>1 DEF Taken
  <2>3. n \in accepted \ asked' => n = None \/ Covers(DbRecs', n)
    BY <1>1, HeldOld
  <2>4. FirstOf(batch)' = FirstOf(batch)
    BY <1>1 DEF FirstOf
  <2> QED BY <2>2, <2>3, <2>4 DEF Delivering
<1>2. CASE ~written'
  BY <1>2 DEF Delivering
<1>3. ASSUME NEW t \in Threads, TakeFallback(t) \/ MoveOne(t) \/ EndMove(t) PROVE Delivering'
  BY <1>1, <1>2, <1>3 DEF TakeFallback, MoveOne, EndMove, worker
<1>4. ASSUME NEW i \in 1..Len(sensors), Measure(i) PROVE Delivering'
  BY <1>1, <1>2, <1>4 DEF Measure, worker
<1>5. CASE Enqueue \/ WriteFallback
  BY <1>1, <1>2, <1>5 DEF Enqueue, WriteFallback, worker
<1>6. CASE WriteRow
  <2> DEFINE n == FirstOf(batch).rec
  <2>1. batch # {} /\ batch' = batch /\ asked' = asked
    BY <1>6 DEF WriteRow, ghosts
  <2>2. FirstOf(batch) \in batch
    BY <2>1, FirstRow DEF WorkerTypes
  <2>3. n = None \/ n \in 1..Len(owner)
    BY <2>2 DEF Recorded
  <2>4. n \in (1..Len(owner)) \ asked => Covers(DbRecs', n)
    <3>1. DbRecs' \subseteq Numbers
      BY OnlyNumbersNext DEF NumbersOnly
    <3> QED BY <1>6, <3>1, DeliveredCovers
  <2>5. FirstOf(batch)' = FirstOf(batch)
    BY <2>1 DEF FirstOf
  <2> QED BY <2>1, <2>3, <2>4, <2>5 DEF Delivering
<1>7. CASE WriteFails \/ RemoveRow \/ Crash
  BY <1>2, <1>7 DEF WriteFails, RemoveRow, Crash
<1>8. CASE Removing
  BY <1>1, <1>2, <1>8, RemovingAll
<1>9. CASE Quiet
  BY <1>1, <1>2, <1>9 DEF Quiet
<1> QED BY <1>3, <1>4, <1>5, <1>6, <1>7, <1>8, <1>9, KindsOfSteps

LEMMA HeldStep ==
  ASSUME Single, KeptInv, [Next]_vars
  PROVE  Held'
<1> USE DEF KeptInv, ClearInv, TypeOK
<1> DEFINE Somewhere(F, n) == Covers(F \cup OutRecs' \cup DbRecs', n)
           Files == \A n \in accepted' \ asked' : Somewhere(fallback'[1], n)
           Moves == \A t \in Threads : pc'[t] = "moving" /\ place'[t] = 1 =>
                      \A n \in accepted' \ asked' : Somewhere(left'[t], n)
<1>0. SUFFICES Files /\ Moves
  BY DeliveringStep DEF Held, Delivering
<1>1. NumbersOnly /\ NumbersOnly'
  BY OnlyNumbers, OnlyNumbersNext
<1>2. \A n \in accepted \ asked' : n \in Nat
  BY TheNumbers DEF GhostTypes, Records
<1>3. ASSUME fallback'[1] = fallback[1], accepted' = accepted PROVE Files
  BY <1>3, HeldOld
<1>4. ASSUME \A t \in Threads : pc'[t] = "moving" => pc[t] = "moving",
             left' = left, place' = place, accepted' = accepted
      PROVE  Moves
  BY <1>4, HeldOld
<1> HIDE DEF Files, Moves
<1>5. ASSUME NEW t \in Threads, TakeFallback(t) PROVE Files /\ Moves
  <2>1. /\ fallback' = fallback /\ accepted' = accepted
        /\ \A s \in Threads : pc'[s] = "moving" => s = t
        /\ place'[t] = 1 => left'[t] = fallback[1]
    BY <1>5, MoveBegun DEF files
  <2>2. Files
    BY <1>3, <2>1
  <2>3. Moves
    BY <2>1, <2>2 DEF Files, Moves
  <2> QED BY <2>2, <2>3
<1>6. ASSUME NEW t \in Threads, MoveOne(t) PROVE Files /\ Moves
  <2>1. PICK m \in left[t] :
           /\ OutRecs' = OutRecs \cup {m}
           /\ \A s \in Threads : left'[s] \subseteq left[s] /\ left[s] \subseteq left'[s] \cup {m}
           /\ UNCHANGED <<pc, place, database, files, accepted>>
    BY <1>6, OneMoved
  <2>2. Files
    BY <1>3, <2>1 DEF files
  <2>3. ASSUME NEW s \in Threads, pc'[s] = "moving", place'[s] = 1,
               NEW n \in accepted' \ asked'
        PROVE  Somewhere(left'[s], n)
    <3> DEFINE S == left[s] \cup OutRecs' \cup DbRecs'
               W == left'[s] \cup OutRecs' \cup DbRecs'
    <3>1. Covers(S, n) /\ n \in Nat
      BY <1>2, <2>1, <2>3, HeldOld
    <3>2. S \in SUBSET W
      BY <2>1
    <3>3. W \in SUBSET Numbers
      BY <1>1 DEF NumbersOnly
    <3> HIDE DEF S, W
    <3>4. Covers(W, n)
      BY <3>1, <3>2, <3>3, CoversMore
    <3> QED BY <3>4 DEF W
  <2> QED BY <2>2, <2>3 DEF Moves
<1>7. ASSUME NEW t \in Threads, EndMove(t) PROVE Files /\ Moves
  <2>1. /\ fallback'[1] = IF place[t] = 1 THEN left[t] ELSE fallback[1]
        /\ \A s \in Threads : pc'[s] # "moving"
        /\ pc[t] = "moving" /\ accepted' = accepted
    BY <1>7, MoveEnded
  <2> QED BY <2>1, HeldOld DEF Files, Moves
<1>8. ASSUME NEW i \in 1..Len(sensors), Measure(i) PROVE Files /\ Moves
  BY <1>3, <1>4, <1>8, NewMeasured
<1>9. CASE Enqueue
  <2>1. /\ OutRecs' = OutRecs \cup {Len(owner)} /\ accepted' = accepted \cup {Len(owner)}
        /\ UNCHANGED <<place, left, files>>
        /\ \A t \in Threads : pc'[t] = "moving" => pc[t] = "moving"
    BY <1>9, NewQueued
  <2>2. \A F : Somewhere(F, Len(owner))
    BY <2>1 DEF Covers
  <2>3. fallback'[1] = fallback[1]
    BY <2>1 DEF files
  <2> HIDE DEF Somewhere
  <2>4. \A n \in accepted \ asked' : Somewhere(fallback[1], n)
    BY HeldOld DEF Somewhere
  <2>5. Files
    BY <2>1, <2>2, <2>3, <2>4 DEF Files
  <2>6. \A t \in Threads : pc[t] = "moving" /\ place[t] = 1 =>
          \A n \in accepted \ asked' : Somewhere(left[t], n)
    BY HeldOld DEF Somewhere
  <2>7. Moves
    BY <2>1, <2>2, <2>6 DEF Moves
  <2> QED BY <2>5, <2>7
<1>10. CASE WriteFallback
  <2>1. /\ \/ /\ fallback'[1] = Newest(fallback[1] \cup {Len(owner)})
              /\ accepted' = accepted \cup {Len(owner)}
           \/ UNCHANGED <<fallback, accepted>>
        /\ \A t \in Threads : pc'[t] # "moving"
    BY <1>10, FallbackWritten
  <2>2. ASSUME fallback'[1] = Newest(fallback[1] \cup {Len(owner)}),
               accepted' = accepted \cup {Len(owner)}, NEW n \in accepted' \ asked'
        PROVE  Somewhere(fallback'[1], n)
    <3> DEFINE F == OutRecs' \cup DbRecs'
               H == fallback[1] \cup {Len(owner)}
    <3>1. H \in SUBSET Numbers /\ F \in SUBSET Numbers /\ fallback[1] \in SUBSET Numbers
      BY <1>1 DEF NumbersOnly
    <3>2. n \in Nat
      BY <1>2, <2>2 DEF GhostTypes
    <3>3. Covers(F \cup H, n)
      <4>1. CASE n = Len(owner)
        BY <4>1 DEF Covers
      <4>2. CASE n \in accepted
        <5> DEFINE S == fallback[1] \cup OutRecs' \cup DbRecs'
                   V == F \cup H
        <5>1. Covers(S, n)
          BY <2>2, <4>2, HeldOld
        <5>2. S \in SUBSET V /\ V \in SUBSET Numbers
          BY <3>1
        <5> HIDE DEF S, V
        <5>3. Covers(V, n)
          BY <3>2, <5>1, <5>2, CoversMore
        <5> QED BY <5>3 DEF V
      <4> QED BY <2>2, <4>1, <4>2
    <3>4. Covers(F \cup Newest(H), n)
      <4> HIDE DEF F, H
      <4> QED BY <3>1, <3>2, <3>3, CoverNewest
    <3>5. F \cup Newest(H) = fallback'[1] \cup OutRecs' \cup DbRecs'
      BY <2>2
    <3> QED BY <3>4, <3>5
  <2>3. Files
    BY <1>3, <2>1, <2>2 DEF Files
  <2>4. Moves
    BY <2>1 DEF Moves
  <2> QED BY <2>3, <2>4
<1>11. CASE WriteRow \/ WriteFails
  BY <1>3, <1>4, <1>11 DEF WriteRow, WriteFails, files, threads, ghosts
<1>12. CASE RemoveRow
  BY <1>3, <1>4, <1>12 DEF RemoveRow, files, threads, ghosts
<1>13. CASE Removing
  BY <1>13, RemovingAll DEF Files, Moves
<1>14. CASE Quiet
  BY <1>3, <1>4, <1>14 DEF Quiet, files
<1>15. CASE Crash
  <2>1. Files
    BY <1>3, <1>15 DEF Crash, files, ghosts
  <2>2. Moves
    BY <1>15 DEF Crash, Moves
  <2> QED BY <2>1, <2>2
<1> QED BY <1>5, <1>6, <1>7, <1>8, <1>9, <1>10, <1>11, <1>12, <1>13, <1>14, <1>15, KindsOfSteps

LEMMA KeptAccepted == Single /\ KeptInv => AcceptedKept
<1> SUFFICES ASSUME Single, KeptInv, NEW n \in accepted \ asked
             PROVE  \/ n \in Pending(owner[n]) \cup InDatabase(owner[n])
                    \/ n \in At(fallback, PlaceOf(owner[n]))
                    \/ Enough(accepted \cap Of(owner[n]), n)
  BY DEF AcceptedKept, Enough
<1> USE DEF KeptInv, ClearInv, TypeOK
<1>1. n \in 1..Len(owner) /\ n # None /\ owner[n] \in Uid /\ n \in Nat
  BY DEF Recorded, None, GhostTypes
<1>2. owner[n] = InitialSensors[1]
  BY <1>1, OneUid
<1>3. sensors = InitialSensors /\ Len(sensors) = 1
  BY DEF Removal, Single
<1>4. PlaceOf(owner[n]) = 1
  <2>1. \A i \in 1..Len(sensors) : i = 1
    BY <1>3
  <2>2. 1 \in 1..Len(sensors) /\ sensors[1] = owner[n]
    BY <1>2, <1>3
  <2> QED BY <2>1, <2>2 DEF PlaceOf
<1>5. CASE n \in OutRecs
  <2>1. \A r \in outbox : r.uid = owner[n]
    BY <1>1, OneUid DEF QueueTypes, Rows
  <2> QED BY <1>1, <1>5, <2>1 DEF Pending, OutRecs
<1>6. CASE n \in DbRecs
  <2>1. \A s \in database : s.uid = owner[n]
    BY <1>1, OneUid DEF RemoteTypes
  <2> QED BY <1>6, <2>1 DEF InDatabase, DbRecs
<1>7. CASE n \in fallback[1]
  BY <1>4, <1>7 DEF At
<1> DEFINE S == fallback[1] \cup OutRecs \cup DbRecs
           T == accepted \cap Of(owner[n])
<1>8. CASE Enough(S, n)
  <2>1. T = accepted /\ T \in SUBSET Numbers
    <3>1. Of(owner[n]) = 1..Len(owner)
      BY <1>1, AllOf
    <3>2. NumbersOnly
      BY OnlyNumbers
    <3> QED BY <3>1, <3>2 DEF Recorded, NumbersOnly
  <2>2. S \subseteq accepted \cup {None}
    BY OneUid DEF Taken, OutRecs
  <2>3. \A m \in S : m > n => m \in T
    BY <1>1, <2>1, <2>2 DEF None
  <2> HIDE DEF S, T
  <2>4. Enough(T, n)
    BY <1>1, <1>8, <2>1, <2>3, MoreNewer
  <2> QED BY <2>4 DEF T
<1>9. Covers(S, n)
  BY DEF Held
<1> QED BY <1>5, <1>6, <1>7, <1>8, <1>9 DEF Covers

LEMMA KeptStep == ASSUME Single, KeptInv, [Next]_vars PROVE KeptInv'
  BY ClearStep, RecordedStep, PrefixStep, RemovalStep, AheadStep, YoungerStep, TakenStep,
     HeldStep DEF KeptInv

\* Nothing that was taken is lost: of one sensor, unless retention gives it up for enough
\* newer records, whatever is full, refused, unreachable or stopped (write_record,
\* process_pending_batch).
THEOREM AcceptedAreKept == Single => (Spec => []AcceptedKept)
<1> SUFFICES ASSUME Single PROVE Spec => []AcceptedKept
  OBVIOUS
<1>1. Init => KeptInv
  BY KeptInitially
<1>2. KeptInv /\ [Next]_vars => KeptInv'
  BY KeptStep
<1>3. KeptInv => AcceptedKept
  BY KeptAccepted
<1> QED BY <1>1, <1>2, <1>3, PTL DEF Spec

-----------------------------------------------------------------------------
(* A single sensor: no page shows what was cleared before it was opened. *)

Stored(n) == \E s \in database : s.rec = n

\* No local file has a record that was cleared.
LocalClean ==
  /\ \A i \in Index : history[i] \cap cleared = {}
  /\ task = "clear" => \A i \in Index : history[i] = {}

\* Once a page has found that no deletion waits, nothing that was cleared before is on its
\* way to the database.
PageClean ==
  /\ gone \subseteq cleared /\ shown \cap gone = {}
  /\ pc["reader"] \in {"idle", "requeue", "moving", "fallback"} => shown = {}
  /\ pc["reader"] = "remote" =>
       \A n \in gone : ~Stored(n) /\ \A r \in batch : r.rec # n

CleanInv == ClearInv /\ LocalClean /\ PageClean

LEMMA CleanInitially == Init => CleanInv
<1> SUFFICES ASSUME Init PROVE CleanInv
  OBVIOUS
<1>1. ClearInv
  BY ClearInitially
<1>2. LocalClean /\ PageClean
  BY DEF Init, LocalClean, PageClean, Index, Threads
<1> QED BY <1>1, <1>2 DEF CleanInv

LEMMA CleanRead == CleanInv => ReadClean
  BY DEF CleanInv, PageClean, ReadClean

LEMMA LocalCleanStep ==
  ASSUME Single, CleanInv, [Next]_vars
  PROVE  LocalClean'
<1> USE DEF CleanInv, ClearInv, TypeOK
<1>1. ASSUME NEW t \in Threads, TakeFallback(t)
      PROVE  LocalClean'
  BY <1>1 DEF TakeFallback, LocalClean, threads, files, queue, remote, worker, view, page,
     ghosts
<1>2. ASSUME NEW t \in Threads, MoveOne(t)
      PROVE  LocalClean'
  BY <1>2 DEF MoveOne, QueueInsert, LocalClean, threads, files, queue, remote, worker,
     view, page, ghosts
<1>3. ASSUME NEW t \in Threads, EndMove(t)
      PROVE  LocalClean'
  BY <1>3 DEF EndMove, Rest, Refused, LocalClean, threads, files, queue, remote, worker,
     view, page, ghosts
<1>4. ASSUME NEW i \in 1..Len(sensors), Measure(i)
      PROVE  LocalClean'
  <2>1. task # "clear" /\ UNCHANGED <<task, cleared>>
    BY <1>4 DEF Measure, DeleteLock, page
  <2>2. Len(owner') = Len(owner) + 1 /\ Len(owner) \in Nat
    BY <1>4 DEF Measure, GhostTypes
  <2>3. Len(owner') \notin cleared
    BY <2>2 DEF Known
  <2>4. \A k \in Index : history'[k] \subseteq history[k] \cup {Len(owner')}
    <3>1. \/ history' = history
          \/ history' = [history EXCEPT ![i] = Newest(@ \cup {Len(owner')})]
      BY <1>4 DEF Measure
    <3> QED BY <3>1, NewestSubset DEF FileTypes
  <2> QED BY <2>1, <2>3, <2>4 DEF LocalClean
<1>5. ASSUME NEW i \in 1..Len(sensors), OpenHistory(i)
      PROVE  LocalClean'
  BY <1>5 DEF OpenHistory, LocalClean, threads, files, queue, remote, worker, view, page,
     ghosts
<1>6. ASSUME NEW i \in 1..Len(sensors), StartClear(i)
      PROVE  LocalClean'
  <2>1. history' = Without(history, i) /\ cleared' = cleared
    BY <1>6 DEF StartClear
  <2>2. \A k \in Index : k = i
    BY OneUid, SensorsInRange
  <2>3. \A k \in Index : history'[k] = {}
    BY <2>1, <2>2 DEF Without
  <2> QED BY <2>3 DEF LocalClean
<1>7. ASSUME NEW i \in 1..Len(sensors), DeleteOne(i)
      PROVE  LocalClean'
  BY <1>7 DEF DeleteOne, StartDelete, LocalClean, threads, files, queue, remote, worker,
     view, page, ghosts
<1>8. CASE Enqueue
  BY <1>8 DEF Enqueue, LocalClean, threads, files, queue, remote, worker, view, page,
     ghosts
<1>9. CASE EnqueueFails
  BY <1>9 DEF EnqueueFails, Refused, LocalClean, threads, files, queue, remote, worker,
     view, page, ghosts
<1>10. CASE WriteFallback
  <2>1. task # "clear" /\ UNCHANGED <<task, cleared>>
    BY <1>10 DEF WriteFallback, Locks, Clearing, page
  <2>2. Len(owner) \notin cleared
    BY <1>10 DEF WriteFallback, Locks, Known
  <2> DEFINE p == PlaceOf(subject["writer"])
  <2>3. history' = [history EXCEPT ![p] = Newest(@ \cup {Len(owner)})]
    BY <1>10 DEF WriteFallback
  <2> HIDE DEF p
  <2>4. \A k \in Index : history'[k] \subseteq history[k] \cup {Len(owner)}
    BY <2>3, NewestSubset DEF FileTypes
  <2> QED BY <2>1, <2>2, <2>4 DEF LocalClean
<1>11. CASE ReadBatch
  BY <1>11 DEF ReadBatch, LocalClean, threads, files, queue, remote, worker, view, page,
     ghosts
<1>12. CASE WriteRow
  BY <1>12 DEF WriteRow, LocalClean, threads, files, queue, remote, worker, view, page,
     ghosts
<1>13. CASE RemoveRow
  BY <1>13 DEF RemoveRow, LocalClean, threads, files, queue, remote, worker, view, page,
     ghosts
<1>14. CASE WriteFails
  BY <1>14 DEF WriteFails, LocalClean, threads, files, queue, remote, worker, view, page,
     ghosts
<1>15. CASE Outage
  BY <1>15 DEF Outage, LocalClean, threads, files, queue, remote, worker, view, page,
     ghosts
<1>16. CASE Recover
  BY <1>16 DEF Recover, LocalClean, threads, files, queue, remote, worker, view, page,
     ghosts
<1>17. CASE Read
  BY <1>17 DEF Read, ReadFallback, ReadPending, ReadTombstone, ReadRemote, RemoteFails,
     ReadAgain, ReadLocal, CloseHistory, Reads, Viewed, LocalClean, threads, files, queue,
     remote, worker, view, page, ghosts
<1>18. CASE EndClear
  BY <1>18 DEF EndClear, LocalClean, threads, files, queue, remote, worker, view, page,
     ghosts
<1>19. CASE ClearFails
  BY <1>19 DEF ClearFails, LocalClean, threads, files, queue, remote, worker, view, page,
     ghosts
<1>20. CASE DeleteAll
  BY <1>20 DEF DeleteAll, StartDelete, LocalClean, threads, files, queue, remote, worker,
     view, page, ghosts
<1>21. CASE DeleteFiles
  BY <1>21 DEF DeleteFiles, Without, LocalClean, threads, files, queue, remote, worker,
     view, page, ghosts
<1>22. CASE RemoveSensor
  BY <1>22 DEF RemoveSensor, LocalClean, threads, files, queue, remote, worker, view,
     page, ghosts
<1>23. CASE Crash
  BY <1>23 DEF Crash, LocalClean, threads, files, queue, remote, worker, view, page,
     ghosts
<1>24. CASE UNCHANGED vars
  BY <1>24 DEF vars, LocalClean, threads, files, queue, remote, worker, view, page, ghosts
<1> QED BY <1>1, <1>2, <1>3, <1>4, <1>5, <1>6, <1>7, <1>8, <1>9, <1>10, <1>11, <1>12, <1>13,
       <1>14, <1>15, <1>16, <1>17, <1>18, <1>19, <1>20, <1>21, <1>22, <1>23, <1>24 DEF Next,
       Deliver

\* What the worker writes is the record of the first row that it has read.
LEMMA WritesOwn ==
  ASSUME ClearInv, WriteRow \/ WriteFails, NEW s \in database'
  PROVE  s \in database \/ \E r \in batch : r.rec = s.rec
<1> DEFINE r == FirstOf(batch)
<1>1. r \in batch
  BY FirstRow DEF WriteRow, WriteFails, ClearInv, TypeOK, WorkerTypes
<1>2. \/ database' = database
      \/ database' = Effect(r)
      \/ database' = Inserted(r)
  BY DEF WriteRow, WriteFails
<1> HIDE DEF r
<1>3. \A q \in Inserted(r) : q \in database \/ q.rec = r.rec
  BY DEF Inserted
<1>4. Effect(r) \subseteq database \/ Effect(r) \subseteq Inserted(r)
  BY DEF Effect, Trimmed
<1> QED BY <1>1, <1>2, <1>3, <1>4

\* Where a page looks for what was cleared, it finds a deletion that waits, or nothing.
LEMMA GoneElsewhere ==
  ASSUME Single, CleanInv, NEW n \in gone
  PROVE  /\ \A i \in Index : n \notin history[i] /\ n \notin fallback[i]
         /\ n \notin Pending(Viewed)
         /\ ~Tombstone(Viewed) => ~Stored(n) /\ \A r \in batch : r.rec # n
<1> USE DEF CleanInv, ClearInv, TypeOK
<1>1. n \in cleared
  BY DEF PageClean
<1>2. \A d \in outbox : d.uid = Viewed
  BY OneUid DEF QueueTypes, Rows, Viewed, ThreadTypes, Threads
<1>3. n \notin Pending(Viewed)
  BY <1>1 DEF Pending, Behind
<1>4. \A i \in Index : n \notin history[i] /\ n \notin fallback[i]
  BY <1>1 DEF LocalClean, Behind
<1>5. ~Tombstone(Viewed) => ~Stored(n) /\ \A r \in batch : r.rec # n
  BY <1>1, <1>2 DEF Tombstone, Behind, Stored
<1> QED BY <1>3, <1>4, <1>5

LEMMA PageCleanStep ==
  ASSUME Single, CleanInv, [Next]_vars
  PROVE  PageClean'
<1> USE DEF CleanInv, ClearInv, TypeOK
<1>1. ASSUME NEW t \in Threads, TakeFallback(t)
      PROVE  PageClean'
  <2>1. /\ UNCHANGED <<shown, gone, cleared, database, batch>> /\ pc[t] = "requeue"
        /\ pc' = [pc EXCEPT ![t] = "moving"]
    BY <1>1 DEF TakeFallback, view, ghosts, remote, worker
  <2>2. pc'["reader"] = pc["reader"] \/ (pc["reader"] = "requeue" /\ pc'["reader"] = "moving")
    BY <2>1 DEF ThreadTypes, Threads
  <2> QED BY <2>1, <2>2 DEF PageClean, Stored
<1>2. ASSUME NEW t \in Threads, MoveOne(t)
      PROVE  PageClean'
  BY <1>2 DEF MoveOne, QueueInsert, PageClean, Stored, ThreadTypes, Threads, threads,
     files, queue, remote, worker, view, page, ghosts
<1>3. ASSUME NEW t \in Threads, EndMove(t)
      PROVE  PageClean'
  <2>1. /\ UNCHANGED <<shown, gone, cleared, database, batch>> /\ pc[t] = "moving"
        /\ pc' = [pc EXCEPT ![t] = IF t = "writer" THEN "enqueue" ELSE "fallback"]
    BY <1>3 DEF EndMove, view, ghosts, remote, worker
  <2>2. pc'["reader"] = pc["reader"] \/ (pc["reader"] = "moving" /\ pc'["reader"] = "fallback")
    BY <2>1 DEF ThreadTypes, Threads
  <2> QED BY <2>1, <2>2 DEF PageClean, Stored
<1>4. ASSUME NEW i \in 1..Len(sensors), Measure(i)
      PROVE  PageClean'
  BY <1>4 DEF Measure, PageClean, Stored, ThreadTypes, Threads, threads, files, queue,
     remote, worker, view, page, ghosts
<1>5. ASSUME NEW i \in 1..Len(sensors), OpenHistory(i)
      PROVE  PageClean'
  BY <1>5 DEF OpenHistory, PageClean, Stored, ThreadTypes, Threads, threads, files, queue,
     remote, worker, view, page, ghosts
<1>6. ASSUME NEW i \in 1..Len(sensors), StartClear(i)
      PROVE  PageClean'
  BY <1>6 DEF StartClear, Without, PageClean, Stored, ThreadTypes, Threads, threads,
     files, queue, remote, worker, view, page, ghosts
<1>7. ASSUME NEW i \in 1..Len(sensors), DeleteOne(i)
      PROVE  PageClean'
  BY <1>7 DEF DeleteOne, StartDelete, PageClean, Stored, ThreadTypes, Threads, threads,
     files, queue, remote, worker, view, page, ghosts
<1>8. CASE Enqueue
  BY <1>8 DEF Enqueue, PageClean, Stored, ThreadTypes, Threads, threads, files, queue,
     remote, worker, view, page, ghosts
<1>9. CASE EnqueueFails
  BY <1>9 DEF EnqueueFails, Refused, PageClean, Stored, ThreadTypes, Threads, threads,
     files, queue, remote, worker, view, page, ghosts
<1>10. CASE WriteFallback
  BY <1>10 DEF WriteFallback, PageClean, Stored, ThreadTypes, Threads, threads, files,
     queue, remote, worker, view, page, ghosts
<1>11. CASE ReadBatch
  <2>1. batch' \subseteq outbox /\ UNCHANGED <<pc, shown, gone, cleared, database>>
    BY <1>11 DEF ReadBatch, view, ghosts, remote, threads
  <2>2. \A n \in gone : \A r \in outbox : r.rec # n
    BY DEF PageClean, Behind
  <2> QED BY <2>1, <2>2 DEF PageClean, Stored
<1>12. CASE WriteRow
  <2>1. batch' = batch /\ UNCHANGED <<pc, shown, gone, cleared>>
    BY <1>12 DEF WriteRow, view, ghosts, threads
  <2>2. pc["reader"] = "remote" => \A n \in gone : ~Stored(n)'
    BY <1>12, WritesOwn DEF PageClean, Stored
  <2> QED BY <2>1, <2>2 DEF PageClean
<1>13. CASE RemoveRow
  BY <1>13 DEF RemoveRow, PageClean, Stored, ThreadTypes, Threads, threads, files, queue,
     remote, worker, view, page, ghosts
<1>14. CASE WriteFails
  <2>1. batch' = {} /\ UNCHANGED <<pc, shown, gone, cleared>>
    BY <1>14 DEF WriteFails, view, ghosts, threads
  <2>2. pc["reader"] = "remote" => \A n \in gone : ~Stored(n)'
    BY <1>14, WritesOwn DEF PageClean, Stored
  <2> QED BY <2>1, <2>2 DEF PageClean
<1>15. CASE Outage
  BY <1>15 DEF Outage, PageClean, Stored, ThreadTypes, Threads, threads, files, queue,
     remote, worker, view, page, ghosts
<1>16. CASE Recover
  BY <1>16 DEF Recover, PageClean, Stored, ThreadTypes, Threads, threads, files, queue,
     remote, worker, view, page, ghosts
<1>17. CASE Read
  <2>1. UNCHANGED <<outbox, batch, database, cleared>> /\ (gone' = gone \/ gone' = {})
    BY <1>17 DEF Read, ReadFallback, ReadPending, ReadTombstone, ReadRemote, RemoteFails,
       ReadAgain, ReadLocal, CloseHistory, Reads, queue, remote, worker, ghosts
  <2>2. \A S : Newest(S) \subseteq S
    BY NewestSubset
  <2>3. \A n \in gone : /\ \A i \in Index : n \notin history[i] /\ n \notin fallback[i]
                        /\ n \notin Pending(Viewed)
                        /\ (~Tombstone(Viewed) => ~Stored(n) /\ \A r \in batch : r.rec # n)
    BY GoneElsewhere
  <2>4. \A n \in gone : /\ n \notin At(history, PlaceOf(Viewed))
                        /\ n \notin At(fallback, PlaceOf(Viewed))
    BY <2>3, PlaceInRange, SensorsInRange DEF At
  <2>5. /\ shown' \cap gone' = {}
        /\ pc'["reader"] \in {"idle", "requeue", "moving", "fallback"} => shown' = {}
        /\ pc'["reader"] = "remote" =>
             \A n \in gone' : ~Stored(n) /\ \A r \in batch : r.rec # n
    <3>1. CASE ReadFallback
      BY <3>1, <2>4 DEF ReadFallback, Reads, ThreadTypes, Threads
    <3>2. CASE ReadPending
      BY <3>2, <2>3 DEF ReadPending, Reads, ThreadTypes, Threads, PageClean
    <3>3. CASE ReadTombstone
      BY <3>3, <2>2, <2>3 DEF ReadTombstone, Reads, ThreadTypes, Threads, PageClean
    <3>4. CASE ReadRemote
      <4>1. \A n \in gone : n \notin InDatabase(Viewed)
        BY <3>4 DEF ReadRemote, Reads, PageClean, Stored, InDatabase
      <4>2. \A n \in gone : n \notin Newest(shown \cup Newest(InDatabase(Viewed)))
        BY <4>1, <2>2 DEF PageClean
      <4> QED BY <3>4, <4>2 DEF ReadRemote, Reads, ThreadTypes, Threads
    <3>5. CASE RemoteFails
      BY <3>5 DEF RemoteFails, ThreadTypes, Threads
    <3>6. CASE ReadAgain
      BY <3>6, <2>3 DEF ReadAgain, Reads, ThreadTypes, Threads
    <3>7. CASE ReadLocal
      BY <3>7, <2>2, <2>4 DEF ReadLocal, Reads, ThreadTypes, Threads, PageClean
    <3>8. CASE CloseHistory
      BY <3>8 DEF CloseHistory, ThreadTypes, Threads
    <3> QED BY <1>17, <3>1, <3>2, <3>3, <3>4, <3>5, <3>6, <3>7, <3>8 DEF Read
  <2> QED BY <2>1, <2>5 DEF PageClean, Stored
<1>18. CASE EndClear
  BY <1>18 DEF EndClear, PageClean, Stored, ThreadTypes, Threads, threads, files, queue,
     remote, worker, view, page, ghosts
<1>19. CASE ClearFails
  BY <1>19 DEF ClearFails, PageClean, Stored, ThreadTypes, Threads, threads, files, queue,
     remote, worker, view, page, ghosts
<1>20. CASE DeleteAll
  BY <1>20 DEF DeleteAll, StartDelete, PageClean, Stored, ThreadTypes, Threads, threads,
     files, queue, remote, worker, view, page, ghosts
<1>21. CASE DeleteFiles
  BY <1>21 DEF DeleteFiles, Without, PageClean, Stored, ThreadTypes, Threads, threads,
     files, queue, remote, worker, view, page, ghosts
<1>22. CASE RemoveSensor
  BY <1>22 DEF RemoveSensor, PageClean, Stored, ThreadTypes, Threads, threads, files,
     queue, remote, worker, view, page, ghosts
<1>23. CASE Crash
  BY <1>23 DEF Crash, PageClean, Stored, ThreadTypes, Threads, threads, files, queue,
     remote, worker, view, page, ghosts
<1>24. CASE UNCHANGED vars
  BY <1>24 DEF vars, PageClean, Stored, ThreadTypes, Threads, threads, files, queue,
     remote, worker, view, page, ghosts
<1> QED BY <1>1, <1>2, <1>3, <1>4, <1>5, <1>6, <1>7, <1>8, <1>9, <1>10, <1>11, <1>12, <1>13,
       <1>14, <1>15, <1>16, <1>17, <1>18, <1>19, <1>20, <1>21, <1>22, <1>23, <1>24 DEF Next,
       Deliver

\* No page shows what was cleared before it was opened, whatever the outbox and the worker
\* still have of it (read_records, clear_records).
THEOREM ReadsClean == Single => (Spec => []ReadClean)
<1> SUFFICES ASSUME Single PROVE Spec => []ReadClean
  OBVIOUS
<1>1. Init => CleanInv
  BY CleanInitially
<1>2. CleanInv /\ [Next]_vars => CleanInv'
  BY ClearStep, LocalCleanStep, PageCleanStep DEF CleanInv
<1>3. CleanInv => ReadClean
  BY CleanRead
<1> QED BY <1>1, <1>2, <1>3, PTL DEF Spec

-----------------------------------------------------------------------------
(* A single sensor: a page shows all there was. *)

\* The local file has whatever is or was in the fallback file, and all there is where it
\* is kept beside the database, or enough newer records.
InLocalFile ==
  /\ \A n \in fallback[1] \ asked : Covers(history[1], n)
  /\ \A t \in Threads : \A n \in left[t] \ asked : Covers(history[1], n)
  /\ storage = "both" =>
       /\ \A n \in accepted \ asked : Covers(history[1], n)
       /\ pc["writer"] # "idle" => Covers(history[1], Len(owner))

\* How far a page has got: what it has not seen is where it has still to look, and records
\* move towards the database in the same order as the page.
Seen ==
  /\ since \subseteq accepted
  /\ pc["reader"] \in {"retry", "local"} => failed
  /\ \A n \in since \ asked :
       /\ pc["reader"] = "pending" => Covers(shown \cup OutRecs \cup DbRecs, n)
       /\ pc["reader"] \in {"deleted", "remote"} => Covers(shown \cup DbRecs, n)
       /\ pc["reader"] = "local" => Covers(shown \cup history[1], n) \/ Absent(n)
       /\ pc["reader"] = "shown" =>
            Covers(shown, n) \/ (failed /\ storage = "database" /\ Absent(n))

CompleteInv == KeptInv /\ InLocalFile /\ Seen

LEMMA CompleteInitially == Init => CompleteInv
<1> SUFFICES ASSUME Init PROVE CompleteInv
  OBVIOUS
<1>1. KeptInv
  BY KeptInitially
<1>2. 1 \in Index
  BY SensorAssumption DEF Index
<1>3. InLocalFile /\ Seen
  BY <1>2 DEF Init, InLocalFile, Seen, Threads
<1> QED BY <1>1, <1>3 DEF CompleteInv

\* So it is while a page looks, as long as there is a record that nobody asked to remove.
LEMMA ViewedPlace ==
  ASSUME Single, KeptInv, ~(accepted \subseteq asked)
  PROVE  PlaceOf(Viewed) = 1
<1> USE DEF KeptInv, ClearInv, TypeOK
<1>1. sensors = InitialSensors /\ Len(sensors) = 1
  <2>1. sensors = InitialSensors
    BY DEF Removal
  <2> QED BY <2>1 DEF Single
<1>2. Viewed = InitialSensors[1]
  BY OneUid DEF ThreadTypes, Threads, Viewed
<1>3. 1 \in 1..Len(sensors) /\ sensors[1] = Viewed
  BY <1>1, <1>2
<1>4. \A j \in 1..Len(sensors) : j = 1
  BY <1>1
<1> QED BY <1>3, <1>4 DEF PlaceOf

\* What the local file covers it goes on to cover, and the record that is written to it.
LEMMA LocalLasts ==
  ASSUME Single, KeptInv, [Next]_vars, NEW n \in accepted \ asked', Covers(history[1], n)
  PROVE  Covers(history'[1], n)
<1>1. Covers({} \cup history[1], n) /\ Lasts(n)
  BY LastingStep
<1>2. Covers({} \cup history'[1], n)
  BY <1>1 DEF Lasts
<1> QED BY <1>2

LEMMA LocalWritten ==
  ASSUME NEW H \in SUBSET Numbers, NEW n \in Numbers
  PROVE  Covers(Newest(H \cup {n}), n)
<1> DEFINE S == H \cup {n}
<1>1. Covers({} \cup S, n) /\ S \in SUBSET Numbers /\ n \in Nat
  BY TheNumbers DEF Covers
<1> HIDE DEF S
<1>2. Covers({} \cup Newest(S), n)
  BY <1>1, CoverNewest
<1> QED BY <1>2 DEF S

LEMMA InLocalFileStep ==
  ASSUME Single, CompleteInv, [Next]_vars
  PROVE  InLocalFile'
<1> USE DEF CompleteInv, KeptInv, ClearInv, TypeOK
<1>0. NumbersOnly /\ NumbersOnly' /\ asked \subseteq asked'
  BY OnlyNumbers, OnlyNumbersNext, MoreAccepted
<1>1. ASSUME NEW t \in Threads, TakeFallback(t) PROVE InLocalFile'
  <2>1. /\ left'[t] \subseteq fallback[1] /\ \A s \in Threads : s # t => left'[s] = left[s]
        /\ UNCHANGED <<files, accepted, asked, owner, storage>>
        /\ pc'["writer"] # "idle" => pc["writer"] # "idle"
    BY <1>1, MoveBegun
  <2> QED BY <2>1 DEF InLocalFile, files
<1>2. ASSUME NEW t \in Threads, MoveOne(t) PROVE InLocalFile'
  <2>1. /\ \A s \in Threads : left'[s] \subseteq left[s]
        /\ UNCHANGED <<pc, files, accepted, asked, owner, storage>>
    BY <1>2, OneMoved
  <2> QED BY <2>1 DEF InLocalFile, files
<1>3. ASSUME NEW t \in Threads, EndMove(t) PROVE InLocalFile'
  <2>1. /\ fallback'[1] = left[t] \/ fallback'[1] = fallback[1]
        /\ \A s \in Threads : left'[s] \subseteq left[s]
        /\ UNCHANGED <<history, accepted, asked, owner, storage>>
        /\ pc'["writer"] # "idle" => pc["writer"] # "idle"
    BY <1>3, MoveEnded
  <2> QED BY <2>1 DEF InLocalFile
<1>4. ASSUME NEW i \in 1..Len(sensors), Measure(i) PROVE InLocalFile'
  <2>1. /\ history'[1] = IF storage = "both" THEN Newest(history[1] \cup {Len(owner')})
                         ELSE history[1]
        /\ UNCHANGED <<fallback, left, accepted, asked, storage>>
    BY <1>4, NewMeasured
  <2>2. \A n \in accepted \ asked : Covers(history[1], n) => Covers(history'[1], n)
    BY <2>1, LocalLasts
  <2>3. storage = "both" => Covers(history'[1], Len(owner'))
    BY <1>0, <2>1, LocalWritten DEF NumbersOnly
  <2>4. fallback[1] \subseteq accepted /\ \A t \in Threads : left[t] \subseteq accepted
    BY OneUid DEF Taken
  <2> QED BY <2>1, <2>2, <2>3, <2>4 DEF InLocalFile
<1>5. CASE Enqueue
  <2>1. /\ accepted' = accepted \cup {Len(owner)}
        /\ UNCHANGED <<left, files, asked, owner, storage>>
        /\ pc["writer"] # "idle" /\ pc'["writer"] = "idle"
    BY <1>5, NewQueued
  <2> QED BY <2>1 DEF InLocalFile, files
<1>6. CASE WriteFallback
  <2>1. /\ history'[1] = Newest(history[1] \cup {Len(owner)})
        /\ fallback'[1] \subseteq fallback[1] \cup {Len(owner)}
        /\ accepted' \subseteq accepted \cup {Len(owner)}
        /\ UNCHANGED <<left, asked, storage>>
        /\ pc'["writer"] = "idle"
    BY <1>6, FallbackWritten, NewestSubset
  <2>2. \A n \in accepted \ asked : Covers(history[1], n) => Covers(history'[1], n)
    BY <2>1, LocalLasts
  <2>3. Covers(history'[1], Len(owner))
    BY <1>0, <2>1, LocalWritten DEF NumbersOnly
  <2>4. fallback[1] \subseteq accepted /\ \A t \in Threads : left[t] \subseteq accepted
    BY OneUid DEF Taken
  <2> QED BY <2>1, <2>2, <2>3, <2>4 DEF InLocalFile
<1>7. CASE WriteRow \/ WriteFails
  BY <1>7 DEF WriteRow, WriteFails, InLocalFile, files, threads, ghosts
<1>8. CASE RemoveRow
  BY <1>8 DEF RemoveRow, InLocalFile, files, threads, ghosts
<1>9. CASE Removing
  <2>1. /\ accepted \subseteq asked' /\ fallback'[1] \subseteq fallback[1]
        /\ UNCHANGED <<pc, left, accepted>> /\ pc["writer"] = "idle"
    BY <1>9, RemovingAll
  <2>2. fallback[1] \subseteq accepted /\ \A t \in Threads : left[t] \subseteq accepted
    BY OneUid DEF Taken
  <2> QED BY <2>1, <2>2 DEF InLocalFile
<1>10. CASE Quiet
  BY <1>10 DEF Quiet, InLocalFile, files
<1>11. CASE Crash
  <2>1. /\ UNCHANGED <<files, accepted, asked, storage>> /\ pc'["writer"] = "idle"
        /\ \A t \in Threads : left'[t] = {}
    BY <1>11 DEF Crash, ghosts, Threads
  <2> QED BY <2>1 DEF InLocalFile, files
<1> QED BY <1>1, <1>2, <1>3, <1>4, <1>5, <1>6, <1>7, <1>8, <1>9, <1>10, <1>11, KindsOfSteps

\* A page that has begun to look only goes on by a step of its own.
Looking == pc["reader"] \in {"pending", "deleted", "remote", "retry", "local", "shown"}
Waits == UNCHANGED <<pc["reader"], since, shown, failed, storage>>

LEMMA PageAlone ==
  ASSUME TypeOK, [Next]_vars
  PROVE  Waits \/ Read \/ (~Looking' /\ since' \subseteq since \cup accepted)
<1> USE DEF TypeOK
<1>1. ASSUME NEW t \in Threads, TakeFallback(t)
      PROVE  Waits \/ Read \/ (~Looking' /\ since' \subseteq since \cup accepted)
  BY <1>1 DEF TakeFallback, Waits, Looking, ThreadTypes, Threads, threads, files, queue,
     remote, worker, view, page, ghosts
<1>2. ASSUME NEW t \in Threads, MoveOne(t)
      PROVE  Waits \/ Read \/ (~Looking' /\ since' \subseteq since \cup accepted)
  BY <1>2 DEF MoveOne, QueueInsert, Waits, Looking, ThreadTypes, Threads, threads, files,
     queue, remote, worker, view, page, ghosts
<1>3. ASSUME NEW t \in Threads, EndMove(t)
      PROVE  Waits \/ Read \/ (~Looking' /\ since' \subseteq since \cup accepted)
  BY <1>3 DEF EndMove, Rest, Refused, Waits, Looking, ThreadTypes, Threads, threads,
     files, queue, remote, worker, view, page, ghosts
<1>4. ASSUME NEW i \in 1..Len(sensors), Measure(i)
      PROVE  Waits \/ Read \/ (~Looking' /\ since' \subseteq since \cup accepted)
  BY <1>4 DEF Measure, Waits, Looking, ThreadTypes, Threads, threads, files, queue,
     remote, worker, view, page, ghosts
<1>5. ASSUME NEW i \in 1..Len(sensors), OpenHistory(i)
      PROVE  Waits \/ Read \/ (~Looking' /\ since' \subseteq since \cup accepted)
  BY <1>5 DEF OpenHistory, Waits, Looking, ThreadTypes, Threads, threads, files, queue,
     remote, worker, view, page, ghosts
<1>6. ASSUME NEW i \in 1..Len(sensors), StartClear(i)
      PROVE  Waits \/ Read \/ (~Looking' /\ since' \subseteq since \cup accepted)
  BY <1>6 DEF StartClear, Without, Waits, Looking, ThreadTypes, Threads, threads, files,
     queue, remote, worker, view, page, ghosts
<1>7. ASSUME NEW i \in 1..Len(sensors), DeleteOne(i)
      PROVE  Waits \/ Read \/ (~Looking' /\ since' \subseteq since \cup accepted)
  BY <1>7 DEF DeleteOne, StartDelete, Waits, Looking, ThreadTypes, Threads, threads,
     files, queue, remote, worker, view, page, ghosts
<1>8. CASE Enqueue
  BY <1>8 DEF Enqueue, Waits, Looking, ThreadTypes, Threads, threads, files, queue,
     remote, worker, view, page, ghosts
<1>9. CASE EnqueueFails
  BY <1>9 DEF EnqueueFails, Refused, Waits, Looking, ThreadTypes, Threads, threads, files,
     queue, remote, worker, view, page, ghosts
<1>10. CASE WriteFallback
  BY <1>10 DEF WriteFallback, Waits, Looking, ThreadTypes, Threads, threads, files, queue,
     remote, worker, view, page, ghosts
<1>11. CASE ReadBatch
  BY <1>11 DEF ReadBatch, Waits, Looking, ThreadTypes, Threads, threads, files, queue,
     remote, worker, view, page, ghosts
<1>12. CASE WriteRow
  BY <1>12 DEF WriteRow, Waits, Looking, ThreadTypes, Threads, threads, files, queue,
     remote, worker, view, page, ghosts
<1>13. CASE RemoveRow
  BY <1>13 DEF RemoveRow, Waits, Looking, ThreadTypes, Threads, threads, files, queue,
     remote, worker, view, page, ghosts
<1>14. CASE WriteFails
  BY <1>14 DEF WriteFails, Waits, Looking, ThreadTypes, Threads, threads, files, queue,
     remote, worker, view, page, ghosts
<1>15. CASE Outage
  BY <1>15 DEF Outage, Waits, Looking, ThreadTypes, Threads, threads, files, queue,
     remote, worker, view, page, ghosts
<1>16. CASE Recover
  BY <1>16 DEF Recover, Waits, Looking, ThreadTypes, Threads, threads, files, queue,
     remote, worker, view, page, ghosts
<1>17. CASE Read
  BY <1>17
<1>18. CASE EndClear
  BY <1>18 DEF EndClear, Waits, Looking, ThreadTypes, Threads, threads, files, queue,
     remote, worker, view, page, ghosts
<1>19. CASE ClearFails
  BY <1>19 DEF ClearFails, Waits, Looking, ThreadTypes, Threads, threads, files, queue,
     remote, worker, view, page, ghosts
<1>20. CASE DeleteAll
  BY <1>20 DEF DeleteAll, StartDelete, Waits, Looking, ThreadTypes, Threads, threads,
     files, queue, remote, worker, view, page, ghosts
<1>21. CASE DeleteFiles
  BY <1>21 DEF DeleteFiles, Without, Waits, Looking, ThreadTypes, Threads, threads, files,
     queue, remote, worker, view, page, ghosts
<1>22. CASE RemoveSensor
  BY <1>22 DEF RemoveSensor, Waits, Looking, ThreadTypes, Threads, threads, files, queue,
     remote, worker, view, page, ghosts
<1>23. CASE Crash
  BY <1>23 DEF Crash, Waits, Looking, ThreadTypes, Threads, threads, files, queue, remote,
     worker, view, page, ghosts
<1>24. CASE UNCHANGED vars
  BY <1>24 DEF vars, Waits, Looking, ThreadTypes, Threads, threads, files, queue, remote,
     worker, view, page, ghosts
<1> QED BY <1>1, <1>2, <1>3, <1>4, <1>5, <1>6, <1>7, <1>8, <1>9, <1>10, <1>11, <1>12, <1>13,
       <1>14, <1>15, <1>16, <1>17, <1>18, <1>19, <1>20, <1>21, <1>22, <1>23, <1>24 DEF Next,
       Deliver

\* A step of the page itself.
LEMMA SeenRead ==
  ASSUME Single, CompleteInv, Read
  PROVE  Seen'
<1> USE DEF CompleteInv, KeptInv, ClearInv, TypeOK
<1>1. /\ UNCHANGED <<outbox, database, history, fallback, accepted, asked, storage>>
      /\ OutRecs' = OutRecs /\ DbRecs' = DbRecs /\ UNCHANGED left
      /\ since' \subseteq since
  BY DEF Read, ReadFallback, ReadPending, ReadTombstone, ReadRemote, RemoteFails, ReadAgain,
     ReadLocal, CloseHistory, Reads, queue, remote, files, ghosts, OutRecs, DbRecs
<1>2. NumbersOnly
  BY OnlyNumbers
<1>3. \A n \in since \ asked :
        n \in accepted \ asked /\ n # None /\ n \in Nat /\ n \in (1..Len(owner)) \ asked
  <2>1. since \ asked \subseteq (1..Len(owner)) \ asked /\ since \subseteq accepted
    BY DEF Seen, Recorded
  <2>2. \A n \in 1..Len(owner) : n # None /\ n \in Nat
    BY DEF None, GhostTypes
  <2> QED BY <2>1, <2>2
<1>4. Pending(Viewed) = OutRecs \ {None} /\ InDatabase(Viewed) = DbRecs
  <2>1. /\ \A r \in outbox : r.uid = Viewed
        /\ \A s \in database : s.uid = Viewed
    BY OneUid DEF QueueTypes, RemoteTypes, Rows, Viewed, ThreadTypes, Threads
  <2> QED BY <2>1 DEF Pending, InDatabase, OutRecs, DbRecs
<1>5. CASE ReadFallback
  <2>1. \A n \in since \ asked : Covers(fallback[1] \cup OutRecs \cup DbRecs, n)
    BY <1>3 DEF Held
  <2>2. \A n \in since \ asked : PlaceOf(Viewed) = 1
    BY <1>3, ViewedPlace
  <2>3. pc'["reader"] = "pending" /\ shown' = At(fallback, PlaceOf(Viewed))
    BY <1>5 DEF ReadFallback, Reads, ThreadTypes, Threads
  <2>4. \A n \in since \ asked : shown' = fallback[1]
    BY <2>2, <2>3 DEF At
  <2> QED BY <1>1, <2>1, <2>3, <2>4 DEF Seen
<1>6. CASE ReadPending
  <2>1. /\ pc["reader"] = "pending" /\ pc'["reader"] = "deleted"
        /\ shown' = shown \cup Pending(Viewed)
    BY <1>6 DEF ReadPending, Reads, ThreadTypes, Threads
  <2>2. ASSUME NEW n \in since \ asked PROVE Covers(shown' \cup DbRecs, n)
    <3> DEFINE V == shown \cup OutRecs \cup DbRecs
               W == shown \cup Pending(Viewed) \cup DbRecs
    <3>1. V \in SUBSET Numbers /\ W \in SUBSET Numbers /\ n \in Nat /\ Covers(V, n)
      BY <1>2, <1>3, <1>4, <2>1 DEF NumbersOnly, Seen
    <3>2. \A m \in V : m >= n => m \in W
      BY <1>3, <1>4 DEF None
    <3> HIDE DEF V, W
    <3>3. Covers(W, n)
      BY <3>1, <3>2, CoverStep
    <3> QED BY <2>1, <3>3 DEF W
  <2> QED BY <1>1, <2>1, <2>2 DEF Seen
<1>7. CASE ReadTombstone
  <2>1. /\ pc["reader"] = "deleted"
        /\ IF Tombstone(Viewed) THEN pc'["reader"] = "shown" /\ shown' = Newest(shown)
           ELSE pc'["reader"] = "remote" /\ shown' = shown
    BY <1>7 DEF ReadTombstone, Reads, ThreadTypes, Threads
  <2>2. \A n \in since \ asked : Covers(shown \cup DbRecs, n)
    BY <2>1 DEF Seen
  <2>3. CASE ~Tombstone(Viewed)
    BY <1>1, <2>1, <2>2, <2>3 DEF Seen
  <2>4. CASE Tombstone(Viewed)
    <3>1. ASSUME NEW n \in since \ asked PROVE Covers(shown', n)
      <4>1. DbRecs \subseteq asked
        BY <2>4 DEF Ahead, Tombstone, Recorded, DbRecs
      <4>2. \A m \in shown \cup DbRecs : m >= n => m \in shown
        BY <1>2, <1>3, <4>1, NotAsked, TheNumbers DEF NumbersOnly
      <4>3. /\ shown \cup DbRecs \in SUBSET Numbers /\ {} \cup shown \in SUBSET Numbers
            /\ n \in Nat /\ shown \in SUBSET Numbers /\ {} \in SUBSET Numbers
        BY <1>2, <1>3 DEF NumbersOnly
      <4>4. Covers({} \cup shown, n)
        BY <2>2, <4>2, <4>3, CoverStep
      <4>5. Covers({} \cup Newest(shown), n)
        BY <4>3, <4>4, CoverNewest
      <4> QED BY <2>1, <2>4, <4>5
    <3> QED BY <1>1, <2>1, <2>4, <3>1 DEF Seen
  <2> QED BY <2>3, <2>4
<1>8. CASE ReadRemote
  <2>1. /\ pc["reader"] = "remote" /\ pc'["reader"] = "shown"
        /\ shown' = Newest(shown \cup Newest(DbRecs))
    BY <1>4, <1>8 DEF ReadRemote, Reads, ThreadTypes, Threads
  <2>2. ASSUME NEW n \in since \ asked PROVE Covers(shown', n)
    <3> DEFINE S == shown \cup Newest(DbRecs)
    <3>1. /\ shown \in SUBSET Numbers /\ DbRecs \in SUBSET Numbers /\ S \in SUBSET Numbers
          /\ n \in Nat /\ {} \in SUBSET Numbers
      BY <1>2, <1>3, NewestSubset DEF NumbersOnly
    <3>2. Covers(shown \cup DbRecs, n)
      BY <2>1 DEF Seen
    <3>3. Covers({} \cup S, n)
      BY <3>1, <3>2, CoverNewest
    <3> HIDE DEF S
    <3>4. Covers({} \cup Newest(S), n)
      BY <3>1, <3>3, CoverNewest
    <3> QED BY <2>1, <3>4 DEF S
  <2> QED BY <1>1, <2>1, <2>2 DEF Seen
<1>9. CASE RemoteFails
  <2>1. pc'["reader"] = "retry" /\ failed'
    BY <1>9 DEF RemoteFails, ThreadTypes, Threads
  <2> QED BY <1>1, <2>1 DEF Seen
<1>10. CASE ReadAgain
  <2>1. /\ pc["reader"] = "retry" /\ pc'["reader"] = "local" /\ failed' = failed
        /\ shown' = OutRecs \ {None}
    BY <1>4, <1>10 DEF ReadAgain, Reads, ThreadTypes, Threads
  <2>2. ASSUME NEW n \in since \ asked, ~Absent(n)
        PROVE  Covers(shown' \cup history[1], n)
    <3>1. CASE n \in OutRecs
      BY <1>3, <2>1, <3>1 DEF Covers
    <3>2. CASE n \notin OutRecs
      <4> DEFINE S == shown' \cup history[1]
      <4>1. Covers(history[1], n)
        BY <2>2, <3>2 DEF Absent, InLocalFile
      <4>2. S \in SUBSET Numbers /\ history[1] \in SUBSET S /\ n \in Nat
        BY <1>2, <1>3, <2>1 DEF NumbersOnly
      <4> HIDE DEF S
      <4>3. Covers(S, n)
        BY <4>1, <4>2, CoversMore
      <4> QED BY <4>3 DEF S
    <3> QED BY <3>1, <3>2
  <2>3. \A n : Absent(n) => Absent(n)'
    BY <1>1 DEF Absent
  <2> QED BY <1>1, <2>1, <2>2, <2>3 DEF Seen
<1>11. CASE ReadLocal
  <2>1. /\ pc["reader"] = "local" /\ pc'["reader"] = "shown" /\ failed' = failed
        /\ shown' = Newest(shown \cup At(history, PlaceOf(Viewed)))
    BY <1>11 DEF ReadLocal, Reads, ThreadTypes, Threads
  <2>2. ASSUME NEW n \in since \ asked
        PROVE  Covers(shown', n) \/ (failed /\ storage = "database" /\ Absent(n))
    <3> DEFINE S == shown \cup history[1]
    <3>1. shown' = Newest(S)
      <4>1. PlaceOf(Viewed) = 1
        BY <1>3, ViewedPlace
      <4> QED BY <2>1, <4>1 DEF At
    <3>2. /\ S \in SUBSET Numbers /\ history[1] \in SUBSET S /\ n \in Nat
          /\ {} \in SUBSET Numbers
      BY <1>2, <1>3 DEF NumbersOnly
    <3>3. ASSUME Covers(S, n) PROVE Covers(shown', n)
      <4>1. Covers({} \cup S, n)
        BY <3>3
      <4> HIDE DEF S
      <4>2. Covers({} \cup Newest(S), n)
        BY <3>2, <4>1, CoverNewest
      <4> QED BY <3>1, <4>2
    <3>4. Covers(S, n) \/ Absent(n)
      BY <2>1 DEF Seen
    <3>5. storage = "database" \/ Covers(history[1], n)
      BY <1>3, SensorAssumption DEF InLocalFile, SensorTypes
    <3> HIDE DEF S
    <3>6. Covers(history[1], n) => Covers(S, n)
      BY <3>2, CoversMore
    <3> QED BY <2>1, <3>3, <3>4, <3>5, <3>6 DEF Seen
  <2>3. \A n : Absent(n) => Absent(n)'
    BY <1>1 DEF Absent
  <2> QED BY <1>1, <2>1, <2>2, <2>3 DEF Seen
<1>12. CASE CloseHistory
  <2>1. pc'["reader"] = "idle" /\ since' = {}
    BY <1>12 DEF CloseHistory, ThreadTypes, Threads
  <2> QED BY <2>1 DEF Seen
<1> QED BY <1>5, <1>6, <1>7, <1>8, <1>9, <1>10, <1>11, <1>12 DEF Read

LEMMA SeenStep ==
  ASSUME Single, CompleteInv, [Next]_vars
  PROVE  Seen'
<1>1. /\ accepted \subseteq accepted' /\ asked \subseteq asked'
      /\ shown \in SUBSET Numbers /\ {} \in SUBSET Numbers
  BY MoreAccepted, OnlyNumbers DEF CompleteInv, KeptInv, ClearInv, NumbersOnly
<1>2. \A n \in accepted \ asked' : Lasts(n)
  BY LastingStep DEF CompleteInv
<1>3. CASE Waits
  <2>1. \A n \in since \ asked' : n \in since \ asked /\ Lasts(n)
    BY <1>1, <1>2 DEF CompleteInv, Seen
  <2> QED BY <1>1, <1>3, <2>1 DEF CompleteInv, Seen, Lasts, Waits
<1>4. CASE Read
  BY <1>4, SeenRead
<1>5. CASE ~Looking' /\ since' \subseteq since \cup accepted
  BY <1>1, <1>5 DEF CompleteInv, Seen, Looking
<1> QED BY <1>3, <1>4, <1>5, PageAlone DEF CompleteInv, KeptInv, ClearInv

LEMMA CompleteRead == Single /\ CompleteInv => ReadComplete
<1> SUFFICES ASSUME Single, CompleteInv, pc["reader"] = "shown", NEW n \in since \ asked,
                    ~Covers(shown, n)
             PROVE  /\ failed /\ storage = "database"
                    /\ n \notin Pending(owner[n]) \cup At(fallback, PlaceOf(owner[n]))
  BY DEF ReadComplete, Covers, Enough
<1> USE DEF CompleteInv, KeptInv, ClearInv, TypeOK
<1>1. failed /\ storage = "database" /\ Absent(n)
  BY DEF Seen
<1>2. n \notin Pending(owner[n])
  BY <1>1 DEF Pending, Absent, OutRecs
<1>3. n \notin At(fallback, PlaceOf(owner[n]))
  BY <1>1, OneUid, PlaceInRange, SensorsInRange DEF At, Absent
<1> QED BY <1>1, <1>2, <1>3

\* A page shows what an undisturbed look would have shown: of one sensor, whatever the
\* retention, while records move between the four stores it reads (read_records).
THEOREM ReadsExact == Single => (Spec => []ReadExact)
<1> SUFFICES ASSUME Single PROVE Spec => []ReadExact
  OBVIOUS
<1>1. Init => CompleteInv /\ CleanInv
  BY CompleteInitially, CleanInitially
<1>2. CompleteInv /\ [Next]_vars => CompleteInv'
  BY KeptStep, InLocalFileStep, SeenStep DEF CompleteInv
<1>3. CleanInv /\ [Next]_vars => CleanInv'
  BY ClearStep, LocalCleanStep, PageCleanStep DEF CleanInv
<1>4. CompleteInv /\ CleanInv => ReadExact
  BY CompleteRead, CleanRead DEF ReadExact
<1> QED BY <1>1, <1>2, <1>3, <1>4, PTL DEF Spec
=============================================================================

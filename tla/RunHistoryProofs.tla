--------------------------- MODULE RunHistoryProofs ---------------------------
(***************************************************************************)
(* Proofs about RunHistory for any number of occurrences, clients, records *)
(* and requests, and every setting of the log.                             *)
(***************************************************************************)
EXTENDS RunHistory, FiniteSetTheorems, TLAPS

\* What the assumptions say of the constants.
LEMMA Constants ==
    /\ NoRecord \in Record
    /\ Forever \in Nat
    /\ \A u \in Occ : OccStart[u] \in Nat /\ OccEnd[u] \in Nat /\ u # Hand
    /\ Scheduler \in Thread /\ Scheduler \notin Client /\ Client \subseteq Thread
    /\ NoThread \notin Thread
  BY ConstantsAssumption DEF NoRecord, Record, Forever, Thread

\* A list or none is a set with one element at most.
LEMMA OneList == /\ Cardinality({}) <= 1
                 /\ \A S : Cardinality({S}) <= 1
  BY FS_EmptySet, FS_Singleton

-----------------------------------------------------------------------------
(* Types. *)

\* What a step that appends or ends a record leaves alone but for the log.
LogPart == LogTypes /\ done \in SUBSET Finished /\ astray \in SUBSET Number
CallPart == call \in [Thread -> {"none", "finish", "by hand", "prune", "list", "submit"}]

\* The clock is a number within its bound.
LEMMA Clock == TypeOK => now \in Nat /\ now <= MaxTime
  BY ConstantsAssumption DEF TypeOK, OtherTypes

\* start_run appends a record of the right type.
LEMMA StartRunTypes ==
    ASSUME TypeOK, NEW t \in Thread, NEW r \in Occ \cup {Hand}, NEW orig \in Nat,
           NEW end \in Nat, StartRun(t, r, orig, end)
    PROVE  LogPart' /\ CallPart'
  <1>1. count \in 0..MaxEntries /\ log \in SUBSET Number /\ astray \in SUBSET Number
    BY DEF TypeOK, LogTypes, OtherTypes
  <1>2. count' \in Number
    BY <1>1, ConstantsAssumption DEF StartRun, Number
  <1>3. entry' \in [Number -> Record]
    <2> DEFINE rec == [run |-> r, orig |-> orig, start |-> now, end |-> end, active |-> TRUE]
    <2>1. rec \in Record
      BY Clock DEF Record
    <2>2. entry \in [Number -> Record] /\ entry' = [entry EXCEPT ![count'] = rec]
      BY DEF TypeOK, LogTypes, StartRun
    <2> HIDE DEF rec
    <2> QED
      BY <2>1, <2>2
  <1>4. LogTypes'
    BY <1>1, <1>2, <1>3, ConstantsAssumption DEF LogTypes, StartRun, Number
  <1>5. done' \in SUBSET Finished /\ astray' \in SUBSET Number
    BY <1>1, <1>2 DEF StartRun, TypeOK, OtherTypes
  <1>6. CallPart'
    BY DEF StartRun, TypeOK, CallTypes, Goto, CallPart
  <1> QED
    BY <1>4, <1>5, <1>6 DEF LogPart

\* finish_run changes records of the log to such records.
LEMMA FinishTypes ==
    ASSUME TypeOK, NEW t \in Thread, NEW N, Finish(t, N)
    PROVE  LogPart' /\ CallPart'
  <1>1. entry \in [Number -> Record] /\ now \in Nat
    BY Clock DEF TypeOK, LogTypes
  <1>2. \A n \in Number : [entry[n] EXCEPT !.end = now, !.active = FALSE] \in Record
    BY <1>1 DEF Record
  <1>3. entry' \in [Number -> Record]
    BY <1>1, <1>2 DEF Finish
  <1>4. \A n \in Active : entry[n].run \in Occ \cup {Hand}
    BY <1>1 DEF TypeOK, LogTypes, Active, Record
  <1>5. done' \in SUBSET Finished
    <2>1. EndNow(N \cap Active) \subseteq Finished
      BY <1>1, <1>4 DEF EndNow, Finished, Active, TypeOK, LogTypes
    <2> QED
      BY <2>1 DEF Finish, TypeOK, OtherTypes
  <1>6. CallPart'
    BY DEF Finish, TypeOK, CallTypes, Goto, CallPart
  <1> QED
    BY <1>3, <1>5, <1>6 DEF LogPart, LogTypes, Finish, TypeOK, OtherTypes

\* The initial state has its types.
LEMMA InitTypes == Init => TypeOK
  <1> SUFFICES ASSUME Init PROVE TypeOK
    OBVIOUS
  <1>1. DiskTypes
    BY DEF Init, DiskTypes
  <1>2. LogTypes /\ CallTypes
    BY Constants, ConstantsAssumption DEF Init, LogTypes, CallTypes
  <1>3. ListTypes
    BY OneList DEF Init, ListTypes
  <1>4. now \in 0..MaxTime
    BY ConstantsAssumption DEF Init
  <1>5. OtherTypes
    BY <1>4, Zenon DEF Init, OtherTypes
  <1> QED
    BY <1>1, <1>2, <1>3, <1>5 DEF TypeOK

\* What is loaded from disk at a start has the types it was written with.
LEMMA StartTypes == ASSUME TypeOK, Start PROVE TypeOK'
  <1> USE DEF passVars, worker, TypeOK
  <1>1. \A n \in DOMAIN disk.runs : n \in Number /\ disk.runs[n] \in Record
    BY DEF DiskTypes
  <1>2. \A n \in DOMAIN disk.runs :
          [disk.runs[n] EXCEPT !.end = now, !.active = FALSE] \in Record
    BY <1>1, Clock DEF Record
  <1>3. entry' \in [Number -> Record]
    BY <1>1, <1>2, Constants DEF Start
  <1>4. LogTypes'
    BY <1>1, <1>3 DEF LogTypes, Start
  <1>5. CallTypes'
    BY Constants DEF Start, CallTypes
  <1>6. ListTypes' /\ DiskTypes'
    BY <1>1 DEF Start, ListTypes, DiskTypes
  <1>7. done' \in SUBSET Finished
    <2>1. \A n \in DOMAIN disk.runs : entry'[n] \in Record
      BY <1>1, <1>3
    <2>2. \A n \in DOMAIN disk.runs :
            disk.runs[n].run # Hand =>
              [run |-> disk.runs[n].run, number |-> n, end |-> entry'[n].end] \in Finished
      BY <1>1, <2>1 DEF Record, Finished
    <2>3. \A d \in done' :
            \E n \in DOMAIN disk.runs :
              /\ disk.runs[n].run # Hand
              /\ d = [run |-> disk.runs[n].run, number |-> n, end |-> entry'[n].end]
      BY DEF Start
    <2> QED
      BY <2>2, <2>3
  <1>8. OtherTypes'
    BY <1>7 DEF Start, OtherTypes, DiskTypes
  <1> QED
    BY <1>4, <1>5, <1>6, <1>8

\* Every step keeps the types.
LEMMA NextTypes == TypeOK /\ [Next]_vars => TypeOK'
  <1> SUFFICES ASSUME TypeOK, [Next]_vars PROVE TypeOK'
    OBVIOUS
  <1> USE Constants
      DEF TypeOK, logVars, threadVars, worker, optionVars, passVars
  <1>1. ASSUME NEW t \in Thread, Prune(t) PROVE TypeOK'
    <2>1. LogTypes' /\ CallTypes'
      BY <1>1 DEF Prune, LogTypes, CallTypes, Goto, Leave
    <2>2. ListTypes' /\ DiskTypes' /\ OtherTypes'
      BY <1>1 DEF Prune, ListTypes, DiskTypes, OtherTypes, Leave
    <2> QED
      BY <2>1, <2>2
  <1>2. ASSUME NEW t \in Thread, TakeList(t) PROVE TypeOK'
    <2>1. CallTypes' /\ LogTypes' /\ ListTypes' /\ DiskTypes'
      BY <1>2 DEF TakeList, CallTypes, LogTypes, Goto, ListTypes, DiskTypes
    <2>2. OtherTypes'
      BY <1>2 DEF TakeList, OtherTypes
    <2> QED
      BY <2>1, <2>2
  <1>3. ASSUME NEW t \in Thread, Submit(t) PROVE TypeOK'
    <2>1. LogTypes' /\ CallTypes' /\ DiskTypes'
      BY <1>3 DEF Submit, LogTypes, CallTypes, DiskTypes, Goto, Leave
    <2>2. ListTypes'
      <3>1. queue' = {taken[t]} /\ taken[t] \in SUBSET Number
        BY <1>3 DEF Submit, CallTypes
      <3>2. Cardinality(queue') <= 1
        BY <3>1, OneList
      <3> QED
        BY <1>3, <3>1, <3>2 DEF Submit, ListTypes
    <2>3. OtherTypes'
      BY <1>3 DEF Submit, OtherTypes, Leave
    <2> QED
      BY <2>1, <2>2, <2>3
  <1>4. CASE WorkerStep
    <2>1. ListTypes'
      BY <1>4, OneList DEF WorkerStep, TakeItem, SetItem, ListTypes
    <2>2. LogTypes' /\ CallTypes' /\ DiskTypes' /\ OtherTypes'
      BY <1>4 DEF WorkerStep, TakeItem, SetItem, LogTypes, CallTypes, DiskTypes, OtherTypes
    <2> QED
      BY <2>1, <2>2
  <1>5. CASE Write
    <2>1. DiskTypes'
      BY <1>5 DEF Write, DiskTypes, ListTypes, LogTypes, OtherTypes
    <2>2. LogTypes' /\ CallTypes' /\ ListTypes' /\ OtherTypes'
      BY <1>5 DEF Write, LogTypes, CallTypes, ListTypes, OtherTypes
    <2> QED
      BY <2>1, <2>2
  <1>6. CASE PassBegins \/ Predict
    <2>1. OtherTypes'
      BY <1>6 DEF PassBegins, Over, Active, Predict, Due, OtherTypes, LogTypes
    <2>2. LogTypes' /\ CallTypes' /\ ListTypes' /\ DiskTypes'
      BY <1>6 DEF PassBegins, Predict, LogTypes, CallTypes, ListTypes, DiskTypes
    <2> QED
      BY <2>1, <2>2
  <1>7. ASSUME NEW n \in Number, EndRun(n) PROVE TypeOK'
    <2>1. LogPart' /\ CallPart'
      BY <1>7, FinishTypes DEF EndRun
    <2> QED
      BY <1>7, <2>1 DEF EndRun, LogPart, CallPart, CallTypes, ListTypes, DiskTypes, OtherTypes
  <1>8. ASSUME NEW u \in Occ, StartDue(u) PROVE TypeOK'
    <2>1. LogPart' /\ CallPart'
      BY <1>8, StartRunTypes DEF StartDue
    <2> QED
      BY <1>8, <2>1 DEF StartDue, LogPart, CallPart, CallTypes, ListTypes, DiskTypes, OtherTypes
  <1>9. ASSUME NEW c \in Client, Request(c) PROVE TypeOK'
    <2>1. CASE StopAll(c) \/ ToggleManualMode(c) \/ AskByHand(c)
      <3>1. LogTypes' /\ CallTypes' /\ ListTypes' /\ DiskTypes'
        BY <2>1 DEF StopAll, ToggleManualMode, AskByHand, Goto, LogTypes, CallTypes,
                    ListTypes, DiskTypes
      <3>2. requests' \in Nat
        <4>1. requests \in Nat /\ Accept(c)
          BY <2>1 DEF StopAll, ToggleManualMode, AskByHand, OtherTypes
        <4> QED
          BY <4>1 DEF Accept
      <3>3. OtherTypes'
        <4>1. CASE StopAll(c) \/ AskByHand(c)
          BY <4>1, <3>2 DEF StopAll, AskByHand, OtherTypes
        <4>2. CASE ToggleManualMode(c)
          BY <4>2, <3>2 DEF ToggleManualMode, OtherTypes
        <4> QED
          BY <2>1, <4>1, <4>2
      <3> QED
        BY <3>1, <3>3
    <2>2. CASE ClearRuns(c) \/ ClearAllRuns(c)
      <3>1. LogTypes' /\ CallTypes' /\ ListTypes' /\ DiskTypes'
        BY <2>2 DEF ClearRuns, ClearAllRuns, Goto, LogTypes, CallTypes, ListTypes, DiskTypes
      <3>2. OtherTypes'
        BY <2>2 DEF ClearRuns, ClearAllRuns, Accept, Active, OtherTypes, LogTypes
      <3> QED
        BY <3>1, <3>2
    <2>3. ASSUME NEW n \in Number, StopRun(c, n) PROVE TypeOK'
      <3>1. LogPart' /\ CallPart'
        BY <2>3, FinishTypes DEF StopRun
      <3>2. LogTypes' /\ CallTypes' /\ ListTypes' /\ DiskTypes'
        BY <2>3, <3>1 DEF StopRun, LogPart, CallPart, CallTypes, ListTypes, DiskTypes
      <3>3. OtherTypes'
        BY <2>3, <3>1 DEF StopRun, Accept, LogPart, OtherTypes
      <3> QED
        BY <3>2, <3>3
    <2> QED
      BY <1>9, <2>1, <2>2, <2>3 DEF Request
  <1>10. ASSUME NEW c \in Client, HandlerStep(c) PROVE TypeOK'
    <2>1. LogPart' /\ CallPart'
      <3>1. CASE FinishAll(c)
        BY <3>1, FinishTypes DEF FinishAll
      <3>2. CASE LogByHand(c)
        <4>1. StartRun(c, Hand, now, Forever) /\ now \in Nat
          BY <3>2, Clock DEF LogByHand
        <4> QED
          BY <4>1, StartRunTypes
      <3> QED
        BY <1>10, <3>1, <3>2 DEF HandlerStep
    <2> QED
      BY <1>10, <2>1 DEF HandlerStep, FinishAll, LogByHand, LogPart, CallPart, CallTypes,
                         ListTypes, DiskTypes, OtherTypes
  <1>11. CASE Tick
    <2>1. now' \in 0..MaxTime
      BY <1>11, Clock, ConstantsAssumption DEF Tick
    <2> QED
      BY <1>11, <2>1 DEF Tick, LogTypes, CallTypes, ListTypes, DiskTypes, OtherTypes
  <1>12. CASE Crash
    <2>1. LogTypes' /\ CallTypes' /\ DiskTypes'
      BY <1>12 DEF Crash, LogTypes, CallTypes, DiskTypes
    <2>2. ListTypes'
      BY <1>12, OneList DEF Crash, ListTypes
    <2>3. crashes' \in Nat
      BY <1>12 DEF Crash, OtherTypes
    <2>4. OtherTypes'
      BY <1>12, <2>3, Zenon DEF Crash, OtherTypes
    <2> QED
      BY <2>1, <2>2, <2>4
  <1>13. CASE Start
    BY <1>13, StartTypes
  <1>14. CASE UNCHANGED vars
    BY <1>14 DEF vars, LogTypes, CallTypes, ListTypes, DiskTypes, OtherTypes
  <1> QED
    BY <1>1, <1>2, <1>3, <1>4, <1>5, <1>6, <1>7, <1>8, <1>9, <1>10, <1>11, <1>12,
       <1>13, <1>14 DEF Next, LogStep, PassStep

\* Type correctness of the log, the lists under way and the options on disk.
THEOREM HistoryTypes == Spec => []TypeOK
  BY InitTypes, NextTypes, PTL DEF Spec

-----------------------------------------------------------------------------
(* What is on disk is current, or something is on its way there. *)

Outstanding ==
    \/ timer \/ queue # {} \/ item # {}
    \/ \E t \in Thread : call[t] \in {"prune", "list", "submit"}

DiskCurrent == \A n \in DOMAIN disk.runs : disk.runs[n] = entry[n]

Noted == up /\ ~NeverSaves => Outstanding \/ DiskCurrent

\* A thread that enters one of the steps of saving makes a change outstanding.
LEMMA Saving ==
    ASSUME TypeOK, NEW t \in Thread, NEW w \in {"prune", "list", "submit"}, Goto(t, w)
    PROVE  Outstanding'
  BY DEF Goto, TypeOK, CallTypes, Outstanding

\* A thread that was outside of a call and goes elsewhere leaves it outstanding.
LEMMA Elsewhere ==
    ASSUME TypeOK, NEW t \in Thread, call[t] = "none", NEW w, Goto(t, w), Outstanding,
           timer' = timer, queue' = queue, item' = item
    PROVE  Outstanding'
  BY DEF Goto, TypeOK, CallTypes, Outstanding

\* A step that leaves the records and the disk alone leaves them in agreement.
LEMMA StillCurrent ==
    ASSUME DiskCurrent, UNCHANGED <<disk, entry>> PROVE DiskCurrent'
  BY DEF DiskCurrent

\* Every step that changes a record leaves its writing outstanding.
LEMMA NextNoted == TypeOK /\ Noted /\ [Next]_vars => Noted'
  <1> SUFFICES ASSUME TypeOK, Noted, [Next]_vars, up', ~NeverSaves
               PROVE  Outstanding' \/ DiskCurrent'
    BY DEF Noted, NeverSaves
  <1> USE Constants DEF logVars, threadVars, worker, optionVars, passVars
  <1>1. ASSUME NEW t \in Thread, LogStep(t) PROVE Outstanding'
    <2>1. CASE Prune(t)
      BY <2>1, Saving DEF Prune
    <2>2. CASE TakeList(t)
      BY <2>2, Saving DEF TakeList
    <2>3. CASE Submit(t)
      BY <2>3 DEF Submit, Outstanding
    <2> QED
      BY <1>1, <2>1, <2>2, <2>3 DEF LogStep
  <1>2. CASE WorkerStep
    BY <1>2 DEF WorkerStep, TakeItem, SetItem, Outstanding
  <1>3. CASE Write
    BY <1>3 DEF Write, DiskCurrent
  <1>4. ASSUME NEW t \in Thread, NEW N, Finish(t, N) PROVE Outstanding'
    BY <1>4, Saving DEF Finish
  <1>5. ASSUME NEW t \in Thread, NEW r, NEW orig, NEW end, StartRun(t, r, orig, end)
        PROVE  Outstanding'
    BY <1>5, Saving DEF StartRun
  <1>6. CASE PassStep
    <2>1. CASE PassBegins \/ Predict
      BY <2>1 DEF PassBegins, Predict, CanCall, Noted, Outstanding, DiskCurrent
    <2>2. CASE (\E n \in Number : EndRun(n)) \/ (\E u \in Occ : StartDue(u))
      BY <2>2, <1>4, <1>5 DEF EndRun, StartDue
    <2> QED
      BY <1>6, <2>1, <2>2 DEF PassStep
  <1>7. ASSUME NEW c \in Client, Request(c) PROVE Outstanding' \/ DiskCurrent'
    <2>1. CASE StopAll(c) \/ AskByHand(c) \/ ToggleManualMode(c)
      <3>1. /\ call[c] = "none" /\ up
            /\ Goto(c, "finish") \/ Goto(c, "by hand")
            /\ UNCHANGED <<entry, disk, timer, queue, item>>
        BY <2>1 DEF StopAll, AskByHand, ToggleManualMode, Accept, CanCall
      <3> QED
        BY <3>1, Elsewhere, StillCurrent DEF Noted
    <2>2. CASE ClearRuns(c) \/ ClearAllRuns(c)
      BY <2>2, Saving DEF ClearRuns, ClearAllRuns
    <2>3. CASE \E n \in Number : StopRun(c, n)
      BY <2>3, <1>4 DEF StopRun
    <2> QED
      BY <1>7, <2>1, <2>2, <2>3 DEF Request
  <1>8. ASSUME NEW c \in Client, HandlerStep(c) PROVE Outstanding'
    BY <1>8, <1>4, <1>5 DEF HandlerStep, FinishAll, LogByHand
  <1>9. CASE Tick
    BY <1>9 DEF Tick, Noted, Outstanding, DiskCurrent
  <1>10. CASE Crash
    BY <1>10 DEF Crash
  <1>11. CASE Start
    <2>1. CASE disk.manual
      <3>1. call'[Scheduler] = "prune"
        BY <1>11, <2>1 DEF Start, TypeOK, CallTypes
      <3> QED
        BY <3>1 DEF Outstanding
    <2>2. CASE ~disk.manual
      BY <1>11, <2>2 DEF Start, DiskCurrent, TypeOK, DiskTypes
    <2> QED
      BY <2>1, <2>2
  <1>12. CASE UNCHANGED vars
    BY <1>12 DEF vars, Noted, Outstanding, DiskCurrent
  <1> QED
    BY <1>1, <1>2, <1>3, <1>6, <1>7, <1>8, <1>9, <1>10, <1>11, <1>12 DEF Next

\* Once every call is over and everything is written, what is on disk of a run is what its
\* record says: a run that was stopped is not taken up again after a restart.
THEOREM StoredCurrent == Spec => []StoredIsCurrent
  <1>1. Init => Noted
    BY DEF Init, Noted
  <1>2. TypeOK /\ Noted => StoredIsCurrent
    BY DEF Noted, StoredIsCurrent, Settled, Outstanding, DiskCurrent
  <1>3. Spec => []Noted
    BY <1>1, NextNoted, HistoryTypes, PTL DEF Spec
  <1> QED
    BY <1>2, <1>3, HistoryTypes, PTL

-----------------------------------------------------------------------------
(* The mode on disk and the runs on disk. *)

\* A record that is active is in the log or strayed from it, and ends after it has begun.
ActiveInLog ==
    \A n \in Number :
        entry[n].active => n \in log \cup astray /\ entry[n].start <= entry[n].end

\* The runs that are active are those of the mode ...
RunsFit ==
    \A n \in Number : entry[n].active /\ n \notin astray => (manual <=> entry[n].run = Hand)

\* ... but for a change of the mode, which holds the options' lock until it has ended them.
ModeChanging == \E c \in Client : owner = c /\ call[c] = "finish"

\* So they are on disk.
DiskFits ==
    \A n \in DOMAIN disk.runs :
        disk.runs[n].active =>
            /\ disk.runs[n].start <= disk.runs[n].end
            /\ n \notin astray => (disk.manual <=> disk.runs[n].run = Hand)

\* What a pass is about to start has not ended: the clock waits for the pass.
InWindow == (phase # "starting" => due = {}) /\ \A u \in due : now < OccEnd[u]

ModeInv == ActiveInLog /\ (RunsFit \/ ModeChanging) /\ DiskFits /\ InWindow

\* A run is logged: it fits the mode, or strays.
LEMMA StartRunFits ==
    ASSUME TypeOK, ModeInv, NEW t \in Thread, NEW r \in Occ \cup {Hand}, NEW orig \in Nat,
           NEW end \in Nat, now <= end, StartRun(t, r, orig, end), call[t] # "finish",
           UNCHANGED <<manual, owner, disk>>
    PROVE  ActiveInLog' /\ (RunsFit' \/ ModeChanging') /\ DiskFits'
  <1> DEFINE rec == [run |-> r, orig |-> orig, start |-> now, end |-> end, active |-> TRUE]
  <1>1. /\ count' \in Number /\ log' = log \cup {count'} /\ astray \subseteq astray'
        /\ manual = (r = Hand) \/ count' \in astray'
    BY Constants, ConstantsAssumption DEF StartRun, TypeOK, LogTypes, OtherTypes, Number
  <1>2. entry'[count'] = rec /\ \A n \in Number : n # count' => entry'[n] = entry[n]
    BY <1>1 DEF StartRun, TypeOK, LogTypes
  <1>3. rec.run = r /\ rec.start = now /\ rec.end = end /\ rec.active
    OBVIOUS
  <1> HIDE DEF rec
  <1>4. ActiveInLog'
    BY <1>1, <1>2, <1>3 DEF ModeInv, ActiveInLog
  <1>5. RunsFit => RunsFit'
    BY <1>1, <1>2, <1>3 DEF RunsFit
  <1>6. ModeChanging => ModeChanging'
    BY Constants DEF ModeChanging, StartRun, Goto, TypeOK, CallTypes
  <1>7. DiskFits'
    BY <1>1 DEF ModeInv, DiskFits
  <1> QED
    BY <1>4, <1>5, <1>6, <1>7 DEF ModeInv

\* Runs end: nothing becomes active.
LEMMA FinishFits ==
    ASSUME TypeOK, ModeInv, NEW t \in Thread, NEW N, Finish(t, N), UNCHANGED <<manual, owner, disk>>,
           call[t] = "finish" => N = log
    PROVE  ActiveInLog' /\ (RunsFit' \/ ModeChanging') /\ DiskFits'
  <1>1. \A n \in Number : entry'[n].active => /\ entry[n].active /\ entry'[n] = entry[n]
                                              /\ n \notin N \cap Active
    BY DEF Finish, TypeOK, LogTypes, Record
  <1>2. UNCHANGED <<log, astray>>
    BY DEF Finish
  <1>3. ActiveInLog' /\ DiskFits'
    BY <1>1, <1>2 DEF ModeInv, ActiveInLog, DiskFits
  <1>4. CASE call[t] = "finish"
    <2>1. RunsFit'
      BY <1>1, <1>2, <1>4 DEF ModeInv, ActiveInLog, RunsFit, Active
    <2> QED
      BY <1>3, <2>1
  <1>5. CASE call[t] # "finish"
    <2>1. ModeChanging => ModeChanging'
      BY <1>5, Constants DEF ModeChanging, Finish, Goto, TypeOK, CallTypes
    <2>2. RunsFit => RunsFit'
      BY <1>1, <1>2 DEF RunsFit
    <2> QED
      BY <1>3, <2>1, <2>2 DEF ModeInv
  <1> QED
    BY <1>3, <1>4, <1>5

\* Nothing that is active is pruned.
LEMMA PruneFits ==
    ASSUME TypeOK, ActiveInLog, NEW minimum, log' = log \ Prunable(minimum), entry' = entry,
           astray' = astray
    PROVE  ActiveInLog'
  <1>1. \A n \in Number : entry[n] \in Record
    BY DEF TypeOK, LogTypes
  <1>2. \A n \in Number : entry[n].start \in Nat /\ entry[n].end \in Nat
    BY <1>1 DEF Record
  <1>3. ASSUME NEW n \in Number, entry[n].active, n \in log PROVE n \notin Prunable(minimum)
    <2>1. n \in Active /\ entry[n].start <= entry[n].end
      BY <1>3 DEF Active, ActiveInLog
    <2> QED
      BY <1>2, <2>1, ConstantsAssumption DEF Prunable
  <1> QED
    BY <1>3 DEF ActiveInLog

\* A call of the log goes on.
LEMMA LogStepFits == ASSUME TypeOK, ModeInv, NEW t \in Thread, LogStep(t) PROVE ModeInv'
  <1>1. call[t] # "finish" /\ UNCHANGED <<now, entry, manual, disk, passVars, astray>>
    BY DEF LogStep, Prune, TakeList, Submit, logVars, optionVars, passVars
  <1>2. owner' \in {owner, NoThread} /\ (owner' # owner => owner = t)
    BY DEF LogStep, Prune, TakeList, Submit, Leave, optionVars
  <1>3. \E w : w # "finish" /\ Goto(t, w)
    BY DEF LogStep, Prune, TakeList, Submit, Leave
  <1>4. ModeChanging => ModeChanging'
    BY <1>1, <1>2, <1>3, Constants DEF ModeChanging, Goto, TypeOK, CallTypes
  <1>5. ActiveInLog'
    <2>1. CASE \E minimum : log' = log \ Prunable(minimum)
      BY <1>1, <2>1, PruneFits DEF ModeInv
    <2>2. CASE log' = log
      BY <1>1, <2>2 DEF ModeInv, ActiveInLog
    <2> QED
      BY <2>1, <2>2 DEF LogStep, Prune, TakeList, Submit, logVars
  <1> QED
    BY <1>1, <1>4, <1>5 DEF ModeInv, RunsFit, DiskFits, InWindow, passVars

\* The scheduler ends runs and starts those that are due.
LEMMA PassFits == ASSUME TypeOK, ModeInv, PassStep PROVE ModeInv'
  <1> USE Constants DEF passVars, logVars, threadVars, optionVars
  <1>1. CASE PassBegins \/ Predict
    <2>1. UNCHANGED <<now, entry, log, astray, manual, owner, call, disk>>
      BY <1>1 DEF PassBegins, Predict
    <2>2. InWindow'
      BY <1>1 DEF ModeInv, InWindow, PassBegins, Predict, Due
    <2> QED
      BY <2>1, <2>2 DEF ModeInv, ActiveInLog, RunsFit, ModeChanging, DiskFits
  <1>2. ASSUME NEW n \in Number, EndRun(n) PROVE ModeInv'
    <2>1. InWindow'
      BY <1>2 DEF EndRun, ModeInv, InWindow
    <2> QED
      BY <1>2, <2>1, FinishFits DEF EndRun, CanCall, ModeInv
  <1>3. ASSUME NEW u \in Occ, StartDue(u) PROVE ModeInv'
    <2>1. now < OccEnd[u]
      BY <1>3 DEF StartDue, ModeInv, InWindow
    <2>2. now <= OccEnd[u]
      BY <2>1, Clock
    <2>3. InWindow'
      BY <1>3 DEF StartDue, ModeInv, InWindow
    <2> QED
      BY <1>3, <2>2, <2>3, StartRunFits DEF StartDue, CanCall, ModeInv
  <1> QED
    BY <1>1, <1>2, <1>3 DEF PassStep

\* A request: only a change of the mode makes runs of the other mode, and it is about to end them.
LEMMA RequestFits == ASSUME TypeOK, ModeInv, NEW c \in Client, Request(c) PROVE ModeInv'
  <1> USE Constants DEF passVars, logVars, optionVars
  <1>1. call[c] = "none" /\ UNCHANGED <<now, phase, due, disk>>
    BY DEF Request, StopAll, ToggleManualMode, AskByHand, ClearRuns, ClearAllRuns, StopRun,
           Accept, CanCall
  <1>2. InWindow'
    BY <1>1 DEF ModeInv, InWindow
  <1>3. ASSUME NEW w, Goto(c, w), owner' = owner PROVE ModeChanging => ModeChanging'
    BY <1>1, <1>3 DEF ModeChanging, Goto, TypeOK, CallTypes
  <1>4. CASE StopAll(c) \/ AskByHand(c)
    <2>1. UNCHANGED <<entry, log, astray, manual, owner>>
      BY <1>4 DEF StopAll, AskByHand
    <2>2. ModeChanging => ModeChanging'
      BY <1>3, <1>4, <2>1 DEF StopAll, AskByHand
    <2> QED
      BY <1>1, <1>2, <2>1, <2>2 DEF ModeInv, ActiveInLog, RunsFit, DiskFits
  <1>5. CASE ToggleManualMode(c)
    <2>1. ModeChanging'
      BY <1>5 DEF ToggleManualMode, Goto, ModeChanging, TypeOK, CallTypes
    <2>2. UNCHANGED <<entry, log, astray>>
      BY <1>5 DEF ToggleManualMode
    <2> QED
      BY <1>1, <1>2, <2>1, <2>2 DEF ModeInv, ActiveInLog, DiskFits
  <1>6. CASE ClearRuns(c)
    <2>1. UNCHANGED <<entry, astray, manual, owner>> /\ log' = log \ Prunable(0)
      BY <1>6 DEF ClearRuns
    <2>2. ActiveInLog'
      BY <2>1, PruneFits DEF ModeInv
    <2>3. ModeChanging => ModeChanging'
      BY <1>3, <1>6, <2>1 DEF ClearRuns
    <2> QED
      BY <1>1, <1>2, <2>1, <2>2, <2>3 DEF ModeInv, RunsFit, DiskFits
  <1>7. CASE ClearAllRuns(c)
    <2>1. UNCHANGED <<entry, manual, owner>> /\ astray' = astray \cup Active
      BY <1>7 DEF ClearAllRuns
    <2>2. ActiveInLog'
      BY <2>1 DEF ModeInv, ActiveInLog, Active
    <2>3. ModeChanging => ModeChanging'
      BY <1>3, <1>7, <2>1 DEF ClearAllRuns
    <2>4. DiskFits'
      BY <1>1, <2>1 DEF ModeInv, DiskFits
    <2> QED
      BY <1>1, <1>2, <2>1, <2>2, <2>3, <2>4 DEF ModeInv, RunsFit
  <1>8. ASSUME NEW n \in Number, StopRun(c, n) PROVE ModeInv'
    BY <1>1, <1>2, <1>8, FinishFits DEF StopRun, ModeInv
  <1> QED
    BY <1>4, <1>5, <1>6, <1>7, <1>8 DEF Request

\* A request goes on.
LEMMA HandlerFits == ASSUME TypeOK, ModeInv, NEW c \in Client, HandlerStep(c) PROVE ModeInv'
  <1> USE Constants DEF passVars, optionVars
  <1>1. UNCHANGED <<now, phase, due>>
    BY DEF HandlerStep, FinishAll, LogByHand
  <1>2. InWindow'
    BY <1>1 DEF ModeInv, InWindow
  <1>3. CASE FinishAll(c)
    BY <1>2, <1>3, FinishFits DEF FinishAll, ModeInv
  <1>4. CASE LogByHand(c)
    <2>1. now \in Nat /\ now <= Forever
      BY Clock, ConstantsAssumption DEF Forever
    <2> QED
      BY <1>2, <1>4, <2>1, StartRunFits DEF LogByHand, ModeInv
  <1> QED
    BY <1>3, <1>4 DEF HandlerStep

\* A write takes the mode and the runs while nobody changes the mode.
LEMMA WriteFits == ASSUME TypeOK, ModeInv, Write PROVE ModeInv'
  <1>1. RunsFit
    BY Constants DEF ModeInv, ModeChanging, Write
  <1>2. disk' = [runs |-> [n \in loggedRuns |-> entry[n]], manual |-> manual]
    BY DEF Write
  <1>3. DiskFits'
    BY <1>1, <1>2 DEF DiskFits, ModeInv, ActiveInLog, RunsFit, Write, TypeOK, ListTypes
  <1> QED
    BY <1>1, <1>3 DEF ModeInv, ActiveInLog, RunsFit, InWindow, Write, logVars, passVars

\* The process begins with the mode and the runs on disk; in manual mode it ends them.
LEMMA StartFits == ASSUME TypeOK, ModeInv, Start PROVE ModeInv'
  <1>1. UNCHANGED <<now, disk, astray, phase, due>>
    BY DEF Start, passVars
  <1>2. \A n \in Number :
            entry'[n].active => /\ n \in DOMAIN disk.runs /\ ~disk.manual
                                /\ disk.runs[n].active /\ entry'[n] = disk.runs[n]
    BY DEF Start, NoRecord, TypeOK, DiskTypes, Record
  <1>3. ActiveInLog' /\ RunsFit'
    BY <1>1, <1>2 DEF Start, ModeInv, DiskFits, ActiveInLog, RunsFit
  <1> QED
    BY <1>1, <1>3 DEF ModeInv, DiskFits, InWindow

LEMMA NextFits == ASSUME TypeOK, ModeInv, [Next]_vars PROVE ModeInv'
  <1>1. CASE WorkerStep
    BY <1>1 DEF WorkerStep, TakeItem, SetItem, ModeInv, ActiveInLog, RunsFit, ModeChanging,
                DiskFits, InWindow, logVars, threadVars, optionVars, passVars
  <1>2. CASE Tick
    BY <1>2 DEF Tick, ModeInv, ActiveInLog, RunsFit, ModeChanging, DiskFits, InWindow,
                logVars, threadVars, optionVars, passVars
  <1>3. CASE Crash
    BY <1>3 DEF Crash, ModeInv, ActiveInLog, RunsFit, DiskFits, InWindow, NoRecord
  <1>4. CASE UNCHANGED vars
    BY <1>4 DEF vars, ModeInv, ActiveInLog, RunsFit, ModeChanging, DiskFits, InWindow,
                logVars, threadVars, optionVars, passVars
  <1> QED
    BY <1>1, <1>2, <1>3, <1>4, LogStepFits, PassFits, RequestFits, HandlerFits, WriteFits,
       StartFits DEF Next

\* A run started by hand, which has no end, does not go on in automatic mode after a restart:
\* the mode is changed and its runs are ended before the options can be written.
THEOREM StoredMode == Spec => []StoredModeFits
  <1>1. Init => ModeInv
    BY DEF Init, ModeInv, ActiveInLog, RunsFit, DiskFits, InWindow, NoRecord
  <1>2. ModeInv => StoredModeFits
    BY DEF ModeInv, DiskFits, StoredModeFits
  <1>3. Spec => []ModeInv
    BY <1>1, NextFits, HistoryTypes, PTL DEF Spec
  <1> QED
    BY <1>2, <1>3, PTL

-----------------------------------------------------------------------------
(* Nothing is repeated but what the log may have forgotten. *)

\* The records of every list have been made, so a new one is in none of them.
AllMade ==
    LET made == 1 .. count IN
    /\ log \subseteq made /\ loggedRuns \subseteq made /\ DOMAIN disk.runs \subseteq made
    /\ \A t \in Thread : taken[t] \subseteq made
    /\ \A list \in queue \cup item : list \subseteq made

\* The log knows of a run that was finished.
Remembers(d) ==
    /\ d.number \in log /\ ~entry[d.number].active
    /\ entry[d.number].run = d.run /\ entry[d.number].end = d.end

\* What was finished is in the log, or may have been forgotten ...
KnownOrForgotten == up => \A d \in done : Remembers(d) \/ MayForget(d)

\* ... and what is about to be started is not in the log.
DueNotInLog == (~up => due = {}) /\ \A u \in due : \A n \in log : entry[n].run # u

OnceInv == AllMade /\ KnownOrForgotten /\ DueNotInLog

\* What RepeatedIfForgotten asks of one step.
NotRepeated ==
    \A n \in log' \ log : up => \A d \in done : d.run = entry'[n].run => MayForget(d)

\* Numbers, for arithmetic.
LEMMA Numbers ==
    ASSUME TypeOK
    PROVE  /\ now \in Nat /\ count \in Nat /\ Keep \in Nat /\ RunEntries \in Nat
           /\ \A n \in Number : n \in Nat /\ entry[n].start \in Nat /\ entry[n].end \in Nat
           /\ \A d \in done : d \in Finished /\ d.end \in Nat /\ d.number \in Number
           /\ log \subseteq Number
  <1>1. \A n \in Number : entry[n] \in Record
    BY DEF TypeOK, LogTypes
  <1>2. \A n \in Number : n \in Nat /\ entry[n].start \in Nat /\ entry[n].end \in Nat
    BY <1>1, ConstantsAssumption DEF Record, Number
  <1>3. \A d \in done : d \in Finished /\ d.end \in Nat /\ d.number \in Number
    BY DEF TypeOK, OtherTypes, Finished
  <1> QED
    BY <1>2, <1>3, Clock, ConstantsAssumption DEF TypeOK, LogTypes

\* What may have been forgotten stays so: runs that become active begin now.
LEMMA ForgottenStays ==
    ASSUME TypeOK, TypeOK', now <= now', count <= count',
           \A m \in Active' : \/ m \in Active /\ entry'[m].start = entry[m].start
                              \/ entry'[m].start = now,
           NEW d \in done, MayForget(d)
    PROVE  MayForget(d)'
  <1>1. now' \in Nat /\ count' \in Nat
    BY ConstantsAssumption DEF TypeOK, LogTypes, OtherTypes
  <1>2. now' > d.end + Keep
    BY <1>1, Numbers DEF MayForget
  <1>3. \A m \in Active' : entry'[m].start > d.end + Keep
    BY Numbers DEF MayForget
  <1>4. RunLog => count' - d.number >= RunEntries
    BY <1>1, Numbers DEF MayForget
  <1> QED
    BY <1>2, <1>3, <1>4 DEF MayForget

\* A step that changes neither the log nor its records.
LEMMA LogAlone ==
    ASSUME TypeOK, TypeOK', OnceInv, UNCHANGED <<up, count, log, entry>>, now <= now',
           done' \subseteq done
    PROVE  KnownOrForgotten' /\ NotRepeated
  <1>1. Active' = Active
    BY DEF Active
  <1>2. ASSUME up, NEW d \in done' PROVE Remembers(d)' \/ MayForget(d)'
    <2>1. d \in done /\ (Remembers(d) \/ MayForget(d))
      BY <1>2 DEF OnceInv, KnownOrForgotten
    <2>2. CASE Remembers(d)
      BY <2>2 DEF Remembers
    <2>3. CASE MayForget(d)
      <3>1. count <= count'
        BY Numbers
      <3> QED
        BY <1>1, <2>1, <2>3, <3>1, ForgottenStays
    <2> QED
      BY <2>1, <2>2, <2>3
  <1> QED
    BY <1>2 DEF KnownOrForgotten, NotRepeated

\* As many records are newer than one as were made since, or fewer.
LEMMA NewerMade ==
    ASSUME TypeOK, AllMade, NEW n \in log
    PROVE  Cardinality({m \in log : m > n}) <= count - n
  <1>1. count \in Nat /\ n \in Nat /\ n \in 1 .. count /\ log \subseteq 1 .. count
    BY Numbers DEF AllMade
  <1>2. IsFiniteSet((n + 1) .. count) /\ Cardinality((n + 1) .. count) = count - n
    <2>1. n + 1 \in Int /\ count \in Int
      BY <1>1
    <2>2. /\ IsFiniteSet((n + 1) .. count)
          /\ Cardinality((n + 1) .. count) =
               IF n + 1 > count THEN 0 ELSE count - (n + 1) + 1
      BY <2>1, FS_Interval
    <2> QED
      BY <1>1, <2>2
  <1>3. {m \in log : m > n} \subseteq (n + 1) .. count
    <2>1. ASSUME NEW m \in log, m > n PROVE m \in (n + 1) .. count
      <3>1. m \in 1 .. count
        BY <1>1
      <3> QED
        BY <1>1, <2>1, <3>1
    <2> QED
      BY <2>1
  <1>4. Cardinality({m \in log : m > n}) <= Cardinality((n + 1) .. count)
    BY <1>2, <1>3, FS_Subset
  <1> QED
    BY <1>2, <1>4

\* The number of a record that is made is new.
LEMMA NewNumber ==
    ASSUME TypeOK, TypeOK', OnceInv, NEW t \in Thread, NEW r \in Occ \cup {Hand}, NEW orig, NEW end,
           StartRun(t, r, orig, end), UNCHANGED <<now, taken, loggedRuns, queue, item, disk, up>>
    PROVE  /\ log' = log \cup {count'} /\ done' = done /\ AllMade' /\ KnownOrForgotten'
           /\ entry'[count'].run = r /\ \A n \in log : n # count' /\ entry'[n] = entry[n]
  <1> DEFINE rec == [run |-> r, orig |-> orig, start |-> now, end |-> end, active |-> TRUE]
  <1>1. count \in Nat /\ count' = count + 1 /\ count' \in Number /\ log' = log \cup {count'}
    BY ConstantsAssumption DEF StartRun, TypeOK, LogTypes, Number
  <1>2. entry' = [entry EXCEPT ![count'] = rec] /\ rec.run = r /\ rec.start = now
    BY DEF StartRun
  <1> HIDE DEF rec
  <1>3. \A n \in log : n # count' /\ n \in Number
    <2>1. log \subseteq 1 .. count /\ log \subseteq Number
      BY DEF OnceInv, AllMade, TypeOK, LogTypes
    <2>2. \A n \in 1 .. count : n # count'
      BY <1>1
    <2> QED
      BY <2>1, <2>2
  <1>4. /\ entry'[count'].run = r /\ entry'[count'].start = now
        /\ \A n \in log : entry'[n] = entry[n]
    BY <1>1, <1>2, <1>3 DEF TypeOK, LogTypes
  <1>5. 1 .. count \subseteq 1 .. count' /\ count' \in 1 .. count'
    BY <1>1
  <1>6. AllMade'
    BY <1>1, <1>5 DEF OnceInv, AllMade
  <1>7. done' = done
    BY DEF StartRun
  <1>8. \A m \in Active' :
         (m \in Active /\ entry'[m].start = entry[m].start) \/ entry'[m].start = now
    BY <1>1, <1>4 DEF Active
  <1>9. ASSUME up, NEW d \in done PROVE Remembers(d)' \/ MayForget(d)'
    <2>1. CASE Remembers(d)
      BY <1>1, <1>4, <2>1 DEF Remembers
    <2>2. CASE MayForget(d)
      <3>1. count <= count' /\ now <= now'
        BY <1>1, Clock
      <3> QED
        BY <1>8, <2>2, <3>1, ForgottenStays
    <2> QED
      BY <1>9, <2>1, <2>2 DEF OnceInv, KnownOrForgotten
  <1>10. KnownOrForgotten'
    BY <1>7, <1>9 DEF KnownOrForgotten
  <1> QED
    BY <1>1, <1>3, <1>4, <1>6, <1>7, <1>10

\* What is finished is in the log, and was not about to be started.
LEMMA FinishOnce ==
    ASSUME TypeOK, TypeOK', OnceInv, NEW t \in Thread, NEW N, Finish(t, N),
           UNCHANGED <<now, taken, loggedRuns, queue, item, disk, up, due>>
    PROVE  OnceInv' /\ NotRepeated
  <1>1. UNCHANGED <<count, log>>
    BY DEF Finish
  <1>2. \A n \in Number : /\ entry'[n].run = entry[n].run /\ entry'[n].start = entry[n].start
                          /\ ~entry[n].active => entry'[n] = entry[n]
                          /\ n \in N \cap Active => entry'[n].end = now /\ ~entry'[n].active
                          /\ entry'[n].active => entry[n].active
    BY DEF Finish, TypeOK, LogTypes, Record, Active
  <1>3. log \subseteq Number
    BY DEF TypeOK, LogTypes
  <1>4. Active' \subseteq Active
    BY <1>1, <1>2, <1>3 DEF Active
  <1>5. AllMade'
    BY <1>1 DEF OnceInv, AllMade
  <1>6. ASSUME NEW d \in done', d \notin done PROVE Remembers(d)'
    <2>1. PICK n \in N \cap Active : d = [run |-> entry[n].run, number |-> n, end |-> now]
      BY <1>6 DEF Finish, EndNow
    <2> QED
      BY <1>1, <1>2, <1>3, <2>1 DEF Remembers, Active
  <1>7. ASSUME up, NEW d \in done PROVE Remembers(d)' \/ MayForget(d)'
    <2>1. CASE Remembers(d)
      BY <1>1, <1>2, <1>3, <2>1 DEF Remembers
    <2>2. CASE MayForget(d)
      <3>1. count <= count' /\ now <= now'
        BY <1>1, Numbers
      <3> QED
        BY <1>2, <1>3, <1>4, <2>2, <3>1, ForgottenStays DEF Active
    <2> QED
      BY <1>7, <2>1, <2>2 DEF OnceInv, KnownOrForgotten
  <1>8. KnownOrForgotten'
    BY <1>6, <1>7 DEF KnownOrForgotten
  <1>9. DueNotInLog'
    BY <1>1, <1>2, <1>3 DEF OnceInv, DueNotInLog
  <1> QED
    BY <1>1, <1>5, <1>8, <1>9 DEF OnceInv, NotRepeated

\* What is pruned may be forgotten.
LEMMA PruneOnce ==
    ASSUME TypeOK, TypeOK', OnceInv, NEW t \in Thread, Prune(t)
    PROVE  OnceInv' /\ NotRepeated
  <1> USE DEF passVars
  <1>1. UNCHANGED <<now, up, entry, count, done, due, taken, loggedRuns, queue, item, disk>>
    BY DEF Prune, worker
  <1>2. log' \subseteq log /\ Active' \subseteq Active
    BY <1>1 DEF Prune, Active
  <1>3. \A n \in log \ log' : n \in Prunable(IF RunLog THEN RunEntries ELSE 0)
    BY DEF Prune
  <1>4. ASSUME up, NEW d \in done PROVE Remembers(d)' \/ MayForget(d)'
    <2>1. CASE Remembers(d) /\ d.number \in log'
      BY <1>1, <2>1 DEF Remembers
    <2>2. CASE Remembers(d) /\ d.number \notin log'
      <3>1. d.number \in log /\ entry[d.number].end = d.end
        BY <2>2 DEF Remembers
      <3>2. d.number \in Prunable(IF RunLog THEN RunEntries ELSE 0)
        BY <1>3, <2>2, <3>1
      <3>3. ASSUME RunLog PROVE count - d.number >= RunEntries
        <4>1. Cardinality({m \in log : m > d.number}) >= RunEntries
          BY <3>2, <3>3 DEF Prunable
        <4>2. Cardinality({m \in log : m > d.number}) <= count - d.number
          BY <3>1, NewerMade DEF OnceInv
        <4>3. Cardinality({m \in log : m > d.number}) \in Nat
          <5>1. log \subseteq 1 .. count /\ count \in Nat
            BY Numbers DEF OnceInv, AllMade
          <5>2. IsFiniteSet(1 .. count)
            BY <5>1, FS_Interval
          <5>3. IsFiniteSet({m \in log : m > d.number})
            BY <5>1, <5>2, FS_Subset
          <5> QED
            BY <5>3, FS_CardinalityType
        <4> QED
          BY <4>1, <4>2, <4>3, Numbers
      <3>4. MayForget(d)
        BY <3>1, <3>2, <3>3 DEF Prunable, MayForget
      <3> QED
        BY <1>1, <1>2, <3>4 DEF MayForget
    <2>3. CASE MayForget(d)
      BY <1>1, <1>2, <2>3 DEF MayForget
    <2> QED
      BY <1>4, <2>1, <2>2, <2>3 DEF OnceInv, KnownOrForgotten
  <1>5. KnownOrForgotten'
    BY <1>1, <1>4 DEF KnownOrForgotten
  <1>6. AllMade' /\ DueNotInLog'
    BY <1>1, <1>2 DEF OnceInv, AllMade, DueNotInLog
  <1> QED
    BY <1>2, <1>5, <1>6 DEF OnceInv, NotRepeated

\* A call of the log goes on.
LEMMA LogStepOnce ==
    ASSUME TypeOK, TypeOK', OnceInv, NEW t \in Thread, LogStep(t)
    PROVE  OnceInv' /\ NotRepeated
  <1> USE DEF logVars, threadVars, worker, optionVars, passVars
  <1>1. CASE Prune(t)
    BY <1>1, PruneOnce
  <1>2. CASE TakeList(t) \/ Submit(t)
    <2>1. /\ UNCHANGED <<now, up, count, log, entry, done, due, disk, item, loggedRuns>>
          /\ now <= now'
      BY <1>2, Clock DEF TakeList, Submit
    <2>2. \A u \in Thread : taken'[u] \in {taken[u], log, {}}
      BY <1>2 DEF TakeList, Submit, TypeOK, CallTypes
    <2>3. queue' \in {queue, {taken[t]}}
      BY <1>2 DEF TakeList, Submit
    <2>4. AllMade'
      BY <2>1, <2>2, <2>3 DEF OnceInv, AllMade
    <2>5. DueNotInLog'
      BY <2>1 DEF OnceInv, DueNotInLog
    <2> QED
      BY <2>1, <2>4, <2>5, LogAlone DEF OnceInv
  <1> QED
    BY <1>1, <1>2 DEF LogStep

\* The worker sets a list, and the timer writes it.
LEMMA SavedOnce ==
    ASSUME TypeOK, TypeOK', OnceInv, WorkerStep \/ Write
    PROVE  OnceInv' /\ NotRepeated
  <1> USE DEF logVars, threadVars, worker, optionVars, passVars
  <1>1. UNCHANGED <<now, up, count, log, entry, done, due, taken>> /\ now <= now'
    BY Clock DEF WorkerStep, TakeItem, SetItem, Write
  <1>2. AllMade'
    <2>1. CASE TakeItem
      BY <1>1, <2>1 DEF TakeItem, OnceInv, AllMade
    <2>2. CASE SetItem
      BY <1>1, <2>2 DEF SetItem, OnceInv, AllMade
    <2>3. CASE Write
      <3>1. DOMAIN disk'.runs = loggedRuns /\ UNCHANGED <<loggedRuns, queue, item>>
        BY <2>3 DEF Write
      <3> QED
        BY <1>1, <3>1 DEF OnceInv, AllMade
    <2> QED
      BY <2>1, <2>2, <2>3 DEF WorkerStep
  <1>3. DueNotInLog'
    BY <1>1 DEF OnceInv, DueNotInLog
  <1> QED
    BY <1>1, <1>2, <1>3, LogAlone DEF OnceInv

\* A pass starts what is not in the log, and nobody else starts it meanwhile.
LEMMA PassOnce ==
    ASSUME TypeOK, TypeOK', OnceInv, PassStep
    PROVE  OnceInv' /\ NotRepeated
  <1> USE Constants DEF logVars, threadVars, worker, optionVars, passVars
  <1>1. CASE PassBegins \/ Predict
    <2>1. /\ UNCHANGED <<now, up, count, log, entry, done, taken, loggedRuns, disk, queue, item>>
          /\ up /\ now <= now'
      BY <1>1, Clock DEF PassBegins, Predict, CanCall
    <2>2. \A u \in due' : u \in due \/ \A n \in log : entry[n].run # u
      BY <1>1 DEF PassBegins, Predict, Due, Skipped
    <2>3. DueNotInLog' /\ AllMade'
      BY <2>1, <2>2 DEF OnceInv, DueNotInLog, AllMade
    <2> QED
      BY <2>1, <2>3, LogAlone DEF OnceInv
  <1>2. ASSUME NEW n \in Number, EndRun(n) PROVE OnceInv' /\ NotRepeated
    BY <1>2, FinishOnce DEF EndRun
  <1>3. ASSUME NEW u \in Occ, StartDue(u) PROVE OnceInv' /\ NotRepeated
    <2>1. /\ StartRun(Scheduler, u, OccStart[u], OccEnd[u]) /\ u \in due /\ due' = due \ {u}
          /\ up /\ UNCHANGED <<now, taken, loggedRuns, queue, item, disk, up>>
      BY <1>3 DEF StartDue, CanCall
    <2>2. /\ log' = log \cup {count'} /\ done' = done /\ AllMade' /\ KnownOrForgotten'
          /\ entry'[count'].run = u /\ \A n \in log : entry'[n] = entry[n]
      BY <2>1, NewNumber
    <2>3. DueNotInLog'
      BY <2>1, <2>2 DEF OnceInv, DueNotInLog
    <2>4. \A d \in done : d.run = u => MayForget(d)
      BY <2>1 DEF OnceInv, KnownOrForgotten, DueNotInLog, Remembers
    <2>5. NotRepeated
      BY <2>2, <2>4 DEF NotRepeated
    <2> QED
      BY <2>2, <2>3, <2>5 DEF OnceInv
  <1> QED
    BY <1>1, <1>2, <1>3 DEF PassStep

\* A user clears what may go: it is no longer asked for.
LEMMA ClearOnce ==
    ASSUME TypeOK, TypeOK', OnceInv, NEW c \in Client, ClearRuns(c)
    PROVE  OnceInv' /\ NotRepeated
  <1>1. UNCHANGED <<now, up, entry, count, due, taken, loggedRuns, queue, item, disk>>
    BY DEF ClearRuns, worker, optionVars, passVars
  <1>2. log' = log \ Prunable(0) /\ done' = {d \in done : d.number \notin Prunable(0)}
    BY DEF ClearRuns
  <1>3. Active' \subseteq Active
    BY <1>1, <1>2 DEF Active
  <1>4. ASSUME up, NEW d \in done' PROVE Remembers(d)' \/ MayForget(d)'
    <2>1. d \in done /\ d.number \notin Prunable(0)
      BY <1>2
    <2>2. CASE Remembers(d)
      BY <1>1, <1>2, <2>1, <2>2 DEF Remembers
    <2>3. CASE MayForget(d)
      BY <1>1, <1>3, <2>3 DEF MayForget
    <2> QED
      BY <1>4, <2>1, <2>2, <2>3 DEF OnceInv, KnownOrForgotten
  <1>5. KnownOrForgotten'
    BY <1>1, <1>4 DEF KnownOrForgotten
  <1>6. AllMade' /\ DueNotInLog' /\ NotRepeated
    BY <1>1, <1>2 DEF OnceInv, AllMade, DueNotInLog, NotRepeated
  <1> QED
    BY <1>5, <1>6 DEF OnceInv

\* A request makes no run of a program.
LEMMA HandlerOnce ==
    ASSUME TypeOK, TypeOK', OnceInv, NEW c \in Client, Request(c) \/ HandlerStep(c)
    PROVE  OnceInv' /\ NotRepeated
  <1> USE Constants DEF logVars, threadVars, worker, optionVars, passVars
  <1>1. CASE StopAll(c) \/ ToggleManualMode(c) \/ AskByHand(c)
    <2>1. /\ UNCHANGED <<now, up, count, log, entry, done, due, taken, loggedRuns, disk,
                        queue, item>>
          /\ now <= now'
      <3>1. now \in Nat
        BY Clock
      <3>2. CASE StopAll(c)
        BY <3>1, <3>2 DEF StopAll
      <3>3. CASE ToggleManualMode(c)
        BY <3>1, <3>3 DEF ToggleManualMode
      <3>4. CASE AskByHand(c)
        <4>1. UNCHANGED <<now, up, logVars, taken, worker, optionVars, passVars, done>>
          BY <3>4 DEF AskByHand
        <4> QED
          BY <3>1, <4>1
      <3> QED
        BY <1>1, <3>2, <3>3, <3>4
    <2>2. AllMade' /\ DueNotInLog'
      BY <2>1 DEF OnceInv, AllMade, DueNotInLog
    <2> QED
      BY <2>1, <2>2, LogAlone DEF OnceInv
  <1>2. CASE ClearAllRuns(c)
    BY <1>2 DEF ClearAllRuns, OnceInv, AllMade, KnownOrForgotten, DueNotInLog, NotRepeated
  <1>3. ASSUME NEW n \in Number, StopRun(c, n) PROVE OnceInv' /\ NotRepeated
    BY <1>3, FinishOnce DEF StopRun
  <1>4. CASE FinishAll(c)
    BY <1>4, FinishOnce DEF FinishAll
  <1>5. CASE LogByHand(c)
    <2>1. StartRun(c, Hand, now, Forever) /\ due' = due
          /\ UNCHANGED <<now, taken, loggedRuns, queue, item, disk, up>>
      BY <1>5 DEF LogByHand
    <2>2. /\ log' = log \cup {count'} /\ done' = done /\ AllMade' /\ KnownOrForgotten'
          /\ entry'[count'].run = Hand /\ \A n \in log : entry'[n] = entry[n]
      BY <2>1, NewNumber
    <2>3. Hand \notin due /\ \A d \in done : d.run # Hand
      BY DEF TypeOK, OtherTypes, Finished
    <2>4. DueNotInLog' /\ NotRepeated
      BY <2>1, <2>2, <2>3 DEF OnceInv, DueNotInLog, NotRepeated
    <2> QED
      BY <2>2, <2>4 DEF OnceInv
  <1>6. CASE ClearRuns(c)
    BY <1>6, ClearOnce
  <1> QED
    BY <1>1, <1>2, <1>3, <1>4, <1>5, <1>6 DEF Request, HandlerStep

\* After a start the log is what was on disk, and so is what it knows to be finished.
LEMMA StartOnce ==
    ASSUME TypeOK, OnceInv, Start
    PROVE  OnceInv' /\ NotRepeated
  <1> USE DEF worker, passVars
  <1>1. /\ UNCHANGED <<count, taken, worker, disk, due>> /\ ~up
        /\ log' = DOMAIN disk.runs /\ loggedRuns' = DOMAIN disk.runs
    BY DEF Start
  <1>2. \A n \in DOMAIN disk.runs : entry'[n].run = disk.runs[n].run
    BY DEF Start, TypeOK, DiskTypes, Record
  <1>3. \A d \in done' : \E n \in DOMAIN disk.runs :
          /\ ~entry'[n].active
          /\ d = [run |-> disk.runs[n].run, number |-> n, end |-> entry'[n].end]
    BY DEF Start
  <1>4. \A d \in done' : Remembers(d)'
    BY <1>1, <1>2, <1>3 DEF Remembers
  <1>5. KnownOrForgotten'
    BY <1>4 DEF KnownOrForgotten
  <1> QED
    BY <1>1, <1>5 DEF OnceInv, AllMade, DueNotInLog, NotRepeated

\* Every step keeps the invariant, and repeats only what may have been forgotten.
LEMMA NextOnce ==
    ASSUME TypeOK, TypeOK', OnceInv, [Next]_vars
    PROVE  OnceInv' /\ NotRepeated
  <1> USE DEF logVars, threadVars, worker, optionVars, passVars
  <1>1. CASE Tick \/ UNCHANGED vars
    <2>1. /\ UNCHANGED <<up, logVars, threadVars, worker, optionVars, passVars, done>>
          /\ now <= now'
      BY <1>1, Clock DEF Tick, vars
    <2>2. AllMade' /\ DueNotInLog'
      BY <2>1 DEF OnceInv, AllMade, DueNotInLog
    <2> QED
      BY <2>1, <2>2, LogAlone DEF OnceInv
  <1>2. CASE Crash
    BY <1>2 DEF Crash, OnceInv, AllMade, KnownOrForgotten, DueNotInLog, NotRepeated
  <1>3. CASE Start
    BY <1>3, StartOnce
  <1> QED
    BY <1>1, <1>2, <1>3, LogStepOnce, SavedOnce, PassOnce, HandlerOnce DEF Next

\* Whatever is stopped, pruned, written late or lost in a crash, and whatever the log is set
\* to keep: a pass starts an occurrence that has run and been finished again only if the log
\* may have forgotten each of its runs - it ended a while ago, no run that began before or
\* soon after is active, enough runs were logged since, and no weather program needs it.
THEOREM RunsOnce == Spec => RepeatedIfForgotten
  <1>1. Init => OnceInv
    BY DEF Init, OnceInv, AllMade, KnownOrForgotten, DueNotInLog
  <1>2. TypeOK /\ TypeOK' /\ OnceInv /\ [Next]_vars => OnceInv' /\ NotRepeated
    BY NextOnce
  <1> QED
    BY <1>1, <1>2, HistoryTypes, PTL DEF Spec, RepeatedIfForgotten, NotRepeated
=============================================================================

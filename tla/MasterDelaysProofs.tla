-------------------------- MODULE MasterDelaysProofs --------------------------
(***************************************************************************)
(* Theorems about the masters with offsets, for any runs, offsets and      *)
(* times.  The log of runs and the runs there have been differ only in     *)
(* runs that ended longer ago than the log has to keep (Inv), so a master  *)
(* misses none whose stop offset is within that limit.                     *)
(***************************************************************************)
EXTENDS MasterDelays, TLAPS

\* No stop offset is longer than the log keeps a finished run.
LagFits ==
    \A o \in Options, m \in Masters :
        \/ m \notin o.present
        \/ o.runLog
        \/ o.off[m] <= (IF o.off[1] > Floor THEN o.off[1] ELSE Floor)

\* The second master has offsets if the first one has.
BothDelayed ==
    \A o \in Options :
        1 \in o.present /\ 2 \in o.present /\ (o.on[1] # 0 \/ o.off[1] # 0)
            => o.on[2] # 0 \/ o.off[2] # 0

\* What the log has forgotten ended longer ago than Keep.
Forgotten ==
    /\ log \subseteq past
    /\ \A e \in past \ log : ~e.active /\ ~options.runLog /\ now - e.end > Keep

Inv == TypeOK /\ Forgotten

-----------------------------------------------------------------------------
(* Settings and entries. *)

\* The settings that a behaviour starts with have their types.
LEMMA OptionTypes ==
    ASSUME options \in Options
    PROVE  /\ options.manual \in BOOLEAN /\ options.runLog \in BOOLEAN
           /\ options.present \subseteq Masters
           /\ \A m \in Masters : options.on[m] \in Int /\ options.off[m] \in Int
           /\ Keep \in Int /\ Keep >= 0
  <1>1. options \in [manual : BOOLEAN, runLog : BOOLEAN, present : SUBSET Masters,
                     on : [Masters -> Int], off : [Masters -> Int]]
    BY MasterAssumption
  <1>2. 1 \in Masters
    BY DEF Masters
  <1> QED
    BY <1>1, <1>2, MasterAssumption DEF Keep

\* An occurrence of a run is an entry.
LEMMA OccurrenceType ==
    ASSUME NEW r \in Runs
    PROVE  /\ Occurrence(r) \in Entries
           /\ Occurrence(r).run = r /\ ~Occurrence(r).active
           /\ Occurrence(r).start = Start[r]
  BY MasterAssumption DEF Occurrence, Entries

\* Closing entries keeps their types, and closes them by now.
LEMMA ClosedType ==
    ASSUME NEW t \in Nat, NEW entries \in SUBSET {e \in Entries : ~e.active => e.end <= t},
           NEW stopped \in SUBSET Entries
    PROVE  Closed(entries, stopped, t) \subseteq {e \in Entries : ~e.active => e.end <= t}
  <1> DEFINE again == {[e EXCEPT !.end = t, !.active = FALSE] : e \in stopped}
  <1>1. \A c \in again : c \in Entries /\ ~c.active /\ c.end = t
    BY DEF Entries
  <1> HIDE DEF again
  <1>2. again \subseteq {e \in Entries : ~e.active => e.end <= t}
    BY <1>1
  <1> QED
    BY <1>2 DEF Closed, again

-----------------------------------------------------------------------------
(* The log forgets. *)

\* The entries l are those of p, but for some that ended long before t.
Over(p, l, t) ==
    /\ l \subseteq p
    /\ \A e \in p \ l : ~e.active /\ ~options.runLog /\ t - e.end > Keep

\* Closing some entries on both sides, later than now, changes nothing.
LEMMA ClosedOver ==
    ASSUME Inv, NEW t \in Nat, t >= now, NEW stopped \in SUBSET Active(log)
    PROVE  Over(Closed(past, stopped, t), Closed(log, stopped, t), t)
  <1>1. log \subseteq past /\ \A e \in past \ log : ~e.active /\ ~options.runLog /\ now - e.end > Keep
    BY DEF Inv, Forgotten
  <1>2. \A e \in past : e.end \in Nat
    BY DEF Inv, TypeOK, Entries
  <1>3. now \in Nat /\ Keep \in Int
    BY OptionTypes DEF Inv, TypeOK
  <1> DEFINE again == {[e EXCEPT !.end = t, !.active = FALSE] : e \in stopped}
             l == (log \ stopped) \cup again
             p == (past \ stopped) \cup again
  <1>4. l \subseteq p
    BY <1>1
  <1>5. p \ l \subseteq past \ log
    OBVIOUS
  <1> HIDE DEF l, p, again
  <1>6. \A e \in p \ l : ~e.active /\ ~options.runLog /\ t - e.end > Keep
    BY <1>1, <1>2, <1>3, <1>5
  <1> QED
    BY <1>4, <1>6 DEF l, p, again, Closed, Over

\* Nor does adding entries to both.
LEMMA AddedOver ==
    ASSUME NEW p, NEW l, NEW a, NEW t, Over(p, l, t)
    PROVE  Over(p \cup a, l \cup a, t)
  BY DEF Over

\* clear_runs takes away only what is over.
LEMMA RememberedOver ==
    ASSUME NEW t \in Nat, NEW p \in SUBSET Entries, NEW l, Over(p, l, t), options \in Options
    PROVE  Over(p, Remembered(l, t), t)
  <1>1. Keep \in Int /\ options.runLog \in BOOLEAN
    BY OptionTypes
  <1>2. \A e \in p : e.end \in Nat /\ e.active \in BOOLEAN
    BY DEF Entries
  <1>3. Remembered(l, t) \subseteq l
    BY DEF Remembered
  <1>4. ASSUME NEW e \in l \ Remembered(l, t)
        PROVE  ~e.active /\ ~options.runLog /\ ~(t - e.end <= Keep)
    BY <1>4 DEF Remembered
  <1> QED
    BY <1>1, <1>2, <1>3, <1>4 DEF Over

-----------------------------------------------------------------------------
(* The invariant. *)

\* A new installation has no runs.
LEMMA InvInit == Init => Inv
  <1> SUFFICES ASSUME Init PROVE Inv
    OBVIOUS
  <1>1. TypeOK
    BY DEF Init, TypeOK
  <1>2. Forgotten
    BY DEF Init, Forgotten
  <1> QED
    BY <1>1, <1>2 DEF Inv

\* A round of the scheduler: runs end, runs start, and the log forgets.
LEMMA CheckStep ==
    ASSUME Inv, CheckSchedule
    PROVE  Inv'
  <1> DEFINE t == now + 1
             ended == {e \in Active(log) : e.end <= t}
             closed == IF ended = {} THEN log ELSE Remembered(Closed(log, ended, t), t)
             due == {r \in Predicted(closed) :
                         ~options.manual /\ Start[r] <= t /\ t < Start[r] + Length[r]}
             started == {[Occurrence(r) EXCEPT !.start = t, !.active = TRUE] : r \in due}
             logged == IF due = {} THEN closed ELSE Remembered(closed \cup started, t)
             gone == Closed(past, ended, t)
  <1>0. now' = t
    BY DEF CheckSchedule
  <1>1. /\ now' = t /\ t \in Nat /\ t >= now
        /\ options \in Options
        /\ past \subseteq {e \in Entries : ~e.active => e.end <= now}
        /\ past \subseteq {e \in Entries : ~e.active => e.end <= t}
    <2>1. now \in Nat /\ options \in Options
          /\ past \subseteq {e \in Entries : ~e.active => e.end <= now}
      BY DEF Inv, TypeOK
    <2>2. \A e \in Entries : e.end \in Nat
      BY DEF Entries
    <2> QED
      BY <1>0, <2>1, <2>2
  <1>2. log' = logged /\ past' = gone \cup started
    BY DEF CheckSchedule
  <1>3. options' = options /\ enabled' = enabled /\ plan' = plan /\ requests' = requests
    BY DEF CheckSchedule
  <1>4. ended \subseteq Active(log) /\ Active(log) \subseteq Entries
    BY DEF Active, Inv, TypeOK
  <1>5. gone \subseteq {e \in Entries : ~e.active => e.end <= t}
    BY <1>1, <1>4, ClosedType
  <1>6. started \subseteq {e \in Entries : ~e.active => e.end <= t}
    <2>1. due \subseteq Runs
      BY DEF Predicted, Inv, TypeOK
    <2>2. ASSUME NEW r \in due
          PROVE  [Occurrence(r) EXCEPT !.start = t, !.active = TRUE] \in Entries
                 /\ [Occurrence(r) EXCEPT !.start = t, !.active = TRUE].active
      <3>1. r \in Runs /\ t \in Nat
        BY <2>1, <2>2, <1>1
      <3> HIDE DEF t
      <3>2. Occurrence(r) \in Entries
        BY <3>1, OccurrenceType
      <3> QED
        BY <3>1, <3>2 DEF Entries
    <2>3. ASSUME NEW s \in started PROVE s \in Entries /\ s.active
      BY <2>2, <2>3
    <2> HIDE DEF started
    <2> QED
      BY <2>3
  <1> HIDE DEF due
  <1>7. Over(gone, Closed(log, ended, t), t)
    BY <1>1, <1>4, ClosedOver
  <1>8. Over(gone, closed, t)
    <2>1. CASE ended = {}
      BY <2>1, <1>7 DEF Closed
    <2>2. CASE ended # {}
      <3>1. closed = Remembered(Closed(log, ended, t), t) /\ gone \subseteq Entries
        BY <2>2, <1>5
      <3> QED
        BY <3>1, <1>1, <1>7, RememberedOver
    <2> QED
      BY <2>1, <2>2
  <1> HIDE DEF closed, gone
  <1>9. Over(gone \cup started, logged, t)
    <2>1. Over(gone \cup started, closed \cup started, t)
      BY <1>8, AddedOver
    <2>2. CASE due = {}
      <3>1. started = {} /\ logged = closed
        BY <2>2
      <3> QED
        BY <3>1, <2>1
    <2>3. CASE due # {}
      <3>1. logged = Remembered(closed \cup started, t) /\ gone \cup started \subseteq Entries
        BY <2>3, <1>5, <1>6
      <3> QED
        BY <3>1, <2>1, <1>1, RememberedOver
    <2> QED
      BY <2>2, <2>3
  <1> HIDE DEF started, logged, ended, t
  <1>10. TypeOK'
    <2>1. logged \subseteq Entries
      BY <1>5, <1>6, <1>9 DEF Over
    <2>2. running' \subseteq Masters
      BY <1>1, OptionTypes DEF CheckSchedule
    <2> QED
      BY <1>1, <1>2, <1>3, <1>5, <1>6, <2>1, <2>2 DEF TypeOK, Inv
  <1>11. Keep' = Keep
    BY <1>3 DEF Keep
  <1>12. Forgotten'
    BY <1>1, <1>2, <1>3, <1>9, <1>11 DEF Forgotten, Over
  <1> QED
    BY <1>10, <1>12 DEF Inv

\* A request stops runs.
LEMMA StopStep ==
    ASSUME Inv, NEW stopped \in SUBSET Active(log), Stop(stopped),
           enabled' \in BOOLEAN, running' \subseteq Masters
    PROVE  Inv'
  <1>1. /\ now \in Nat /\ now' = now /\ options' = options /\ options \in Options
        /\ plan' = plan /\ requests' \in Nat
        /\ log' = Remembered(Closed(log, stopped, now), now)
        /\ past' = Closed(past, stopped, now)
    BY DEF Stop, Request, Inv, TypeOK
  <1>2. Closed(past, stopped, now) \subseteq {e \in Entries : ~e.active => e.end <= now}
    BY <1>1, ClosedType DEF Active, Inv, TypeOK
  <1>3. Over(Closed(past, stopped, now), Closed(log, stopped, now), now)
    BY <1>1, ClosedOver
  <1>4. Over(past', log', now)
    BY <1>1, <1>2, <1>3, RememberedOver
  <1>5. TypeOK'
    BY <1>1, <1>2, <1>4 DEF TypeOK, Inv, Over
  <1>6. Keep' = Keep
    BY <1>1 DEF Keep
  <1> QED
    BY <1>1, <1>4, <1>5, <1>6 DEF Inv, Forgotten, Over

\* A request starts a station by hand.
LEMMA HandStep ==
    ASSUME Inv, NEW r \in Runs, StartByHand(r)
    PROVE  Inv'
  <1> DEFINE e == [run |-> r, origin |-> now, start |-> now, end |-> now + Length[r],
                   active |-> TRUE]
  <1>1. /\ now \in Nat /\ now' = now /\ options' = options /\ options \in Options
        /\ plan' = plan /\ requests' \in Nat /\ enabled' = enabled /\ running' = running
        /\ log' = Remembered(log \cup {e}, now)
        /\ past' = past \cup {e}
    BY DEF StartByHand, Request, Inv, TypeOK
  <1>2. e \in Entries /\ e.active
    BY <1>1, MasterAssumption DEF Entries
  <1> HIDE DEF e
  <1>3. past' \subseteq {x \in Entries : ~x.active => x.end <= now}
    BY <1>1, <1>2 DEF Inv, TypeOK
  <1>4. Over(past, log, now)
    BY DEF Inv, Forgotten, Over
  <1>5. Over(past', log', now)
    BY <1>1, <1>3, <1>4, AddedOver, RememberedOver
  <1>6. TypeOK'
    BY <1>1, <1>3, <1>5 DEF TypeOK, Inv, Over
  <1>7. Keep' = Keep
    BY <1>1 DEF Keep
  <1> QED
    BY <1>1, <1>5, <1>6, <1>7 DEF Inv, Forgotten, Over

\* Every step keeps the invariant.
LEMMA InvStep == Inv /\ [Next]_vars => Inv'
  <1> SUFFICES ASSUME Inv, [Next]_vars PROVE Inv'
    OBVIOUS
  <1>1. CASE CheckSchedule
    BY <1>1, CheckStep
  <1>2. CASE StopAll
    BY <1>2, StopStep DEF StopAll, Inv, TypeOK
  <1>3. ASSUME NEW r \in Runs, StopOne(r) PROVE Inv'
    BY <1>3, StopStep DEF StopOne, Inv, TypeOK
  <1>4. ASSUME NEW r \in Runs, StartByHand(r) PROVE Inv'
    BY <1>4, HandStep
  <1>5. CASE Enable \/ (\E r \in Runs : ChangePlan(r)) \/ UNCHANGED vars
    <2>1. Keep' = Keep /\ UNCHANGED <<options, now, log, past, running>>
      BY <1>5 DEF Enable, ChangePlan, vars, Keep
    <2>2. enabled' \in BOOLEAN /\ plan' \subseteq Runs /\ requests' \in Nat
      <3>1. CASE Enable
        BY <3>1 DEF Enable, Request, Inv, TypeOK
      <3>2. CASE \E r \in Runs : ChangePlan(r)
        BY <3>2 DEF ChangePlan, Request, Inv, TypeOK
      <3>3. CASE UNCHANGED vars
        BY <3>3 DEF vars, Inv, TypeOK
      <3> QED
        BY <1>5, <3>1, <3>2, <3>3
    <2>3. TypeOK'
      BY <2>1, <2>2 DEF Inv, TypeOK
    <2> QED
      BY <2>1, <2>3 DEF Inv, Forgotten
  <1> QED
    BY <1>1, <1>2, <1>3, <1>4, <1>5 DEF Next

\* TypeOK: every entry of the log is a run, and one that is over has ended by now.
THEOREM MasterTypes == Spec => []TypeOK
  <1> QED
    BY InvInit, InvStep, PTL DEF Spec, Inv

\* LagIsLogged follows from the invariant, if the settings fit the log.
LEMMA LagFollows == LagFits /\ Inv => LagIsLogged
  <1> SUFFICES ASSUME LagFits, Inv, NEW m \in options.present, NEW e \in past,
                      now < e.end + options.off[m], e \notin log
               PROVE  FALSE
    BY DEF LagIsLogged
  <1>1. options \in Options /\ now \in Nat /\ e.end \in Nat
    BY DEF Inv, TypeOK, Entries
  <1>2. m \in Masters /\ options.off[m] \in Int /\ Keep \in Int
    BY <1>1, OptionTypes
  <1>3. ~options.runLog /\ now - e.end > Keep
    BY DEF Inv, Forgotten
  <1>4. options.off[m] <= Keep
    BY <1>1, <1>2, <1>3 DEF LagFits, Keep
  <1> QED
    BY <1>1, <1>2, <1>3, <1>4

\* LagIsLogged: as long as a run that has ended may keep a master on, the log has it.
THEOREM LagLogged == LagFits => (Spec => []LagIsLogged)
  <1>1. LagFits /\ Inv => LagIsLogged
    BY LagFollows
  <1> SUFFICES ASSUME LagFits PROVE Spec => []LagIsLogged
    OBVIOUS
  <1>2. Inv => LagIsLogged
    BY <1>1
  <1> QED
    BY <1>2, InvInit, InvStep, PTL DEF Spec

-----------------------------------------------------------------------------
(* The masters. *)

\* A master without offsets looks at the runs that were active.
LEMMA ViewsActive ==
    ASSUME BothDelayed, options \in Options, NEW m \in options.present,
           ~Delayed(m), NEW listed, NEW entries, NEW t
    PROVE  View(m, listed, entries, t) = listed
  <1>1. m \in {1, 2}
    BY OptionTypes DEF Masters
  <1>2. m = 2 /\ 1 \in options.present => ~Delayed(1)
    BY DEF BothDelayed, Delayed
  <1> QED
    BY <1>1, <1>2 DEF View, ViewFor

\* A master with offsets looks at least at the active and the finished runs.
LEMMA ViewsLogged ==
    ASSUME options \in Options, NEW m \in options.present, Delayed(m),
           NEW listed, NEW entries, NEW t
    PROVE  /\ options.manual =>
                listed \cup Finished(entries) \subseteq View(m, listed, entries, t)
           /\ ~options.manual => Combined(entries, t) \subseteq View(m, listed, entries, t)
  <1>1. m \in {1, 2}
    BY OptionTypes DEF Masters
  <1> QED
    BY <1>1 DEF View, ViewFor

\* A round of the scheduler switches on what a run needs.
LEMMA ServesStep ==
    ASSUME BothDelayed, Inv, Inv', LagIsLogged', CheckSchedule,
           NEW m \in options.present, NEW e \in past \cup Coming',
           m \in Needs[e.run], InWindow(e, m, now')
    PROVE  m \in running'
  <1> DEFINE t == now + 1
             listed == Active(log)
             ended == {x \in listed : x.end <= t}
             views == View(m, listed, log', t)
  <1>1. /\ now' = t /\ now \in Nat /\ options \in Options
        /\ options' = options /\ plan' = plan /\ enabled' = enabled
    BY DEF CheckSchedule, Inv, TypeOK
  <1>2. running' = {x \in options.present : Wanted(x, listed, log', t)}
    BY DEF CheckSchedule
  <1>3. SUFFICES \E x \in views : x.run = e.run /\ (Delayed(m) => InWindow(x, m, t))
    BY <1>2, <1>3 DEF Wanted
  <1>4. m \in Masters /\ options.on[m] \in Int /\ options.off[m] \in Int
    BY <1>1, OptionTypes
  <1>5. e.start + options.on[m] <= t /\ t < e.end + options.off[m]
    BY <1>1 DEF InWindow
  <1>6. e \in past => e \in Entries /\ e.start \in Nat /\ e.end \in Nat /\ e.active \in BOOLEAN
                      /\ (~e.active => e.end <= now)
    BY DEF Inv, TypeOK, Entries
  <1>7. e \in past /\ e.active => e \in listed
    BY DEF Inv, Forgotten, Active
  <1>8. CASE ~Delayed(m)
    <2>1. options.on[m] = 0 /\ options.off[m] = 0
      BY <1>8 DEF Delayed
    <2>2. e \notin Coming'
      <3>1. ASSUME e \in Coming' PROVE e.start \in Nat /\ t < e.start
        <4>1. PICK r \in Runs : e = Occurrence(r) /\ now' < Start[r]
          BY <3>1 DEF Coming, Predicted, Inv, TypeOK
        <4> QED
          BY <4>1, <1>1, OccurrenceType, MasterAssumption
      <3> QED
        BY <3>1, <2>1, <1>1, <1>5
    <2>3. e \in past /\ e.active
      BY <2>1, <2>2, <1>1, <1>5, <1>6
    <2>4. views = listed
      BY <1>1, <1>8, ViewsActive
    <2> QED
      BY <2>3, <2>4, <1>7, <1>8
  <1>9. CASE Delayed(m) /\ e \in Coming'
    <2>1. PICK r \in plan' : /\ e = Occurrence(r) /\ ~options'.manual
                             /\ enabled' /\ ~Skipped(r, log') /\ now' < Start[r]
      BY <1>9 DEF Coming, Predicted
    <2>2. ~options.manual /\ e \in Combined(log', t)
      <3>1. t <= Start[r]
        BY <2>1, <1>1, MasterAssumption DEF Inv, TypeOK
      <3> QED
        BY <3>1, <2>1, <1>1 DEF Combined, Predicted
    <2>3. e \in views
      BY <2>2, <1>1, <1>9, ViewsLogged
    <2> QED
      BY <2>3, <1>1
  <1>10. CASE Delayed(m) /\ e \in past
    <2>1. log' \subseteq Combined(log', t)
      BY DEF Combined
    <2>3. ASSUME NEW x \in past', x.run = e.run, InWindow(x, m, t),
                 x.active => x \in listed
          PROVE  \E y \in views : y.run = e.run /\ InWindow(y, m, t)
      <3>1. t < x.end + options.off[m]
        BY <2>3 DEF InWindow
      <3>2. x \in log'
        BY <3>1, <2>3, <1>1 DEF LagIsLogged
      <3>3. CASE options.manual
        BY <3>2, <3>3, <2>3, <1>1, <1>10, ViewsLogged DEF Finished
      <3>4. CASE ~options.manual
        BY <3>2, <3>4, <2>1, <2>3, <1>1, <1>10, ViewsLogged
      <3> QED
        BY <3>3, <3>4
    <2>4. Closed(past, ended, t) \subseteq past'
      BY DEF CheckSchedule
    <2>5. CASE e \in ended
      <3> DEFINE x == [e EXCEPT !.end = t, !.active = FALSE]
      <3>1. x \in past'
        BY <2>4, <2>5 DEF Closed
      <3>2. /\ x.run = e.run /\ x.start = e.start /\ x.end = t /\ ~x.active
        BY <1>6, <1>10 DEF Entries
      <3>3. e.end <= t
        BY <2>5
      <3>4. InWindow(x, m, t)
        BY <3>2, <3>3, <1>1, <1>4, <1>5, <1>6, <1>10 DEF InWindow
      <3> QED
        BY <3>1, <3>2, <3>4, <2>3, <1>10
    <2>6. CASE e \notin ended
      <3>1. e \in past'
        BY <2>4, <2>6, <1>10 DEF Closed
      <3> QED
        BY <3>1, <2>3, <1>1, <1>5, <1>7, <1>10 DEF InWindow
    <2> QED
      BY <2>5, <2>6
  <1> QED
    BY <1>8, <1>9, <1>10

\* MasterServes: whatever the runs, the offsets and the requests, a master whose lag
\* the log keeps is on from the start to the end of a run, both moved by its offsets.
THEOREM MastersServe == LagFits /\ BothDelayed => (Spec => MasterServes)
  <1> SUFFICES ASSUME LagFits, BothDelayed PROVE Spec => MasterServes
    OBVIOUS
  <1>1. ASSUME Inv, Inv', LagIsLogged', [Next]_vars, now' # now
        PROVE  \A m \in options.present, e \in past \cup Coming' :
                    m \in Needs[e.run] /\ InWindow(e, m, now') => m \in running'
    <2>1. CheckSchedule
      BY <1>1 DEF Next, StopAll, StopOne, Stop, StartByHand, ChangePlan, Enable, vars
    <2> QED
      BY <2>1, <1>1, ServesStep
  <1>2. Inv /\ Inv' /\ LagIsLogged' /\ [Next]_vars =>
          [now' # now => \A m \in options.present, e \in past \cup Coming' :
                    m \in Needs[e.run] /\ InWindow(e, m, now') => m \in running']_vars
    BY <1>1
  <1>3. Inv => LagIsLogged
    BY LagFollows
  <1> QED
    BY <1>2, <1>3, InvInit, InvStep, PTL DEF Spec, MasterServes

-----------------------------------------------------------------------------
(* No master without a run. *)

\* A station that is switched on by hand without a time stays on for years.
RunsTakeTime == \A r \in Runs : Length[r] > 0

\* An active run has begun and has yet to end.
InProgress == \A e \in past : e.start <= now /\ (e.active => now < e.end)

\* Where the programs decide, every run there has been is one of theirs.
FromPrograms ==
    ~options.manual => \A e \in past : e.origin = Start[e.run] /\ e.origin <= now

RestInv == InProgress /\ FromPrograms

LEMMA RestInit == Init => RestInv
  BY DEF Init, RestInv, InProgress, FromPrograms

\* Closing entries at a time that is not before now moves no start and no origin.
LEMMA ClosedRest ==
    ASSUME Inv, RestInv, NEW stopped \in SUBSET past, NEW t \in Nat, t >= now,
           NEW c \in Closed(past, stopped, t)
    PROVE  /\ c.start <= t
           /\ c.active => c \in past \ stopped
           /\ ~options.manual => c.origin = Start[c.run] /\ c.origin <= t
  <1>1. past \subseteq Entries /\ now \in Nat
    BY DEF Inv, TypeOK
  <1>2. \A e \in past : /\ e \in Entries /\ e.start \in Nat /\ e.origin \in Nat
                        /\ e.start <= now
                        /\ ~options.manual => e.origin = Start[e.run] /\ e.origin <= now
    BY <1>1 DEF RestInv, InProgress, FromPrograms, Entries
  <1>3. CASE c \in past \ stopped
    BY <1>1, <1>2, <1>3
  <1>4. CASE \E e \in stopped : c = [e EXCEPT !.end = t, !.active = FALSE]
    <2>1. PICK e \in stopped : c = [e EXCEPT !.end = t, !.active = FALSE]
      BY <1>4
    <2>2. e \in past /\ e \in Entries
      BY <1>1
    <2>3. c.start = e.start /\ ~c.active /\ c.origin = e.origin /\ c.run = e.run
      BY <2>1, <2>2 DEF Entries
    <2> QED
      BY <1>1, <1>2, <2>2, <2>3
  <1> QED
    BY <1>3, <1>4 DEF Closed

\* A run that a round of the scheduler starts.
LEMMA StartedRest ==
    ASSUME NEW r \in Runs, NEW t \in Nat, Start[r] <= t, t < Start[r] + Length[r],
           NEW e, e = [Occurrence(r) EXCEPT !.start = t, !.active = TRUE]
    PROVE  /\ e.start <= t /\ t < e.end
           /\ e.origin = Start[e.run] /\ e.origin <= t
  BY DEF Occurrence

LEMMA RestStep ==
    ASSUME RunsTakeTime, Inv, RestInv, [Next]_vars
    PROVE  RestInv'
  <1>0. /\ now \in Nat /\ past \subseteq Entries /\ log \subseteq past
        /\ Active(past) \subseteq log
    BY DEF Inv, TypeOK, Forgotten, Active
  <1>1. CASE CheckSchedule
    <2> DEFINE t == now + 1
               ended == {e \in Active(log) : e.end <= t}
               closed == IF ended = {} THEN log ELSE Remembered(Closed(log, ended, t), t)
               due == {r \in Predicted(closed) :
                           ~options.manual /\ Start[r] <= t /\ t < Start[r] + Length[r]}
               started == {[Occurrence(r) EXCEPT !.start = t, !.active = TRUE] : r \in due}
    <2>0. t \in Nat /\ t >= now
      BY <1>0
    <2>1. /\ now' = t /\ past' = Closed(past, ended, t) \cup started
          /\ options' = options
      BY <1>1 DEF CheckSchedule
    <2>2. ended \subseteq past
      BY <1>0 DEF Active
    <2>3. \A e \in Closed(past, ended, t) :
              /\ e.start <= t
              /\ e.active => e \in past \ ended
              /\ ~options.manual => e.origin = Start[e.run] /\ e.origin <= t
      BY <2>0, <2>2, ClosedRest
    <2>4. \A e \in past \ ended : e.active => t < e.end
      <3>1. ASSUME NEW e \in past \ ended, e.active PROVE t < e.end
        <4>1. e \in Active(log) /\ e.end \in Nat
          BY <1>0, <3>1 DEF Active, Entries
        <4> QED
          BY <4>1, <1>0
      <3> QED
        BY <3>1
    <2>5. \A e \in started : /\ e.start <= t /\ t < e.end
                             /\ e.origin = Start[e.run] /\ e.origin <= t
      <3>1. \A r \in due : r \in Runs /\ Start[r] <= t /\ t < Start[r] + Length[r]
        BY DEF Predicted, Inv, TypeOK
      <3>2. ASSUME NEW e \in started
            PROVE  /\ e.start <= t /\ t < e.end
                   /\ e.origin = Start[e.run] /\ e.origin <= t
        <4>1. PICK r \in due : e = [Occurrence(r) EXCEPT !.start = t, !.active = TRUE]
          BY <3>2
        <4>2. r \in Runs /\ Start[r] <= t /\ t < Start[r] + Length[r]
          BY <3>1
        <4> HIDE DEF t, due
        <4> QED
          BY <4>1, <4>2, <2>0, StartedRest
      <3> HIDE DEF due
      <3> QED
        BY <3>2
    <2> HIDE DEF t, ended, closed, due, started
    <2>6. InProgress'
      BY <2>1, <2>3, <2>4, <2>5 DEF InProgress
    <2>7. FromPrograms'
      BY <2>1, <2>3, <2>5 DEF FromPrograms
    <2> QED
      BY <2>6, <2>7 DEF RestInv
  <1>2. ASSUME NEW stopped \in SUBSET Active(log), Stop(stopped)
        PROVE  RestInv'
    <2>1. stopped \subseteq past /\ now >= now
      BY <1>0 DEF Active
    <2>2. now' = now /\ options' = options /\ past' = Closed(past, stopped, now)
      BY <1>2 DEF Stop
    <2>3. \A e \in past' : /\ e.start <= now
                           /\ e.active => e \in past
                           /\ ~options.manual => e.origin = Start[e.run] /\ e.origin <= now
      BY <1>0, <2>1, <2>2, ClosedRest
    <2> QED
      BY <2>2, <2>3 DEF RestInv, InProgress, FromPrograms
  <1>3. CASE StopAll
    BY <1>2, <1>3 DEF StopAll
  <1>4. ASSUME NEW r \in Runs, StopOne(r) PROVE RestInv'
    BY <1>2, <1>4 DEF StopOne
  <1>5. ASSUME NEW r \in Runs, StartByHand(r) PROVE RestInv'
    <2> DEFINE e == [run |-> r, origin |-> now, start |-> now, end |-> now + Length[r],
                     active |-> TRUE]
    <2>1. /\ options.manual /\ now' = now /\ options' = options /\ past' = past \cup {e}
      BY <1>5 DEF StartByHand
    <2>2. e.start <= now /\ now < e.end
      BY <1>0, MasterAssumption DEF RunsTakeTime
    <2> HIDE DEF e
    <2> QED
      BY <2>1, <2>2 DEF RestInv, InProgress, FromPrograms
  <1>6. CASE Enable \/ (\E r \in Runs : ChangePlan(r)) \/ UNCHANGED vars
    <2>1. UNCHANGED <<options, now, past>>
      BY <1>6 DEF Enable, ChangePlan, vars
    <2> QED
      BY <2>1 DEF RestInv, InProgress, FromPrograms
  <1> QED
    BY <1>1, <1>3, <1>4, <1>5, <1>6 DEF Next

\* What a master with offsets looks at.
LEMMA ViewsOnly ==
    ASSUME options \in Options, NEW m \in options.present, Delayed(m),
           NEW listed, NEW entries, NEW t, NEW e \in View(m, listed, entries, t)
    PROVE  IF options.manual THEN e \in listed \cup Finished(entries)
           ELSE e \in Combined(entries, t)
  <1>1. m \in {1, 2}
    BY OptionTypes DEF Masters
  <1>2. options.manual =>
            ViewFor(1, listed, entries, t) \subseteq listed \cup Finished(entries)
    BY DEF ViewFor
  <1> QED
    BY <1>1, <1>2 DEF View, ViewFor

\* A run whose time comes in a round is started by it, and is predicted no more.
LEMMA DueIsStarted ==
    ASSUME Inv, RestInv, RunsTakeTime, CheckSchedule, ~options.manual,
           NEW r \in Predicted(log)', Start[r] = now'
    PROVE  FALSE
  <1> DEFINE t == now + 1
             ended == {e \in Active(log) : e.end <= t}
             closed == IF ended = {} THEN log ELSE Remembered(Closed(log, ended, t), t)
             due == {p \in Predicted(closed) :
                         ~options.manual /\ Start[p] <= t /\ t < Start[p] + Length[p]}
             started == {[Occurrence(p) EXCEPT !.start = t, !.active = TRUE] : p \in due}
  <1>0. log' = IF due = {} THEN closed ELSE Remembered(closed \cup started, t)
    BY DEF CheckSchedule
  <1>1. /\ now' = t /\ now \in Nat /\ t \in Nat
        /\ options' = options /\ plan' = plan /\ enabled' = enabled
    <2>1. now' = now + 1 /\ options' = options /\ plan' = plan /\ enabled' = enabled
      BY DEF CheckSchedule
    <2>2. now \in Nat
      BY DEF Inv, TypeOK
    <2> QED
      BY <2>1, <2>2
  <1>2. /\ r \in plan /\ r \in Runs /\ enabled /\ Start[r] = t
        /\ \A e \in log' : e.run # r /\ ~(Start[r] < e.origin)
    BY <1>1 DEF Predicted, Skipped, Inv, TypeOK
  <1>3. ended \subseteq log /\ log \subseteq past /\ past \subseteq Entries
    BY DEF Active, Inv, TypeOK, Forgotten
  <1>4. \A e \in closed : \E o \in log : e.run = o.run /\ e.origin = o.origin
    <2>1. \A e \in Closed(log, ended, t) : \E o \in log : e.run = o.run /\ e.origin = o.origin
      <3>1. ASSUME NEW o \in ended
            PROVE  LET e == [o EXCEPT !.end = t, !.active = FALSE]
                   IN  e.run = o.run /\ e.origin = o.origin
        <4>1. o \in Entries
          BY <1>3
        <4> QED
          BY <4>1 DEF Entries
      <3> HIDE DEF ended, t
      <3> QED
        BY <3>1, <1>3 DEF Closed
    <2>2. closed \subseteq log \/ closed \subseteq Closed(log, ended, t)
      BY DEF Remembered
    <2> HIDE DEF closed, ended, t
    <2> QED
      BY <2>1, <2>2
  <1>5. \A o \in log : o.origin = Start[o.run] /\ o.origin <= now /\ o.origin \in Nat
    BY <1>3 DEF RestInv, FromPrograms, Entries
  <1>6. r \in Predicted(closed)
    <2>1. ~Skipped(r, closed)
      <3> HIDE DEF closed
      <3>1. ASSUME NEW e \in closed, e.run = r \/ Start[r] < e.origin PROVE FALSE
        <4>1. PICK o \in log : e.run = o.run /\ e.origin = o.origin
          BY <1>4
        <4>2. e.origin = Start[e.run] /\ e.origin <= now /\ e.origin \in Nat
          BY <4>1, <1>5
        <4> QED
          BY <3>1, <4>2, <1>1, <1>2
      <3> QED
        BY <3>1 DEF Skipped
    <2> QED
      BY <2>1, <1>2 DEF Predicted
  <1>7. t < Start[r] + Length[r] /\ Start[r] <= t
    <2>1. Start[r] \in Nat /\ Length[r] \in Nat /\ Length[r] > 0
      BY <1>2, MasterAssumption DEF RunsTakeTime
    <2> QED
      BY <1>1, <1>2, <2>1
  <1>8. r \in due
    BY <1>6, <1>7
  <1> DEFINE s == [Occurrence(r) EXCEPT !.start = t, !.active = TRUE]
  <1>9. s \in started /\ s.run = r /\ s.active
    BY <1>8 DEF Occurrence
  <1> HIDE DEF due, started, closed, s
  <1>10. s \in log'
    BY <1>0, <1>8, <1>9 DEF Remembered
  <1> QED
    BY <1>2, <1>9, <1>10

\* A round of the scheduler leaves on what a run keeps on.
LEMMA RestsStep ==
    ASSUME BothDelayed, RunsTakeTime, Inv, Inv', RestInv, CheckSchedule, NEW m \in running'
    PROVE  \E e \in past \cup past' \cup Coming' :
                /\ m \in Needs[e.run]
                /\ e.start + options.on[m] <= now'
                /\ now' < e.end + options.off[m] + (IF Delayed(m) THEN 0 ELSE 1)
  <1> DEFINE t == now + 1
             listed == Active(log)
  <1>1. /\ now' = t /\ now \in Nat /\ options \in Options
        /\ options' = options /\ plan' = plan /\ enabled' = enabled
        /\ running' = {x \in options.present : Wanted(x, listed, log', t)}
    BY DEF CheckSchedule, Inv, TypeOK
  <1>2. m \in options.present /\ Wanted(m, listed, log', t)
    BY <1>1
  <1>3. PICK e \in View(m, listed, log', t) :
            m \in Needs[e.run] /\ (Delayed(m) => InWindow(e, m, t))
    BY <1>2 DEF Wanted
  <1>4. listed \subseteq past /\ log' \subseteq past' /\ past \subseteq Entries
    BY DEF Active, Inv, Forgotten, TypeOK
  <1>5. CASE ~Delayed(m)
    <2>1. e \in listed
      BY <1>1, <1>2, <1>5, ViewsActive
    <2>2. e \in past /\ e.start \in Nat /\ e.end \in Nat /\ e.start <= now /\ now < e.end
      BY <2>1, <1>4 DEF Active, RestInv, InProgress, Entries
    <2>3. options.on[m] = 0 /\ options.off[m] = 0
      BY <1>5 DEF Delayed
    <2> QED
      BY <1>1, <1>3, <1>5, <2>2, <2>3
  <1>6. CASE Delayed(m)
    <2>1. e \in past \cup past' \cup Coming'
      <3>1. CASE options.manual
        BY <3>1, <1>1, <1>2, <1>4, <1>6, ViewsOnly DEF Finished
      <3>2. CASE ~options.manual
        <4>1. e \in Combined(log', t)
          BY <3>2, <1>1, <1>2, <1>6, ViewsOnly
        <4>2. CASE e \in log'
          BY <4>2, <1>4
        <4>3. CASE \E r \in Predicted(log)' : e = Occurrence(r) /\ t <= Start[r]
          <5>1. PICK r \in Predicted(log)' : e = Occurrence(r) /\ t <= Start[r]
            BY <4>3
          <5>2. Start[r] # t
            BY <5>1, <1>1, <3>2, DueIsStarted
          <5>3. Start[r] \in Nat
            BY MasterAssumption DEF Predicted, Inv, TypeOK
          <5>4. now' < Start[r] /\ ~options'.manual
            BY <5>1, <5>2, <5>3, <1>1, <3>2
          <5> QED
            BY <5>1, <5>4 DEF Coming, Occurrence
        <4>4. Predicted(log') = Predicted(log)'
          BY <1>1 DEF Predicted, Skipped
        <4> QED
          BY <4>1, <4>2, <4>3, <4>4 DEF Combined
      <3> QED
        BY <3>1, <3>2
    <2>2. /\ e.start + options.on[m] <= now' /\ now' < e.end + options.off[m]
      BY <1>1, <1>3, <1>6 DEF InWindow
    <2>3. e.end \in Int /\ options.off[m] \in Int
      <3>1. m \in Masters
        BY <1>1, <1>2, OptionTypes
      <3>2. \A r \in plan : Occurrence(r) \in Entries
        BY OccurrenceType DEF Inv, TypeOK
      <3>3. Coming' \subseteq Entries
        BY <3>2, <1>1 DEF Coming, Predicted, Occurrence
      <3>4. past' \subseteq Entries
        BY DEF Inv, TypeOK
      <3> QED
        BY <2>1, <3>1, <3>3, <3>4, <1>1, <1>4, OptionTypes DEF Entries
    <2> QED
      BY <2>1, <2>2, <2>3, <1>3, <1>6
  <1> QED
    BY <1>5, <1>6

\* MasterRests: whatever the runs, the offsets and the requests, and however much the log
\* forgets, a round leaves no master on without a run, past or to come, that calls for it.
THEOREM MastersRest == BothDelayed /\ RunsTakeTime => (Spec => MasterRests)
  <1> SUFFICES ASSUME BothDelayed, RunsTakeTime PROVE Spec => MasterRests
    OBVIOUS
  <1>1. ASSUME Inv, Inv', RestInv, [Next]_vars, now' # now, NEW m \in running'
        PROVE  \E e \in past \cup past' \cup Coming' :
                    /\ m \in Needs[e.run]
                    /\ e.start + options.on[m] <= now'
                    /\ now' < e.end + options.off[m] + (IF Delayed(m) THEN 0 ELSE 1)
    <2>1. CheckSchedule
      BY <1>1 DEF Next, StopAll, StopOne, Stop, StartByHand, ChangePlan, Enable, vars
    <2> QED
      BY <2>1, <1>1, RestsStep
  <1>2. Inv /\ Inv' /\ RestInv /\ [Next]_vars =>
          [now' # now => \A m \in running' :
              \E e \in past \cup past' \cup Coming' :
                    /\ m \in Needs[e.run]
                    /\ e.start + options.on[m] <= now'
                    /\ now' < e.end + options.off[m] + (IF Delayed(m) THEN 0 ELSE 1)]_vars
    BY <1>1
  <1>3. Inv /\ RestInv /\ [Next]_vars => RestInv'
    BY RestStep
  <1> QED
    BY <1>2, <1>3, InvInit, InvStep, RestInit, PTL DEF Spec, MasterRests
=============================================================================

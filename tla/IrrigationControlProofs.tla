---------------------- MODULE IrrigationControlProofs ----------------------
(***************************************************************************)
(* Proofs about IrrigationControl for any number of stations, occurrences, *)
(* requests and clients, and for every interleaving of their handlers with *)
(* a pass of the scheduler.                                                *)
(***************************************************************************)
EXTENDS IrrigationControl, TLAPS

\* What a thread remembers between two calls: the run in its hands is one, and the runs a pass
\* is about to end, or to close the station of, are in the log.
LocalsOK ==
    /\ pc \in {"close", "open"} => cur \in Uid
    /\ pc \in {"settle", "close"} => \A u \in todo : run[u] # "none"
    /\ pc = "close" => run[cur] # "none"
    /\ \A c \in Client : cpc[c] \in {"handLog", "handOpen"} => carg[c] \in Uid

\* What the assumptions say of the constants.
LEMMA ConstantFacts ==
    /\ Masters \subseteq Station /\ Zone \subseteq Station
    /\ \A i \in 1..2 : MasterStation[i] # NoStation => MasterStation[i] \in Masters
    /\ Time \subseteq Instant /\ Forever \in Instant /\ 0 \in Time
    /\ MaxTime \in Time
  BY ConstantsAssumption DEF Masters, Zone, Time, Instant, Forever

\* The initial state has its types.
LEMMA InitType == Init => TypeOK /\ LocalsOK
  <1> SUFFICES ASSUME Init PROVE TypeOK /\ LocalsOK
    OBVIOUS
  <1> USE ConstantsAssumption, ConstantFacts
  <1>1. plan \in [Uid -> Window]
    BY DEF Init, Window, Uid, Instant, Zone, Time, Forever
  <1>2. run \in [Uid -> Status]
    BY DEF Init, Status
  <1>3. /\ cpc \in [Client -> ClientLabels]
        /\ carg \in [Client -> Uid \cup Station \cup {NoUid}]
        /\ ctodo \in [Client -> SUBSET Uid]
    BY DEF Init, ClientLabels
  <1> QED
    BY <1>1, <1>2, <1>3 DEF Init, TypeOK, LocalsOK, SchedulerLabels, ClientLabels, Time, Instant, Forever

\* A step of the scheduler keeps the types and the locals: in particular finish_run only moves
\* an entry on, so the runs a pass is about to end stay in the log.
LEMMA SchedulerType == TypeOK /\ LocalsOK /\ SchedulerStep => TypeOK' /\ LocalsOK'
  <1> SUFFICES ASSUME TypeOK, LocalsOK, SchedulerStep PROVE TypeOK' /\ LocalsOK'
    OBVIOUS
  <1> USE ConstantFacts DEF TypeOK, LocalsOK, SchedulerLabels, envVars, optVars, schedVars, clientVars
  <1>1. CASE TickBegin
    BY <1>1 DEF TickBegin, RainNow
  <1>2. CASE ReadActiveRuns
    BY <1>2 DEF ReadActiveRuns, ActiveRuns
  <1>3. CASE CloseStation
    BY <1>3 DEF CloseStation, Deactivate
  <1>4. CASE Settled
    BY <1>4 DEF Settled
  <1>5. CASE ReadFinished
    BY <1>5 DEF ReadFinished, FinishedRuns
  <1>6. CASE Predict
    BY <1>6 DEF Predict, ToStart, Uid
  <1>7. CASE OpenStation
    BY <1>7 DEF OpenStation, Activate, Zone, Window, Masters
  <1>8. CASE Started
    BY <1>8 DEF Started
  <1>9. CASE SwitchRelay
    BY <1>9 DEF SwitchRelay
  <1>10. CASE Return
    BY <1>10 DEF Return, Time
  <1>11. ASSUME NEW u \in Uid, EndRun(u) PROVE TypeOK' /\ LocalsOK'
    BY <1>11 DEF EndRun, FinishRuns, Status
  <1>12. ASSUME NEW u \in Uid, LogStart(u) PROVE TypeOK' /\ LocalsOK'
    BY <1>12 DEF LogStart, StartRun, Status
  <1>13. ASSUME NEW i \in 1..2, SwitchMaster(i) PROVE TypeOK' /\ LocalsOK'
    <2>1. masterOn' \in BOOLEAN
      BY <1>13, Zenon DEF SwitchMaster, MasterDemand
    <2>2. open' \subseteq Station /\ untracked' \subseteq Zone
      BY <1>13 DEF SwitchMaster, Activate, Deactivate
    <2> QED
      BY <1>13, <2>1, <2>2 DEF SwitchMaster
  <1> QED
    BY <1>1, <1>2, <1>3, <1>4, <1>5, <1>6, <1>7, <1>8, <1>9, <1>10, <1>11, <1>12, <1>13 DEF SchedulerStep

\* A request, and each later call of its handler, keeps the types and the locals: a run that
\* is planned anew is not in the log yet, so it is none of those the scheduler holds.
LEMMA RequestType ==
    ASSUME TypeOK, LocalsOK, NEW c \in Client, Request(c)
    PROVE  TypeOK' /\ LocalsOK'
  <1> USE ConstantFacts DEF TypeOK, LocalsOK, ClientLabels, Goto, Accept, envVars, optVars, schedVars, clientVars
  <1>1. CASE StopAll(c)
    <2>1. schedEnabled' \in BOOLEAN /\ requested' \subseteq OnceId
      BY <1>1, Zenon DEF StopAll
    <2> QED
      BY <1>1, <2>1 DEF StopAll
  <1>2. CASE StopPrograms(c)
    BY <1>2 DEF StopPrograms
  <1>3. CASE ToggleManualMode(c)
    BY <1>3 DEF ToggleManualMode
  <1>4. ASSUME NEW u \in ManualId, NEW s \in Station, NEW end \in Instant,
               StartByHand(c, u, s, end)
        PROVE  TypeOK' /\ LocalsOK'
    BY <1>4 DEF StartByHand, Window, Uid
  <1>5. ASSUME NEW s \in Station, StopStation(c, s) PROVE TypeOK' /\ LocalsOK'
    BY <1>5 DEF StopStation, Deactivate
  <1> QED
    BY <1>1, <1>2, <1>3, <1>4, <1>5 DEF Request

\* So does a later call of a handler.
LEMMA HandlerType ==
    ASSUME TypeOK, LocalsOK, NEW c \in Client, HandlerStep(c)
    PROVE  TypeOK' /\ LocalsOK'
  <1> USE ConstantFacts DEF TypeOK, LocalsOK, ClientLabels, Goto, envVars, optVars, schedVars, clientVars
  <1>1. CASE FinishAll(c)
    BY <1>1 DEF FinishAll, AfterFinish, FinishRuns, Status
  <1>2. CASE ClearAll(c)
    BY <1>2 DEF ClearAll, AfterClear, ClearOutputs
  <1>3. CASE RelayOff(c)
    BY <1>3 DEF RelayOff
  <1>4. CASE LogByHand(c)
    BY <1>4 DEF LogByHand, StartRun, Status
  <1>5. CASE OpenByHand(c)
    BY <1>5 DEF OpenByHand, Activate, Zone, Window
  <1>6. CASE ReadStationRuns(c)
    BY <1>6 DEF ReadStationRuns, ActiveRuns
  <1>7. CASE StationStopped(c)
    BY <1>7 DEF StationStopped
  <1>8. ASSUME NEW u \in Uid, FinishStationRun(c, u) PROVE TypeOK' /\ LocalsOK'
    <2>1. untracked' \subseteq Zone
      BY <1>8 DEF FinishStationRun, Window
    <2>2. run' \in [Uid -> Status] /\ \A v \in Uid : run[v] # "none" => run'[v] # "none"
      BY <1>8 DEF FinishStationRun, FinishRuns, Status
    <2>3. ctodo' \in [Client -> SUBSET Uid]
      BY <1>8 DEF FinishStationRun
    <2> QED
      BY <1>8, <2>1, <2>2, <2>3 DEF FinishStationRun
  <1> QED
    BY <1>1, <1>2, <1>3, <1>4, <1>5, <1>6, <1>7, <1>8 DEF HandlerStep

\* So do the clock, the rain and the rest of the surroundings.
LEMMA OtherType ==
    ASSUME TypeOK, LocalsOK, Setting \/ AdvanceTime \/ RainChange \/ UNCHANGED vars
    PROVE  TypeOK' /\ LocalsOK'
  <1> USE ConstantFacts DEF TypeOK, LocalsOK, ClientLabels, Accept, envVars, optVars, schedVars, clientVars
  <1>1. ASSUME NEW u \in OnceId, RequestOnce(u) PROVE TypeOK' /\ LocalsOK'
    BY <1>1, ConstantsAssumption DEF RequestOnce, Window, Uid, Instant, Forever, Time, Zone
  <1>2. ASSUME NEW enabled \in BOOLEAN, SetSchedulerEnabled(enabled) PROVE TypeOK' /\ LocalsOK'
    BY <1>2 DEF SetSchedulerEnabled
  <1>3. ASSUME NEW end \in {now, MaxTime}, SetRainDelay(end) PROVE TypeOK' /\ LocalsOK'
    BY <1>3 DEF SetRainDelay
  <1>4. ASSUME NEW s \in Station, LegacyStart(s) \/ LegacyStop(s) PROVE TypeOK' /\ LocalsOK'
    BY <1>4 DEF LegacyStart, LegacyStop, Activate, Deactivate, Zone
  <1>5. CASE AdvanceTime
    BY <1>5, ConstantsAssumption DEF AdvanceTime, Time
  <1>6. CASE RainChange
    BY <1>6 DEF RainChange
  <1>7. CASE UNCHANGED vars
    BY <1>7 DEF vars
  <1> QED
    BY <1>1, <1>2, <1>3, <1>4, <1>5, <1>6, <1>7 DEF Setting

\* The types hold in every reachable state, whatever the constants are.
THEOREM TypeCorrect == Spec => [](TypeOK /\ LocalsOK)
  <1>1. TypeOK /\ LocalsOK /\ [Next]_vars => TypeOK' /\ LocalsOK'
    BY SchedulerType, RequestType, HandlerType, OtherType DEF Next
  <1> QED
    BY InitType, <1>1, PTL DEF Spec

\* What an output that is on is accounted for by, and what a step that opens no zone has to keep.
Accounted(s) ==
    \/ Running(s)
    \/ s \in untracked
    \/ pc = "close" /\ plan[cur].station = s
    \/ \E c \in Client : cpc[c] \in DOMAIN AfterClear

\* A step keeps the runs that are active and the stations they are on.
KeepsRuns ==
    \A u \in ActiveRuns : u \in ActiveRuns' /\ plan'[u].station = plan[u].station

\* A step keeps the threads that are on their way to switch an output off.
KeepsClosers ==
    /\ pc = "close" => pc' = "close" /\ plan'[cur'].station = plan[cur].station
    /\ \A c \in Client : cpc[c] \in DOMAIN AfterClear => cpc'[c] \in DOMAIN AfterClear

\* A step that opens no zone and keeps the active runs keeps what tracks them.
LEMMA StillTracked ==
    ASSUME OpenIsTracked, KeepsRuns, KeepsClosers, open' \cap Zone \subseteq open,
           \A s \in open' \cap Zone : s \in untracked => s \in untracked'
    PROVE  OpenIsTracked'
  <1> SUFFICES ASSUME NEW s \in open' \cap Zone PROVE Accounted(s)'
    BY DEF OpenIsTracked, Accounted
  <1>1. Accounted(s)
    BY DEF OpenIsTracked, Accounted
  <1>2. Running(s) => Running(s)'
    BY DEF KeepsRuns, Running
  <1> QED
    BY <1>1, <1>2 DEF Accounted, KeepsClosers, AfterClear

\* stations.activate: the zone it opens has an active run, or becomes untracked.
LEMMA ActivateTracked ==
    ASSUME OpenIsTracked, KeepsRuns, KeepsClosers, NEW s \in Station, Activate(s)
    PROVE  OpenIsTracked'
  <1> SUFFICES ASSUME NEW z \in open' \cap Zone PROVE Accounted(z)'
    BY DEF OpenIsTracked, Accounted
  <1>1. \A x \in Zone : Running(x) => Running(x)'
    BY DEF KeepsRuns, Running
  <1>2. untracked \subseteq untracked'
    BY DEF Activate
  <1>3. CASE z \in open
    <2>1. Accounted(z)
      BY <1>3 DEF OpenIsTracked, Accounted
    <2> QED
      BY <1>1, <1>2, <2>1 DEF Accounted, KeepsClosers, AfterClear
  <1>4. CASE z = s
    BY <1>1, <1>4 DEF Activate, Accounted, Zone
  <1> QED
    BY <1>3, <1>4 DEF Activate

\* A step of the scheduler: it ends a run only when it goes on to close the run's station, and
\* closes the station of a run whose entry says it.
LEMMA SchedulerTracked ==
    ASSUME TypeOK, LocalsOK, OpenIsTracked, SchedulerStep
    PROVE  OpenIsTracked'
  <1> USE DEF envVars, optVars, clientVars
  <1>1. CASE TickBegin
    BY <1>1, StillTracked DEF KeepsRuns, KeepsClosers, ActiveRuns, TickBegin
  <1>2. CASE ReadActiveRuns
    BY <1>2, StillTracked DEF KeepsRuns, KeepsClosers, ActiveRuns, ReadActiveRuns
  <1>3. CASE Settled
    BY <1>3, StillTracked DEF KeepsRuns, KeepsClosers, ActiveRuns, Settled
  <1>4. CASE ReadFinished
    BY <1>4, StillTracked DEF KeepsRuns, KeepsClosers, ActiveRuns, ReadFinished
  <1>5. CASE Predict
    BY <1>5, StillTracked DEF KeepsRuns, KeepsClosers, ActiveRuns, Predict
  <1>6. CASE Started
    BY <1>6, StillTracked DEF KeepsRuns, KeepsClosers, ActiveRuns, Started
  <1>7. CASE SwitchRelay
    BY <1>7, StillTracked DEF KeepsRuns, KeepsClosers, ActiveRuns, SwitchRelay
  <1>8. CASE Return
    BY <1>8, StillTracked DEF KeepsRuns, KeepsClosers, ActiveRuns, Return
  <1>9. ASSUME NEW u \in Uid, LogStart(u) PROVE OpenIsTracked'
    BY <1>9, StillTracked DEF KeepsRuns, KeepsClosers, ActiveRuns, LogStart, StartRun, TypeOK
  <1>10. ASSUME NEW u \in Uid, EndRun(u) PROVE OpenIsTracked'
    <2> SUFFICES ASSUME NEW s \in open' \cap Zone PROVE Accounted(s)'
      BY DEF OpenIsTracked, Accounted
    <2>1. Accounted(s) /\ pc # "close"
      BY <1>10 DEF OpenIsTracked, Accounted, EndRun
    <2>2. plan[u].station # s /\ Running(s) => Running(s)'
      BY <1>10 DEF EndRun, FinishRuns, Running, ActiveRuns, TypeOK
    <2>3. plan[u].station = s => pc' = "close" /\ plan'[cur'].station = s
      BY <1>10 DEF EndRun
    <2> QED
      BY <1>10, <2>1, <2>2, <2>3 DEF Accounted, EndRun, AfterClear
  <1>11. CASE CloseStation
    <2> SUFFICES ASSUME NEW s \in open' \cap Zone PROVE Accounted(s)'
      BY DEF OpenIsTracked, Accounted
    <2>1. Accounted(s) /\ s # plan[cur].station
      BY <1>11 DEF OpenIsTracked, Accounted, CloseStation, Deactivate
    <2>2. Running(s) => Running(s)'
      BY <1>11 DEF CloseStation, Running, ActiveRuns
    <2> QED
      BY <1>11, <2>1, <2>2 DEF Accounted, CloseStation, Deactivate, AfterClear
  <1>12. CASE OpenStation
    <2>1. plan[cur].station \in Station
      BY <1>12, ConstantFacts DEF OpenStation, LocalsOK, TypeOK, Window
    <2> QED
      BY <1>12, <2>1, ActivateTracked DEF OpenStation, KeepsRuns, KeepsClosers, ActiveRuns
  <1>13. ASSUME NEW i \in 1..2, SwitchMaster(i) PROVE OpenIsTracked'
    <2>1. /\ open' \cap Zone \subseteq open
          /\ \A s \in Zone : s \in untracked => s \in untracked'
      BY <1>13, ConstantFacts DEF SwitchMaster, Activate, Deactivate, Zone
    <2>2. KeepsRuns /\ KeepsClosers
      BY <1>13 DEF SwitchMaster, KeepsRuns, KeepsClosers, ActiveRuns
    <2> QED
      BY <2>1, <2>2, StillTracked
  <1> QED
    BY <1>1, <1>2, <1>3, <1>4, <1>5, <1>6, <1>7, <1>8, <1>9, <1>10, <1>11, <1>12, <1>13 DEF SchedulerStep

\* A request ends or moves no run: a run that is planned anew was not in the log.
LEMMA RequestTracked ==
    ASSUME TypeOK, LocalsOK, OpenIsTracked, NEW c \in Client, Request(c)
    PROVE  OpenIsTracked'
  <1> USE DEF envVars, optVars, schedVars, Goto, AfterClear, TypeOK, Accept
  <1>1. CASE StopAll(c)
    BY <1>1, StillTracked DEF KeepsRuns, KeepsClosers, ActiveRuns, StopAll
  <1>2. CASE StopPrograms(c)
    BY <1>2, StillTracked DEF KeepsRuns, KeepsClosers, ActiveRuns, StopPrograms
  <1>3. CASE ToggleManualMode(c)
    BY <1>3, StillTracked DEF KeepsRuns, KeepsClosers, ActiveRuns, ToggleManualMode
  <1>4. ASSUME NEW u \in ManualId, NEW s \in Station, NEW end \in Instant,
               StartByHand(c, u, s, end)
        PROVE  OpenIsTracked'
    <2>1. KeepsRuns
      BY <1>4 DEF KeepsRuns, ActiveRuns, StartByHand
    <2>2. KeepsClosers
      BY <1>4 DEF KeepsClosers, StartByHand, LocalsOK
    <2> QED
      BY <1>4, <2>1, <2>2, StillTracked DEF StartByHand
  <1>5. ASSUME NEW s \in Station, StopStation(c, s) PROVE OpenIsTracked'
    BY <1>5, StillTracked DEF KeepsRuns, KeepsClosers, ActiveRuns, StopStation, Deactivate
  <1> QED
    BY <1>1, <1>2, <1>3, <1>4, <1>5 DEF Request

\* The later calls of a handler: log.finish_run(None) is followed by stations.clear(), and the
\* last active run of a station is finished alone only after the station was closed.
LEMMA HandlerTracked ==
    ASSUME TypeOK, LocalsOK, OpenIsTracked, NEW c \in Client, HandlerStep(c)
    PROVE  OpenIsTracked'
  <1> USE DEF envVars, optVars, schedVars, Goto, TypeOK
  <1>1. CASE FinishAll(c)
    <2>1. cpc'[c] \in DOMAIN AfterClear
      BY <1>1 DEF FinishAll, AfterFinish, AfterClear
    <2> QED
      BY <2>1 DEF OpenIsTracked
  <1>2. CASE ClearAll(c)
    BY <1>2 DEF ClearAll, ClearOutputs, OpenIsTracked
  <1>3. CASE RelayOff(c)
    BY <1>3, StillTracked DEF KeepsRuns, KeepsClosers, ActiveRuns, AfterClear, RelayOff
  <1>4. CASE LogByHand(c)
    <2>1. KeepsRuns
      BY <1>4 DEF LogByHand, KeepsRuns, ActiveRuns, StartRun
    <2> QED
      BY <1>4, <2>1, StillTracked DEF KeepsClosers, AfterClear, LogByHand
  <1>5. CASE OpenByHand(c)
    <2>1. plan[carg[c]].station \in Station
      BY <1>5, ConstantFacts DEF OpenByHand, LocalsOK, Window
    <2> QED
      BY <1>5, <2>1, ActivateTracked DEF OpenByHand, KeepsRuns, KeepsClosers, ActiveRuns, AfterClear
  <1>6. CASE ReadStationRuns(c)
    BY <1>6, StillTracked DEF KeepsRuns, KeepsClosers, ActiveRuns, AfterClear, ReadStationRuns
  <1>7. CASE StationStopped(c)
    BY <1>7, StillTracked DEF KeepsRuns, KeepsClosers, ActiveRuns, AfterClear, StationStopped
  <1>8. ASSUME NEW u \in Uid, FinishStationRun(c, u) PROVE OpenIsTracked'
    <2> SUFFICES ASSUME NEW s \in open' \cap Zone PROVE Accounted(s)'
      BY DEF OpenIsTracked, Accounted
    <2>1. Accounted(s) /\ s \in open
      BY <1>8 DEF OpenIsTracked, Accounted, FinishStationRun
    <2>2. untracked \subseteq untracked' /\ UNCHANGED <<plan, pc, cur, cpc>>
      BY <1>8 DEF FinishStationRun
    <2>3. Running(s) => Running(s)' \/ s \in untracked'
      <3> SUFFICES ASSUME Running(s), s \notin untracked' PROVE Running(s)'
        OBVIOUS
      <3>1. PICK v \in ActiveRuns \ {u} : plan[v].station = s
        BY <1>8, <2>1 DEF FinishStationRun, Running
      <3>2. v \in ActiveRuns'
        BY <1>8, <3>1 DEF FinishStationRun, FinishRuns, ActiveRuns
      <3> QED
        BY <2>2, <3>1, <3>2 DEF Running
    <2> QED
      BY <2>1, <2>2, <2>3 DEF Accounted
  <1> QED
    BY <1>1, <1>2, <1>3, <1>4, <1>5, <1>6, <1>7, <1>8 DEF HandlerStep

\* The surroundings open nothing and end no run.
LEMMA OtherTracked ==
    ASSUME TypeOK, LocalsOK, OpenIsTracked, Setting \/ AdvanceTime \/ RainChange \/ UNCHANGED vars
    PROVE  OpenIsTracked'
  <1> USE DEF envVars, optVars, schedVars, clientVars, Accept, TypeOK, AfterClear
  <1>1. ASSUME NEW u \in OnceId, RequestOnce(u) PROVE OpenIsTracked'
    <2>1. KeepsRuns
      BY <1>1 DEF KeepsRuns, ActiveRuns, RequestOnce
    <2>2. KeepsClosers
      BY <1>1 DEF KeepsClosers, RequestOnce, LocalsOK
    <2> QED
      BY <1>1, <2>1, <2>2, StillTracked DEF RequestOnce
  <1>2. ASSUME NEW enabled \in BOOLEAN, SetSchedulerEnabled(enabled) PROVE OpenIsTracked'
    BY <1>2, StillTracked DEF KeepsRuns, KeepsClosers, ActiveRuns, SetSchedulerEnabled
  <1>3. ASSUME NEW end \in {now, MaxTime}, SetRainDelay(end) PROVE OpenIsTracked'
    BY <1>3, StillTracked DEF KeepsRuns, KeepsClosers, ActiveRuns, SetRainDelay
  <1>4. ASSUME NEW s \in Station, LegacyStart(s) PROVE OpenIsTracked'
    BY <1>4, ActivateTracked DEF KeepsRuns, KeepsClosers, ActiveRuns, LegacyStart
  <1>5. ASSUME NEW s \in Station, LegacyStop(s) PROVE OpenIsTracked'
    BY <1>5, StillTracked DEF KeepsRuns, KeepsClosers, ActiveRuns, LegacyStop, Deactivate
  <1>6. CASE AdvanceTime
    BY <1>6, StillTracked DEF KeepsRuns, KeepsClosers, ActiveRuns, AdvanceTime
  <1>7. CASE RainChange
    BY <1>7, StillTracked DEF KeepsRuns, KeepsClosers, ActiveRuns, RainChange
  <1>8. CASE UNCHANGED vars
    BY <1>8, StillTracked DEF KeepsRuns, KeepsClosers, ActiveRuns, vars
  <1> QED
    BY <1>1, <1>2, <1>3, <1>4, <1>5, <1>6, <1>7, <1>8 DEF Setting

\* No path of the scheduler, of a stop or of a mode change leaves an output on that has no
\* active run, other than the interleavings that untracked records.
THEOREM OutputsTracked == Spec => []OpenIsTracked
  <1>1. Init => OpenIsTracked
    BY DEF Init, OpenIsTracked
  <1>2. TypeOK /\ LocalsOK /\ OpenIsTracked /\ [Next]_vars => OpenIsTracked'
    BY SchedulerTracked, RequestTracked, HandlerTracked, OtherTracked DEF Next
  <1> QED
    BY TypeCorrect, <1>1, <1>2, PTL DEF Spec

-----------------------------------------------------------------------------
(***************************************************************************)
(* What IrrigationControl guarantees when no request is handled during a   *)
(* pass of the scheduler and the first API is not in use: every output     *)
(* that is on has a run that will time it out, the runs in the log belong  *)
(* to the current mode, and a finished run is never started again.  The    *)
(* counterexamples of the interleaved runs show that the assumption is     *)
(* needed.                                                                 *)
(***************************************************************************)

\* A pass and the handlers exclude one another.
OneAtATime ==
    /\ pc # "sleep" => \A c \in Client : cpc[c] = "idle"
    /\ \A c, d \in Client : cpc[c] # "idle" /\ cpc[d] # "idle" => c = d

\* What a pass has decided is still so when it acts on it.
PassUpToDate ==
    /\ pc = "predict" => seen = FinishedRuns
    /\ pc = "start" => \A u \in todo : run[u] = "none"
    /\ pc = "open" => run[cur] = "active" /\ \A u \in todo \ {cur} : run[u] = "none"
    /\ pc \in {"readFinished", "predict", "start", "open"} => ~manualMode
    /\ pc \in {"start", "open"} => todo \cap ManualId = {}

\* So is what a handler has decided.
HandlerUpToDate ==
    \A c \in Client :
        /\ cpc[c] \in {"handLog", "handOpen"} => manualMode /\ carg[c] \in ManualId
        /\ cpc[c] = "handLog" => run[carg[c]] = "none"
        /\ cpc[c] = "handOpen" => run[carg[c]] = "active"
        /\ cpc[c] \in {"stationRead", "stationFinish"} => carg[c] \notin open
        /\ cpc[c] = "stationFinish" => \A u \in ctodo[c] : plan[u].station = carg[c]

\* The runs of the other mode are over, or are about to be.
ModeOfRuns ==
    \/ \E c \in Client : cpc[c] = "modeFinish"
    \/ \A u \in ActiveRuns : (u \in ManualId) <=> manualMode

SerialInv == untracked = {} /\ OneAtATime /\ PassUpToDate /\ HandlerUpToDate /\ ModeOfRuns

Inv == TypeOK /\ LocalsOK /\ SerialInv

\* The part of FinishedStaysFinished that one step has to satisfy.
KeepsFinished == \A u \in Uid : run[u] = "finished" => run'[u] = "finished"

\* A step of a pass: no handler is under way.
LEMMA SerialScheduler ==
    ASSUME ~Interleave, Inv, SchedulerStep
    PROVE  SerialInv' /\ KeepsFinished
  <1> USE ConstantsAssumption DEF Inv, SerialInv, OneAtATime, PassUpToDate, HandlerUpToDate,
          ModeOfRuns, KeepsFinished, envVars, optVars, clientVars, TypeOK
  <1>1. CASE TickBegin
    BY <1>1 DEF TickBegin, SchedulerMayRun, ActiveRuns
  <1>2. CASE ReadActiveRuns
    BY <1>2 DEF ReadActiveRuns, ActiveRuns
  <1>3. CASE CloseStation
    BY <1>3 DEF CloseStation, Deactivate, ActiveRuns
  <1>4. CASE Settled
    BY <1>4 DEF Settled, ActiveRuns
  <1>5. CASE ReadFinished
    BY <1>5 DEF ReadFinished, ActiveRuns, FinishedRuns
  <1>6. CASE Predict
    <2>1. \A u \in todo' : u \in Uid /\ u \notin ManualId /\ run[u] = "none"
      BY <1>6 DEF Predict, ToStart, Skipped, Uid, ActiveRuns, FinishedRuns, Status
    <2> QED
      BY <1>6, <2>1 DEF Predict, ActiveRuns
  <1>7. CASE OpenStation
    <2>1. Running(plan[cur].station)
      BY <1>7 DEF OpenStation, Running, ActiveRuns, LocalsOK
    <2>2. untracked' = {}
      BY <1>7, <2>1 DEF OpenStation, Activate
    <2> QED
      BY <1>7, <2>2 DEF OpenStation, ActiveRuns
  <1>8. CASE Started
    BY <1>8 DEF Started, ActiveRuns
  <1>9. CASE SwitchRelay
    BY <1>9 DEF SwitchRelay, ActiveRuns
  <1>10. CASE Return
    BY <1>10 DEF Return, ActiveRuns
  <1>11. ASSUME NEW u \in Uid, EndRun(u) PROVE SerialInv' /\ KeepsFinished
    BY <1>11 DEF EndRun, FinishRuns, ActiveRuns
  <1>12. ASSUME NEW u \in Uid, LogStart(u) PROVE SerialInv' /\ KeepsFinished
    BY <1>12 DEF LogStart, StartRun, ActiveRuns
  <1>13. ASSUME NEW i \in 1..2, SwitchMaster(i) PROVE SerialInv' /\ KeepsFinished
    <2>1. untracked' = {}
      BY <1>13, ConstantFacts DEF SwitchMaster, Activate, Deactivate
    <2>2. pc' \in {"return", "master2", "relay"} /\ pc # "sleep"
      BY <1>13 DEF SwitchMaster
    <2> QED
      BY <1>13, <2>1, <2>2 DEF SwitchMaster, ActiveRuns
  <1> QED
    BY <1>1, <1>2, <1>3, <1>4, <1>5, <1>6, <1>7, <1>8, <1>9, <1>10, <1>11, <1>12, <1>13 DEF SchedulerStep

\* A request is taken while the scheduler sleeps.
LEMMA SerialRequest ==
    ASSUME ~Interleave, Inv, NEW c \in Client, Request(c)
    PROVE  SerialInv' /\ KeepsFinished
  <1> USE ConstantsAssumption DEF Inv, SerialInv, OneAtATime, PassUpToDate, HandlerUpToDate, Goto,
          Accept, ModeOfRuns, KeepsFinished, envVars, optVars, schedVars, TypeOK
  <1>1. CASE StopAll(c)
    BY <1>1 DEF StopAll, ActiveRuns
  <1>2. CASE StopPrograms(c)
    BY <1>2 DEF StopPrograms, ActiveRuns
  <1>3. CASE ToggleManualMode(c)
    BY <1>3 DEF ToggleManualMode
  <1>4. ASSUME NEW u \in ManualId, NEW s \in Station, NEW end \in Instant, StartByHand(c, u, s, end)
        PROVE  SerialInv' /\ KeepsFinished
    BY <1>4 DEF StartByHand, ActiveRuns
  <1>5. ASSUME NEW s \in Station, StopStation(c, s) PROVE SerialInv' /\ KeepsFinished
    BY <1>5 DEF StopStation, Deactivate, ActiveRuns
  <1> QED
    BY <1>1, <1>2, <1>3, <1>4, <1>5 DEF Request

\* The later calls of a handler: the scheduler still sleeps.
LEMMA SerialHandler ==
    ASSUME ~Interleave, Inv, NEW c \in Client, HandlerStep(c)
    PROVE  SerialInv' /\ KeepsFinished
  <1> USE ConstantsAssumption DEF Inv, SerialInv, OneAtATime, PassUpToDate, HandlerUpToDate, Goto,
          ModeOfRuns, KeepsFinished, envVars, optVars, schedVars, TypeOK
  <1>1. CASE FinishAll(c)
    <2>1. ActiveRuns' = {}
      BY <1>1 DEF FinishAll, FinishRuns, ActiveRuns
    <2>2. \A d \in Client : d # c => cpc'[d] = "idle"
      BY <1>1 DEF FinishAll, AfterFinish
    <2>3. cpc'[c] \in {"stopClear", "progClear", "modeClear"} /\ pc = "sleep"
      BY <1>1 DEF FinishAll, AfterFinish
    <2> QED
      BY <1>1, <2>1, <2>2, <2>3 DEF FinishAll, FinishRuns
  <1>2. CASE ClearAll(c)
    <2>1. cpc'[c] \in {"stopRelay", "idle"} /\ pc = "sleep"
      BY <1>2 DEF ClearAll, AfterClear
    <2>2. \A d \in Client : d # c => cpc'[d] = "idle"
      BY <1>2 DEF ClearAll, AfterClear
    <2>3. cpc[c] # "modeFinish"
      BY <1>2 DEF ClearAll, AfterClear
    <2> QED
      BY <1>2, <2>1, <2>2, <2>3 DEF ClearAll, ClearOutputs, ActiveRuns
  <1>3. CASE RelayOff(c)
    BY <1>3 DEF RelayOff, ActiveRuns
  <1>4. CASE LogByHand(c)
    BY <1>4 DEF LogByHand, StartRun, ActiveRuns, Uid
  <1>5. CASE OpenByHand(c)
    <2>1. Running(plan[carg[c]].station)
      BY <1>5 DEF OpenByHand, Running, ActiveRuns, LocalsOK
    <2>2. untracked' = {}
      BY <1>5, <2>1 DEF OpenByHand, Activate
    <2> QED
      BY <1>5, <2>2 DEF OpenByHand, ActiveRuns
  <1>6. CASE ReadStationRuns(c)
    BY <1>6 DEF ReadStationRuns, ActiveRuns
  <1>7. CASE StationStopped(c)
    BY <1>7 DEF StationStopped, ActiveRuns
  <1>8. ASSUME NEW u \in Uid, FinishStationRun(c, u) PROVE SerialInv' /\ KeepsFinished
    <2>1. untracked' = {}
      BY <1>8 DEF FinishStationRun
    <2>2. \A v \in ActiveRuns' : v \in ActiveRuns
      BY <1>8 DEF FinishStationRun, FinishRuns, ActiveRuns
    <2>3. ctodo'[c] \subseteq ctodo[c] /\ \A d \in Client : d # c => ctodo'[d] = ctodo[d]
      BY <1>8 DEF FinishStationRun
    <2>4. KeepsFinished
      BY <1>8 DEF FinishStationRun, FinishRuns
    <2> QED
      BY <1>8, <2>1, <2>2, <2>3, <2>4 DEF FinishStationRun
  <1> QED
    BY <1>1, <1>2, <1>3, <1>4, <1>5, <1>6, <1>7, <1>8 DEF HandlerStep

\* The clock, the rain and the rest of the surroundings.
LEMMA SerialOther ==
    ASSUME ~Interleave, ~LegacyApi, Inv, Setting \/ AdvanceTime \/ RainChange \/ UNCHANGED vars
    PROVE  SerialInv' /\ KeepsFinished
  <1> USE ConstantsAssumption DEF Inv, SerialInv, OneAtATime, PassUpToDate, HandlerUpToDate, Accept,
          ModeOfRuns, KeepsFinished, envVars, optVars, schedVars, clientVars, TypeOK
  <1>1. ASSUME NEW u \in OnceId, RequestOnce(u) PROVE SerialInv' /\ KeepsFinished
    BY <1>1 DEF RequestOnce, ActiveRuns
  <1>2. ASSUME NEW enabled \in BOOLEAN, SetSchedulerEnabled(enabled) PROVE SerialInv' /\ KeepsFinished
    BY <1>2 DEF SetSchedulerEnabled, ActiveRuns
  <1>3. ASSUME NEW end \in {now, MaxTime}, SetRainDelay(end) PROVE SerialInv' /\ KeepsFinished
    BY <1>3 DEF SetRainDelay, ActiveRuns
  <1>4. ASSUME NEW s \in Station, LegacyStart(s) \/ LegacyStop(s) PROVE FALSE
    BY <1>4 DEF LegacyStart, LegacyStop
  <1>5. CASE AdvanceTime
    BY <1>5 DEF AdvanceTime, ActiveRuns, FinishedRuns
  <1>6. CASE RainChange
    BY <1>6 DEF RainChange, ActiveRuns, FinishedRuns
  <1>7. CASE UNCHANGED vars
    BY <1>7 DEF vars, ActiveRuns, FinishedRuns
  <1> QED
    BY <1>1, <1>2, <1>3, <1>4, <1>5, <1>6, <1>7 DEF Setting

\* The invariant that the three results below follow from.
LEMMA SerialInvariant ==
    ASSUME ~Interleave, ~LegacyApi
    PROVE  Spec => []Inv /\ [][KeepsFinished]_vars
  <1>1. Init => Inv
    BY InitType DEF Init, Inv, SerialInv, OneAtATime, PassUpToDate, HandlerUpToDate, ModeOfRuns, ActiveRuns
  <1>2. Inv /\ [Next]_vars => Inv' /\ KeepsFinished
    BY SchedulerType, RequestType, HandlerType, OtherType,
       SerialScheduler, SerialRequest, SerialHandler, SerialOther DEF Next, Inv
  <1> QED
    BY <1>1, <1>2, PTL DEF Spec

\* The run that opened an output is in the log for as long as the output is on.
THEOREM SerialOutputs ==
    ASSUME ~Interleave, ~LegacyApi
    PROVE  Spec => []OutputsHaveRuns
  <1>1. Inv /\ OpenIsTracked => OutputsHaveRuns
    BY DEF Inv, SerialInv, OpenIsTracked, OutputsHaveRuns, Quiet, AfterClear
  <1> QED
    BY SerialInvariant, OutputsTracked, <1>1, PTL

\* A change of the mode ends the runs of the other mode before anything else is accepted.
THEOREM SerialModes ==
    ASSUME ~Interleave, ~LegacyApi
    PROVE  Spec => []ModeSeparatesRuns
  <1>1. Inv => ModeSeparatesRuns
    BY DEF Inv, SerialInv, ModeOfRuns, ModeSeparatesRuns, Quiet
  <1> QED
    BY SerialInvariant, <1>1, PTL

\* The prediction leaves out whatever is in the log, so no occurrence runs twice.
THEOREM SerialHistory ==
    ASSUME ~Interleave, ~LegacyApi
    PROVE  Spec => FinishedStaysFinished
  BY SerialInvariant, PTL DEF FinishedStaysFinished, KeepsFinished
=============================================================================

------------------------- MODULE IrrigationControl -------------------------
(***************************************************************************)
(* The control core of OSPy: the scheduler thread (ospy/scheduler.py), the *)
(* run log it shares with every other thread (ospy/log.py), the output     *)
(* states (ospy/stations.py, ospy/outputs.py) and the requests that web    *)
(* and mobile clients handle in threads of their own (ospy/webpages.py,    *)
(* api/v1/api.py, api/api.py).                                             *)
(*                                                                         *)
(* Each call that takes the log lock or the output command lock is one     *)
(* step; a handler that makes several of them can be interleaved between   *)
(* two of them with every other thread.                                    *)
(*                                                                         *)
(* Programs are given by the occurrences the prediction yields: automatic  *)
(* ones (Occ) with a fixed window, run-once and run-now requests (OnceId), *)
(* and stations started by hand in manual mode (ManualId).  Output usage   *)
(* is unlimited, no two intervals of one prediction overlap on a station   *)
(* (so that none is shifted), the masters have no delays, and the run log  *)
(* is kept without pruning (run_log on, run_entries 0).  The settings that *)
(* the first statements of a handler write are written in one step.        *)
(***************************************************************************)
EXTENDS Integers

CONSTANTS
    Station,        \* indices of the outputs
    MasterStation,  \* <<stations.master, stations.master_two>>
    NoStation,      \* a master that is not configured (None)
    IgnoreRain,     \* stations with ignore_rain
    UsesMaster,     \* [1..2 -> SUBSET Station]: activate_master, activate_master_two
    ByProgram,      \* stations with activate_master_by_program
    MasterRelay,    \* options.master_relay
    Occ, OccStation, OccStart, OccEnd, \* automatic occurrences and their windows
    ControlMaster,  \* [Occ \cup OnceId -> 0..2]: control_master of the program, 0 for run-once
    OnceId, OnceStation, OnceLength,   \* run-once and run-now requests
    RunNow,         \* the requests made through programs.run_now
    ManualId,       \* uids of the runs started by hand
    NoUid,          \* no run
    Client,         \* threads that handle web and API requests
    Interleave,     \* FALSE: a request is handled only while the scheduler sleeps
    LegacyApi,      \* TRUE: the first API (api/api.py) is in use
    MaxTime,        \* bound on the clock
    MaxRequests     \* bound on the number of requests

Uid     == Occ \cup OnceId \cup ManualId
Masters == {MasterStation[1], MasterStation[2]} \ {NoStation}
Zone    == Station \ Masters
Time    == 0..MaxTime
Forever == MaxTime + 1   \* an end the clock does not reach: ten years from now
Instant == 0..Forever

ASSUME ConstantsAssumption ==
    /\ MaxTime \in Nat /\ MaxRequests \in Nat
    /\ MasterStation \in [1..2 -> Station \cup {NoStation}]
    /\ NoStation \notin Station /\ NoUid \notin Uid
    /\ IgnoreRain \subseteq Station /\ ByProgram \subseteq Station
    /\ UsesMaster \in [1..2 -> SUBSET Station]
    /\ MasterRelay \in BOOLEAN /\ Interleave \in BOOLEAN /\ LegacyApi \in BOOLEAN
    /\ OccStation \in [Occ -> Zone] /\ OnceStation \in [OnceId -> Zone]
    /\ OccStart \in [Occ -> Time] /\ OccEnd \in [Occ -> Instant]
    /\ ControlMaster \in [Occ \cup OnceId -> 0..2]
    /\ OnceLength \in [OnceId -> Nat]
    /\ RunNow \subseteq OnceId
    /\ \A o, p \in Occ :
          o # p /\ OccStation[o] = OccStation[p] => OccEnd[o] <= OccStart[p] \/ OccEnd[p] <= OccStart[o]
    /\ \A o \in Occ, r \in OnceId : OccStation[o] # OnceStation[r]
    /\ \A r \in RunNow, q \in OnceId \ RunNow : OnceStation[r] # OnceStation[q]
    /\ Zone # {}
    /\ Occ \cap OnceId = {} /\ Occ \cap ManualId = {} /\ OnceId \cap ManualId = {}

VARIABLES
    now,          \* the clock
    manualMode,   \* options.manual_mode
    schedEnabled, \* options.scheduler_enabled
    rainSensed,   \* inputs.rain_sensed()
    rainUntil,    \* rain_blocks.block_end()
    requested,    \* run-once and run-now requests the prediction still sees
    plan,         \* [Uid -> station and window]
    run,          \* [Uid -> its state in the run log]
    open,         \* stations._state: the outputs that are on
    relay,        \* outputs.relay_output
    pc, tickTime, rain, active, todo, cur, seen,  \* locals of _check_schedule
    masterOn,     \* master_on of the master block being executed
    cpc, carg, ctodo, \* locals of the request handler of each client
    untracked,    \* history: zones an interleaving or the first API left without a run
    requests      \* number of requests so far

envVars    == <<now, rainSensed>>
optVars    == <<manualMode, schedEnabled, rainUntil, requested, plan>>
schedVars  == <<pc, tickTime, rain, active, todo, cur, seen, masterOn>>
clientVars == <<cpc, carg, ctodo, requests>>
vars == <<envVars, optVars, run, open, relay, schedVars, clientVars, untracked>>

(***************************************************************************)
(* The run log.                                                            *)
(***************************************************************************)
ActiveRuns   == {u \in Uid : run[u] = "active"}
FinishedRuns == {u \in Uid : run[u] = "finished"}
Running(s)   == \E u \in ActiveRuns : plan[u].station = s

StartRun(u) == run' = [run EXCEPT ![u] = "active"]

\* finish_run(entry) and finish_run(None): only the entries that are still active change
FinishRuns(us) ==
    run' = [u \in Uid |-> IF u \in us /\ run[u] = "active" THEN "finished" ELSE run[u]]

(***************************************************************************)
(* The outputs.  A zone that is opened while none of its runs is active    *)
(* enters untracked, and leaves it when it is closed.                      *)
(***************************************************************************)
Activate(s) ==
    /\ open' = open \cup {s}
    /\ untracked' = IF s \in Masters \/ Running(s) THEN untracked ELSE untracked \cup {s}

Deactivate(s) ==
    /\ open' = open \ {s}
    /\ untracked' = untracked \ {s}

ClearOutputs ==
    /\ open' = {}
    /\ untracked' = {}

(***************************************************************************)
(* The scheduler thread: one pass of _check_schedule.                      *)
(***************************************************************************)
IsManual(u) == u \notin Occ

RainNow == ~manualMode /\ (rainUntil > now \/ rainSensed)

\* whether the thread that a request is handled in may take a step now
SchedulerMayRun == Interleave \/ \A c \in Client : cpc[c] = "idle"

TickBegin ==
    /\ pc = "sleep" /\ SchedulerMayRun
    /\ pc' = "snapshot"
    /\ tickTime' = now
    /\ rain' = RainNow
    /\ UNCHANGED <<envVars, optVars, run, open, relay, active, todo, cur, seen, masterOn,
                   clientVars, untracked>>

\* mutant: the end of a run requested by hand is not checked
EndsProgramsOnly(u) ==
    /\ ~IsManual(u)
    /\ plan[u].end <= tickTime \/ (rain /\ plan[u].station \notin IgnoreRain)

\* mutant: rain interrupts nothing
EndsInTimeOnly(u) == plan[u].end <= tickTime

\* the runs that are over, or that rain interrupts
Ends(u) ==
    \/ plan[u].end <= tickTime
    \/ rain /\ plan[u].station \notin IgnoreRain /\ ~IsManual(u)

ReadActiveRuns ==
    /\ pc = "snapshot"
    /\ pc' = "settle"
    /\ active' = ActiveRuns
    /\ todo' = {u \in ActiveRuns : Ends(u)}
    /\ UNCHANGED <<envVars, optVars, run, open, relay, tickTime, rain, cur, seen, masterOn,
                   clientVars, untracked>>

\* rain ends no run of the log: log.finish_run is skipped, only the output is closed
EndRun(u) ==
    /\ pc = "settle" /\ u \in todo
    /\ pc' = "close"
    /\ cur' = u
    /\ IF ~rain \/ plan[u].station \in IgnoreRain THEN FinishRuns({u}) ELSE UNCHANGED run
    /\ UNCHANGED <<envVars, optVars, open, relay, tickTime, rain, active, todo, seen, masterOn,
                   clientVars, untracked>>

CloseStation ==
    /\ pc = "close"
    /\ pc' = "settle"
    /\ todo' = todo \ {cur}
    /\ cur' = NoUid
    /\ Deactivate(plan[cur].station)
    /\ UNCHANGED <<envVars, optVars, run, relay, tickTime, rain, active, seen, masterOn,
                   clientVars>>

Settled ==
    /\ pc = "settle" /\ todo = {}
    /\ pc' = IF manualMode THEN "master1" ELSE "readFinished"
    /\ UNCHANGED <<envVars, optVars, run, open, relay, tickTime, rain, active, todo, cur, seen,
                   masterOn, clientVars, untracked>>

\* skip_intervals = log.finished_runs() + log.active_runs(): two reads
ReadFinished ==
    /\ pc = "readFinished"
    /\ pc' = "predict"
    /\ seen' = FinishedRuns
    /\ UNCHANGED <<envVars, optVars, run, open, relay, tickTime, rain, active, todo, cur,
                   masterOn, clientVars, untracked>>

\* mutant: only what was due before a logged run is dropped, not the run itself
SkippedByStart(u, logged) == \E v \in logged : plan[u].start < plan[v].start

\* an interval is dropped when it, or a run that was due after it, is in the log
Skipped(u, logged) == \E v \in logged : u = v \/ plan[u].start < plan[v].start

Blocked(u) ==
    /\ ~IsManual(u)
    /\ \/ ~schedEnabled
       \/ /\ plan[u].station \notin IgnoreRain
          /\ \/ now <= plan[u].start /\ plan[u].start < rainUntil
             \/ rainSensed

DueNow(u) ==
    /\ plan[u].start <= tickTime /\ tickTime < plan[u].end
    /\ rain => plan[u].station \in IgnoreRain

\* the intervals of predicted_schedule that this pass starts
ToStart(logged) ==
    {u \in Occ \cup requested : ~Skipped(u, logged) /\ ~Blocked(u) /\ DueNow(u)}

Predict ==
    /\ pc = "predict"
    /\ pc' = "start"
    /\ todo' = ToStart(seen \cup ActiveRuns)
    /\ seen' = {}
    /\ UNCHANGED <<envVars, optVars, run, open, relay, tickTime, rain, active, cur, masterOn,
                   clientVars, untracked>>

LogStart(u) ==
    /\ pc = "start" /\ u \in todo
    /\ pc' = "open"
    /\ cur' = u
    /\ StartRun(u)
    /\ UNCHANGED <<envVars, optVars, open, relay, tickTime, rain, active, todo, seen, masterOn,
                   clientVars, untracked>>

OpenStation ==
    /\ pc = "open"
    /\ pc' = "start"
    /\ todo' = todo \ {cur}
    /\ cur' = NoUid
    /\ Activate(plan[cur].station)
    /\ UNCHANGED <<envVars, optVars, run, relay, tickTime, rain, active, seen, masterOn,
                   clientVars>>

Started ==
    /\ pc = "start" /\ todo = {}
    /\ pc' = "master1"
    /\ UNCHANGED <<envVars, optVars, run, open, relay, tickTime, rain, active, todo, cur, seen,
                   masterOn, clientVars, untracked>>

\* the run asks for master i: by its station, or by its program on a by-program station
NeedsMaster(u, i) ==
    \/ plan[u].station \in UsesMaster[i]
    \/ plan[u].station \in ByProgram /\ u \notin ManualId /\ ControlMaster[u] = i

\* mutant: finished runs ask for the master too
LoggedDemand(i) == \E u \in Uid : run[u] # "none" /\ NeedsMaster(u, i)

\* master_on comes from the runs read at the beginning of the pass
MasterDemand(i) == \E u \in active : NeedsMaster(u, i)

\* one block of _check_schedule for each master; it ends where the next one begins
SwitchMaster(i) ==
    /\ pc = IF i = 1 THEN "master1" ELSE "master2"
    /\ IF MasterStation[i] = NoStation
       THEN /\ masterOn' = FALSE
            /\ UNCHANGED <<open, untracked>>
       ELSE /\ masterOn' = MasterDemand(i)
            /\ IF masterOn' THEN Activate(MasterStation[i]) ELSE Deactivate(MasterStation[i])
    /\ pc' = IF i = 2 THEN "return" ELSE IF MasterStation[i] = NoStation THEN "master2" ELSE "relay"
    /\ UNCHANGED <<envVars, optVars, run, relay, tickTime, rain, active, todo, cur, seen, clientVars>>

SwitchRelay ==
    /\ pc = "relay"
    /\ pc' = "master2"
    /\ relay' = IF MasterRelay THEN masterOn ELSE relay
    /\ UNCHANGED <<envVars, optVars, run, open, tickTime, rain, active, todo, cur, seen, masterOn,
                   clientVars, untracked>>

\* the thread waits for the next pass; the locals are gone
Return ==
    /\ pc = "return"
    /\ pc' = "sleep"
    /\ tickTime' = 0 /\ rain' = FALSE /\ active' = {} /\ masterOn' = FALSE
    /\ UNCHANGED <<envVars, optVars, run, open, relay, todo, cur, seen, clientVars, untracked>>

SchedulerStep ==
    \/ TickBegin \/ ReadActiveRuns \/ CloseStation \/ Settled \/ ReadFinished \/ Predict
    \/ OpenStation \/ Started \/ SwitchRelay \/ Return
    \/ \E u \in Uid : EndRun(u) \/ LogStart(u)
    \/ \E i \in 1..2 : SwitchMaster(i)

(***************************************************************************)
(* Requests.  A handler is idle, or at its next call.                      *)
(***************************************************************************)
Goto(c, l) == cpc' = [cpc EXCEPT ![c] = l]

\* a setter of an option runs the callbacks while it holds the options lock
OptionsFree == \A c \in Client : cpc[c] \notin {"modeFinish", "modeClear"}

Accept ==
    /\ requests < MaxRequests
    /\ Interleave \/ (pc = "sleep" /\ \A d \in Client : cpc[d] = "idle")
    /\ requests' = requests + 1

\* The home page keeps the scheduler setting and the requests when manual mode is on; _stop_all
\* of the mobile API disables the scheduler and forgets the requests in either mode.
StopAll(c) ==
    /\ cpc[c] = "idle" /\ Accept /\ OptionsFree
    /\ \/ schedEnabled' = FALSE /\ requested' = {}
       \/ manualMode /\ UNCHANGED <<schedEnabled, requested>>
    /\ Goto(c, "stopFinish")
    /\ UNCHANGED <<envVars, manualMode, rainUntil, plan, run, open, relay, schedVars, carg, ctodo,
                   untracked>>

\* action "stop" of the programs of the mobile API: it forgets run-now, not run-once
StopPrograms(c) ==
    /\ cpc[c] = "idle" /\ Accept
    /\ requested' = requested \ RunNow
    /\ Goto(c, "progFinish")
    /\ UNCHANGED <<envVars, manualMode, schedEnabled, rainUntil, plan, run, open, relay, schedVars,
                   carg, ctodo, untracked>>

\* mutant: the callback does not finish the runs
ToggleWithoutFinish(c) ==
    /\ cpc[c] = "idle" /\ Accept /\ OptionsFree
    /\ manualMode' = ~manualMode
    /\ requested' = {}
    /\ Goto(c, "modeClear")
    /\ UNCHANGED <<envVars, schedEnabled, rainUntil, plan, run, open, relay, schedVars, carg, ctodo,
                   untracked>>

\* options.manual_mode := not options.manual_mode, whose callback is _Scheduler._option_cb
ToggleManualMode(c) ==
    /\ cpc[c] = "idle" /\ Accept /\ OptionsFree
    /\ manualMode' = ~manualMode
    /\ requested' = {}
    /\ Goto(c, "modeFinish")
    /\ UNCHANGED <<envVars, schedEnabled, rainUntil, plan, run, open, relay, schedVars, carg, ctodo,
                   untracked>>

\* mutant: the stop of the programs forgets the outputs
AfterFinishKeepsOutputs ==
    [stopFinish |-> "stopClear", progFinish |-> "idle", modeFinish |-> "modeClear"]

\* the three handlers above: log.finish_run(None), stations.clear(), and the relay
AfterFinish == [stopFinish |-> "stopClear", progFinish |-> "progClear", modeFinish |-> "modeClear"]
AfterClear  == [stopClear |-> "stopRelay", progClear |-> "idle", modeClear |-> "idle"]

FinishAll(c) ==
    /\ cpc[c] \in DOMAIN AfterFinish
    /\ Goto(c, AfterFinish[cpc[c]])
    /\ FinishRuns(Uid)
    /\ UNCHANGED <<envVars, optVars, open, relay, schedVars, carg, ctodo, requests, untracked>>

ClearAll(c) ==
    /\ cpc[c] \in DOMAIN AfterClear
    /\ Goto(c, AfterClear[cpc[c]])
    /\ ClearOutputs
    /\ UNCHANGED <<envVars, optVars, run, relay, schedVars, carg, ctodo, requests>>

\* The mobile API imports the module instead of its outputs, and does not reach the relay.
RelayOff(c) ==
    /\ cpc[c] = "stopRelay"
    /\ Goto(c, "idle")
    /\ relay' \in {relay, FALSE}
    /\ UNCHANGED <<envVars, optVars, run, open, schedVars, carg, ctodo, requests, untracked>>

\* The mode is checked first; the run is logged and the station opened by two later calls.
StartByHand(c, u, s, end) ==
    /\ cpc[c] = "idle" /\ Accept
    /\ manualMode
    /\ s \in Zone
    /\ run[u] = "none" /\ \A d \in Client : carg[d] # u
    /\ plan' = [plan EXCEPT ![u] = [station |-> s, start |-> now, end |-> end]]
    /\ carg' = [carg EXCEPT ![c] = u]
    /\ Goto(c, "handLog")
    /\ UNCHANGED <<envVars, manualMode, schedEnabled, rainUntil, requested, run, open, relay,
                   schedVars, ctodo, untracked>>

LogByHand(c) ==
    /\ cpc[c] = "handLog"
    /\ Goto(c, "handOpen")
    /\ StartRun(carg[c])
    /\ UNCHANGED <<envVars, optVars, open, relay, schedVars, carg, ctodo, requests, untracked>>

OpenByHand(c) ==
    /\ cpc[c] = "handOpen"
    /\ Goto(c, "idle")
    /\ carg' = [carg EXCEPT ![c] = NoUid]
    /\ Activate(plan[carg[c]].station)
    /\ UNCHANGED <<envVars, optVars, run, relay, schedVars, ctodo, requests>>

\* mutant: the runs are finished, the station is not closed
StopRunsOnly(c, s) ==
    /\ cpc[c] = "idle" /\ Accept
    /\ carg' = [carg EXCEPT ![c] = s]
    /\ Goto(c, "stationRead")
    /\ UNCHANGED <<envVars, optVars, run, open, relay, schedVars, ctodo, untracked>>

\* The station is closed first; the runs to finish are read after that.
StopStation(c, s) ==
    /\ cpc[c] = "idle" /\ Accept
    /\ carg' = [carg EXCEPT ![c] = s]
    /\ Goto(c, "stationRead")
    /\ Deactivate(s)
    /\ UNCHANGED <<envVars, optVars, run, relay, schedVars, ctodo>>

ReadStationRuns(c) ==
    /\ cpc[c] = "stationRead"
    /\ Goto(c, "stationFinish")
    /\ ctodo' = [ctodo EXCEPT ![c] = {u \in ActiveRuns : plan[u].station = carg[c]}]
    /\ UNCHANGED <<envVars, optVars, run, open, relay, schedVars, carg, requests, untracked>>

FinishStationRun(c, u) ==
    /\ cpc[c] = "stationFinish" /\ u \in ctodo[c]
    /\ ctodo' = [ctodo EXCEPT ![c] = @ \ {u}]
    /\ FinishRuns({u})
    /\ untracked' = LET s == plan[u].station
                    IN IF s \in open /\ \A v \in ActiveRuns \ {u} : plan[v].station # s
                       THEN untracked \cup {s} ELSE untracked
    /\ UNCHANGED <<envVars, optVars, open, relay, schedVars, cpc, carg, requests>>

StationStopped(c) ==
    /\ cpc[c] = "stationFinish" /\ ctodo[c] = {}
    /\ Goto(c, "idle")
    /\ carg' = [carg EXCEPT ![c] = NoUid]
    /\ UNCHANGED <<envVars, optVars, run, open, relay, schedVars, ctodo, requests, untracked>>

\* run_once.set and programs.run_now replace the request that was there
RequestOnce(u) ==
    /\ Accept
    /\ run[u] = "none" /\ u \notin requested
    /\ plan' = [plan EXCEPT ![u] = [station |-> OnceStation[u], start |-> now,
                                    end |-> IF now + OnceLength[u] <= MaxTime
                                            THEN now + OnceLength[u] ELSE MaxTime]]
    /\ requested' = {u} \cup IF u \in RunNow THEN requested \ RunNow ELSE requested \cap RunNow
    /\ UNCHANGED <<envVars, manualMode, schedEnabled, rainUntil, run, open, relay, schedVars,
                   cpc, carg, ctodo, untracked>>

SetSchedulerEnabled(enabled) ==
    /\ Accept /\ OptionsFree
    /\ schedEnabled # enabled
    /\ schedEnabled' = enabled
    /\ UNCHANGED <<envVars, manualMode, rainUntil, requested, plan, run, open, relay, schedVars,
                   cpc, carg, ctodo, untracked>>

\* helpers.stop_onrain assigns an attribute "activated" that no output reads
SetRainDelay(end) ==
    /\ Accept /\ OptionsFree
    /\ rainUntil' = end
    /\ UNCHANGED <<envVars, manualMode, schedEnabled, requested, plan, run, open, relay, schedVars,
                   cpc, carg, ctodo, untracked>>

\* the first API drives an output without any run
LegacyStart(s) ==
    /\ LegacyApi /\ Accept
    /\ s \in Zone
    /\ Activate(s)
    /\ UNCHANGED <<envVars, optVars, run, relay, schedVars, cpc, carg, ctodo>>

LegacyStop(s) ==
    /\ LegacyApi /\ Accept
    /\ Deactivate(s)
    /\ UNCHANGED <<envVars, optVars, run, relay, schedVars, cpc, carg, ctodo>>

Request(c) ==
    \/ StopAll(c) \/ StopPrograms(c) \/ ToggleManualMode(c)
    \/ \E u \in ManualId, s \in Station, end \in {now + 1, Forever} :
          end \in Instant /\ StartByHand(c, u, s, end)
    \/ \E s \in Station : StopStation(c, s)

Setting ==
    \/ \E u \in OnceId : RequestOnce(u)
    \/ \E enabled \in BOOLEAN : SetSchedulerEnabled(enabled)
    \/ \E end \in {now, MaxTime} : SetRainDelay(end)
    \/ \E s \in Station : LegacyStart(s) \/ LegacyStop(s)

HandlerStep(c) ==
    \/ FinishAll(c) \/ ClearAll(c) \/ RelayOff(c)
    \/ LogByHand(c) \/ OpenByHand(c)
    \/ ReadStationRuns(c) \/ StationStopped(c)
    \/ \E u \in Uid : FinishStationRun(c, u)

(***************************************************************************)
(* The environment: time passes, and the rain sensor changes.              *)
(***************************************************************************)
AdvanceTime ==
    /\ now < MaxTime
    /\ now' = now + 1
    /\ UNCHANGED <<rainSensed, optVars, run, open, relay, schedVars, clientVars, untracked>>

RainChange ==
    /\ rainSensed' = ~rainSensed
    /\ UNCHANGED <<now, optVars, run, open, relay, schedVars, clientVars, untracked>>

Init ==
    /\ now = 0 /\ rainSensed = FALSE
    /\ manualMode \in BOOLEAN /\ schedEnabled = TRUE
    /\ rainUntil = 0
    /\ requested = {}
    /\ plan = [u \in Uid |-> IF u \in Occ
                             THEN [station |-> OccStation[u], start |-> OccStart[u], end |-> OccEnd[u]]
                             ELSE [station |-> CHOOSE s \in Zone : TRUE, start |-> 0, end |-> 0]]
    /\ run = [u \in Uid |-> "none"]
    /\ open = {} /\ relay = FALSE
    /\ pc = "sleep" /\ tickTime = 0 /\ rain = FALSE
    /\ active = {} /\ todo = {} /\ seen = {} /\ cur = NoUid
    /\ masterOn = FALSE
    /\ cpc = [c \in Client |-> "idle"]
    /\ carg = [c \in Client |-> NoUid]
    /\ ctodo = [c \in Client |-> {}]
    /\ requests = 0
    /\ untracked = {}

Next ==
    \/ SchedulerStep
    \/ \E c \in Client : Request(c) \/ HandlerStep(c)
    \/ Setting
    \/ AdvanceTime \/ RainChange

\* threads are scheduled and the clock advances; nobody has to send a request
Fairness ==
    /\ WF_vars(SchedulerStep)
    /\ \A c \in Client : WF_vars(HandlerStep(c))
    /\ WF_vars(AdvanceTime)

Spec     == Init /\ [][Next]_vars
FairSpec == Spec /\ Fairness

(***************************************************************************)
(* Properties.                                                             *)
(***************************************************************************)
Window == [station : Zone, start : Instant, end : Instant]
Status == {"none", "active", "finished"}

SchedulerLabels == {"sleep", "snapshot", "settle", "close", "readFinished", "predict", "start",
                    "open", "master1", "relay", "master2", "return"}
ClientLabels    == {"idle", "stopFinish", "stopClear", "stopRelay", "progFinish", "progClear",
                    "modeFinish", "modeClear", "handLog", "handOpen", "stationRead",
                    "stationFinish"}

\* Every variable keeps to the values its Python counterpart can hold.
TypeOK ==
    /\ now \in Time /\ rainSensed \in BOOLEAN
    /\ manualMode \in BOOLEAN /\ schedEnabled \in BOOLEAN /\ rainUntil \in Instant
    /\ requested \subseteq OnceId
    /\ plan \in [Uid -> Window] /\ run \in [Uid -> Status]
    /\ open \subseteq Station /\ relay \in BOOLEAN
    /\ pc \in SchedulerLabels /\ tickTime \in Time /\ rain \in BOOLEAN
    /\ active \subseteq Uid /\ todo \subseteq Uid /\ seen \subseteq Uid /\ cur \in Uid \cup {NoUid}
    /\ masterOn \in BOOLEAN
    /\ cpc \in [Client -> ClientLabels]
    /\ carg \in [Client -> Uid \cup Station \cup {NoUid}]
    /\ ctodo \in [Client -> SUBSET Uid]
    /\ requests \in Nat
    /\ untracked \subseteq Zone

\* Nobody is between two calls of a handler.
Quiet == pc = "sleep" /\ \A c \in Client : cpc[c] = "idle"

\* An output that is on has a run in the log, or a thread is on its way to switch it off, or it
\* is one that an interleaving of two handlers (or the first API) left behind: no other path of
\* the scheduler, of a stop or of a mode change leaves a valve open that nothing will time out.
OpenIsTracked ==
    \A s \in open \cap Zone :
        \/ Running(s)
        \/ s \in untracked
        \/ pc = "close" /\ plan[cur].station = s
        \/ \E c \in Client : cpc[c] \in DOMAIN AfterClear

\* When requests do not overlap a pass of the scheduler, every output that is on has a run in
\* the log that will time it out, once each handler is done.
OutputsHaveRuns == Quiet => \A s \in open \cap Zone : Running(s)

\* In manual mode only runs started by hand are active and in automatic mode only the others,
\* whenever no handler is under way (scheduler._option_cb ends the runs of the other mode).
ModeSeparatesRuns ==
    Quiet => \A u \in ActiveRuns : (u \in ManualId) <=> manualMode

\* A run that was finished, by its end or by a stop, is never started again: the prediction
\* skips every occurrence that is in the log.
FinishedStaysFinished ==
    [][\A u \in Uid : run[u] = "finished" => run'[u] = "finished"]_vars

\* Once it no longer rains, the only outputs that stay on are those of open-ended runs started
\* by hand and those left behind: a timed run is ended, and its output closed, whatever
\* requests come in between.
OutputsTimeOut ==
    <>[](~RainNow) =>
        <>[](\A s \in Zone \ untracked :
                s \in open => \E u \in ActiveRuns : plan[u].station = s /\ plan[u].end = Forever)

\* While rain lasts in automatic mode, a station that does not ignore rain stays on only for a
\* run that was requested by hand, or if it was left behind.
RainClosesStations ==
    <>[](RainNow) =>
        <>[](\A s \in Zone \ (IgnoreRain \cup untracked) :
                s \in open => \E u \in ActiveRuns : plan[u].station = s /\ IsManual(u))

\* When no run is active any more, the masters and the relay are off in the end, although a
\* pass decides about them from the list of runs it read before it ended them.
MastersReleased ==
    <>[](ActiveRuns = {}) => <>[](open \cap Masters = {} /\ relay = FALSE)

\* A master that a lasting run asks for, by its station or by its program, is on in the end,
\* although a stop of another run, or of the master itself, may have switched it off.
MastersServeRuns ==
    \A u \in Uid, i \in 1..2 :
        MasterStation[i] # NoStation =>
            (<>[](u \in ActiveRuns /\ NeedsMaster(u, i)) => <>[](MasterStation[i] \in open))

\* The masters follow the runs, however late each pass is to see them (scheduler.py:774).
MastersFollowRuns == MastersReleased /\ MastersServeRuns
=============================================================================

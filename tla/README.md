# OSPy: models and proofs of the irrigation core

OSPy drives garden valves from a Raspberry Pi.  This directory holds TLA+
models of the parts of OSPy that decide which valve is open and when, what is
remembered about it across threads, crashes and restarts, and how requests of users,
plug-ins, sensors, phones and a stop of the server interfere with that.  TLC checks each model on small installations; TLAPS proves
the central results for every installation.

## 1. The system

| component | state | operations | talks to |
|---|---|---|---|
| scheduler thread (`ospy/scheduler.py`) | locals of one pass; the set of reported blocks | one pass a second: end runs, predict, start runs, switch masters and relay; the callback of `manual_mode` | reads options, run log, programs, sensors; calls the run log and the outputs |
| run log (`ospy/log.py`) | list of runs with start, end, active flag; persisted snapshot | `start_run`, `finish_run`, `active_runs`, `finished_runs`, `clear_runs`; a persistence worker | options storage, every thread |
| outputs (`ospy/stations.py`, `ospy/outputs.py`) | on/off per station, master relay | `activate`, `deactivate`, `clear`, `resize`; notification dispatcher | shift registers, plug-ins through signals |
| options (`ospy/options.py`) | values in memory; settings file, its temporary and its backup | attribute get and set with callbacks, debounced `_write`, `flush`, `save_now`, recovery at start-up | every component |
| programs, calendar (`ospy/programs.py`, `ospy/calendar_rules.py`) | programs, run-now program, group postponements | intervals of a day, `run_now`, postponement | scheduler, web pages |
| run-once (`ospy/runonce.py`) | start and seconds per station | `set`, `clear` | scheduler, web pages |
| web pages (`ospy/webpages.py`), mobile API (`api/v1/api.py`), first API (`api/api.py`) | nothing of their own; one thread per request | stop all, manual mode, scheduler on/off, rain delay, start and stop of a station, run and stop of a program | options, run log, outputs, programs |
| sensors (`ospy/sensors.py`, `ospy/sensor_logs.py`) | last values; outbox on disk, fallback files, database | receive samples, trigger programs and stops, store, read, clear and delete records; one worker delivers | scheduler state, outputs, options, a database server |
| server, restart (`ospy/server.py`, `ospy/helpers.py`) | running flag, workers | start, stop, safe stop of the outputs, restart | all of the above |
| storage and backup (`ospy/settings_storage.py`, `ospy/backup.py`) | databases, markers, archive | write and read, activate a storage, restore a backup | options |
| plug-in manager (`plugins/__init__.py`), bus guard (`ospy/i2c_guard.py`) | what is enabled and what runs, the lifecycle lock; who waits for the bus | enable, disable, start with dependencies, stop, restart, update; a transaction on the bus | options, outputs, web pages |
| mobile sessions (`api/v1/store.py`, `api/v1/security.py`) | devices, refresh tokens, subscriptions | pair, refresh, log out, revoke, delete, subscribe | handlers of the API |
| weather, health, users, statistics | their caches | listed in `PROJECT.json` | mostly readers of the core |

### What is hard here

* The scheduler, the handlers of requests, the sensor loops and the plug-ins are
  threads.  The run log and the outputs have a lock each, held for one call:
  nothing spans the two, so each handler can be cut by another one between
  any two calls.  A pass takes copies of the log and decides from them later.
* Stopping is spread over three calls (`log.finish_run(None)`,
  `stations.clear()`, the relay), starting over two.  What remains open after a
  cut is decided by the run log alone: an output that is on without an active
  run is timed out by nothing.
* `manual_mode` decides which runs may be active; its callback ends the others.
* Rain closes outputs but does not end their runs.
* The scheduler keeps no plan.  Each pass computes all runs of two days anew from the
  programs and the log, which forgets; what waits for its place is planned again and
  again, and has to come out the same.
* Settings are written a second after the last change by a timer thread, through
  a temporary and a backup directory, each with two databases; a power cut can fall
  anywhere, and a start decides from what is left.
* The runs are persisted by a worker that keeps only the latest snapshot, into
  the same options file.
* A stop of the server switches outputs off while passes, requests and plug-ins go on
  until they notice; a restore moves the files a timer thread may be about to write.
* Records of a sensor pass through three stores while pages read and clear them; a
  phone that loses the answer to a refresh repeats it; plug-ins outlive their stop.

### What makes the components correct

* Outputs and log: an output that is on has an active run, once the handlers
  are done; timed runs end; stopped runs are not started again.
* Modes: in manual mode only runs started by hand, in automatic mode only others.
* Masters: on exactly as long as a run needs them, moved by their offsets.
* Plan: every run takes place once, within the limit of usage and with the pauses set.
* Options: after a crash a start reads the settings from before the write or those
  after it, whole, and once the new ones are found never the old ones again.
* Run history: what is on disk agrees with the log once it is written, its runs fit
  the mode it is stored with, and what the log cannot have forgotten is not run twice.
* Sensor records: none lost that was taken, none back that was cleared.
* Stop: no output on, the settings stored, a restored backup not overwritten.
* Sessions: what has ended stays ended; a lost answer can be recovered once.
* Plug-ins: one copy of each, dependencies first, the bus never blocked by the dead.


## 2. The modules

| module | is about | composed with | proofs | section |
|---|---|---|---|---|
| `IrrigationControl` | which valve is open: a pass, requests, rain, masters | - | `IrrigationControlProofs` | 3 |
| `MasterDelays` | the masters' offsets against what the log keeps | - | `MasterDelaysProofs` | 4 |
| `SchedulePlan` | when runs take place: usage, delays, pauses | - | `SchedulePlanProofs` | 5 |
| `OptionsStore` | a write of the settings, file by file | refines `DurableSettings` | `OptionsStoreProofs` | 6 |
| `RunHistory` | pruning, saving and restoring the log | takes a write as the step `DurableSettings` promises | `RunHistoryProofs` | 7 |
| `SensorLogs` | records on their way to the database | - | `SensorLogsProofs` | 8 |
| `ServerStop` | stop, restart, restore | takes a pass, a request and a write in two steps each | `ServerProofs` | 9 |
| `MobileSessions` | refresh tokens and devices | - | `ServerProofs` | 10 |
| `PluginLifecycle` | starting and stopping plug-ins | extends `I2CGuard` | `PluginLifecycleProofs` | 11 |

`MC` modules give each a small instance.  A type invariant `TypeOK` (in two parts in
`PluginLifecycle`) belongs to every module.  It is a theorem everywhere, the
base of every other one (`SessionsTypeOK` in `MobileSessions`, whose
specification is `SessionsSpec`, so that `ServerProofs` can extend both); the configurations spend their invariants on what could be
wrong, and no run lists `TypeOK`.

What would come next: the sensors' theorems with several
sensors whose directories do not move; in `SchedulePlan`, that a plan made again without a
disturbance is the same, on which `NothingRepeats` rests without a log of runs; models of the
group postponements, the sensors' regulation of programs and the notification queue of the
outputs.

## 3. Control core: `IrrigationControl`

One step is one call that takes the log lock or the output lock, or one read of
the options that decides something.  The scheduler is a process with the program
counter `pc`; each client in `Client` is a thread that handles one request at a
time, at the label `cpc[c]`.

| code | model |
|---|---|
| `_check_schedule`: rain and time read | `TickBegin` |
| `log.active_runs()` and the loop over it | `ReadActiveRuns`, `EndRun`, `CloseStation`, `Settled` |
| `log.finished_runs() + log.active_runs()` | `ReadFinished`, `Predict` (two reads) |
| the rest of `predicted_schedule` | `Skipped`, `Blocked`, `DueNow`, `ToStart` |
| the loop that starts runs | `LogStart`, `OpenStation`, `Started` |
| the two master blocks and the relay | `SwitchMaster(1)`, `SwitchRelay`, `SwitchMaster(2)` |
| home page `stop_all`, mobile `_stop_all` | `StopAll`, `FinishAll`, `ClearAll`, `RelayOff` |
| mobile program stop | `StopPrograms`, `FinishAll`, `ClearAll` |
| `options.manual_mode = ...` and its callback | `ToggleManualMode`, `FinishAll`, `ClearAll`; the options lock is held meanwhile (`OptionsFree`) |
| start and stop of a station | `StartByHand`, `LogByHand`, `OpenByHand`; `StopStation`, `ReadStationRuns`, `FinishStationRun`, `StationStopped` |
| run-once, run-now | `RequestOnce` |
| scheduler on/off, rain delay | `SetSchedulerEnabled`, `SetRainDelay` |
| first API | `LegacyStart`, `LegacyStop` |

Programs appear as the occurrences the prediction yields: a station and a window
per `Occ` and per `OnceId`.  `ConstantsAssumption` says that no two intervals of
one prediction overlap on a station, so that none is shifted; output usage is
unlimited and the masters have no delays (sections 4 and 5).  The run log is kept whole (`run_log`
on, `run_entries` 0); pruning is the subject of `RunHistory`.  `untracked` is a history
variable: the zones that were opened without an active run, or whose last run
was finished alone while the output was on.

Checked, on up to three stations and two masters, two occurrences of programs, one
run-once request, one run by hand and one client, over a clock of three instants.
That is enough for a run to begin, be interrupted and end in three different passes,
and for a window that overlaps the next one on another station; more stations only
repeat what these do.

| run | bounds | shows |
|---|---|---|
| `control_masters` | two masters, one driven by a program, the first API in use; one request that may cut a pass at every call; `o1` has no end within the clock, so that rain and not time has to close it. 137,454 states | `OpenIsTracked` names the only ways an output can stay on without a run; `OutputsTimeOut`, `RainClosesStations`; `MastersFollowRuns`: the masters are off when no run is left and on while a lasting run needs them |
| `control_serial` | three requests, handled while the scheduler sleeps (`Interleave = FALSE`) | outputs have runs, runs belong to the mode, no run is repeated |

Fairness.  `WF(SchedulerStep)` and `WF(HandlerStep(c))`: Python threads are
scheduled, and no call of the core waits for another without bound.
`WF(AdvanceTime)`: the clock runs.  Nobody has to send a request, and the rain
may change or not.  `OutputsTimeOut` assumes that rain ends, `RainClosesStations`
that it lasts; both are antecedents of the property, not fairness.

`Interleave = FALSE` is the assumption a careful user satisfies without knowing:
a pass takes milliseconds of each second.  The properties under it are what the
code guarantees but for these races; `OpenIsTracked` says how bad a race can be.

### Proofs

`IrrigationControlProofs` (any number of stations, occurrences, requests and
clients, both values of `Interleave` and `LegacyApi`):

* `TypeCorrect`: `Spec => [](TypeOK /\ LocalsOK)`.  `LocalsOK` strengthens the
  types by what a thread holds between two calls: the run in its hands is one, and
  the runs a pass is about to end are in the log.
* `OutputsTracked`: `Spec => []OpenIsTracked`.  Given the types the invariant is
  inductive: lemma `StillTracked` covers the steps that open no zone and keep
  the active runs and the threads on their way to close, `ActivateTracked` every
  call of `stations.activate`.  The steps that do end runs are `EndRun`
  (the pass goes on to close the station), `FinishAll` (the handler goes on to
  clear everything) and `FinishStationRun` (which the history records).

Its second part (same generality, `~Interleave` and `~LegacyApi`): `SerialInv` adds that a pass and the handlers exclude one another, that what they
have decided is still so when they act on it, and that the runs of the other mode
are over or about to be.  From it follow `SerialOutputs`, `SerialModes` and
`SerialHistory`.  The liveness properties are only model-checked.

## 4. Offsets of the masters: `MasterDelays`

A master follows the runs that need it, moved by a start and a stop offset of its own,
each positive or negative.  A run that is to come is found in the prediction, one that is
over in the run log; a pass puts both in one list (`combined_schedule`) and asks it for
each master.  Without offsets it looks at the active runs only.

| code | model |
|---|---|
| `_check_schedule`, the whole pass | `CheckSchedule` |
| `clear_runs`: what of the past is kept | `Keep`, `Remembered` |
| `predicted_schedule`, `combined_schedule` | `Predicted`, `Combined` |
| the two master blocks and the list they share | `View`, `ViewFor`, `Wanted` |
| Stop All, a station stopped or started by hand | `StopAll`, `StopOne`, `StartByHand` |
| programs edited, scheduler on again | `ChangePlan`, `Enable` |

The unit of time is one pass, and a pass is one step: what can happen inside it is in
`IrrigationControl`.  `past` is a history variable, every run there has been.

| run | bounds | shows |
|---|---|---|
| `master_delays` | three runs for two masters, every combination of the signs of their offsets, one or both present, run log on and off, manual and automatic mode, eight passes, three requests | `MasterServes`: a run has its master from start to end, both moved by the offsets, even if it was stopped meanwhile or is still to come. `MasterRests`: no master is on without such a run |

Eight passes leave room for a run, its offsets on both sides and another run that begins
in between; three requests are a stop, an edit and a restart of the scheduler.
Both properties are about single steps; there is no fairness here.

### Proofs

`MasterDelaysProofs`, for any runs, times and offsets.  The invariant is
`Inv == TypeOK /\ Forgotten`: the log is part of the past, and what is missing from it
ended longer ago than `Keep`.  A run that is being closed ends at this instant, and those
that end later only push the limit back, so every call that forgets keeps `Forgotten`.
`MasterTypes` is the type invariant; `LagLogged` says that a run which may still keep a
master on is in the log; `MastersServe` is `MasterServes`.  Two assumptions are named and
mark where the code gives no such guarantee (section 12): `LagFits`, no stop offset is
longer than what the log keeps (it looks at the first master's only), and `BothDelayed`,
the second master has offsets if the first one has.  

`MastersRest` is `MasterRests` under `BothDelayed` and `RunsTakeTime` (every run has a
length: the code starts one by hand for the time set or for ten years).  Its invariant is
`RestInv`: an active run has begun and has yet to end (`InProgress`), so a master that
serves it has a reason; and in automatic mode every entry of the log is an occurrence of a
program (`FromPrograms`).  The difficult case is the prediction that a master with
offsets looks at: `DueIsStarted` shows that what the plan says should run by now has been
logged in the same round, so no master is switched on for a run that never comes.

## 5. The plan: `SchedulePlan`

The scheduler keeps no plan.  Each second it computes all runs of two days from the
programs and from the log, starts what is due and forgets the rest.  A run that has to
wait for others, because of the limit of usage, the station delay or the program pause,
is planned anew until its time has come.

| code (`predicted_schedule`) | model |
|---|---|
| runs of the programs, adjusted, none overlapping on a station | `TooOld`, `Impossible`, `Length`, `Follow`, `Listed`, `Entered`, `Unplaced` |
| the order in which they get places | `InOrder`, `ManualFirst`, by the stable `Sorted` |
| what the log says has been dealt with | `Skip` |
| the search for a place: usage, delay, minimum run time | `Change`, `UsedAt`, `RunningSince`, `Gap`, `Begin`, `Fits`, `Place`, `Add`, `Placed` |
| `_apply_program_pause` | `Automatic`, `Occurrence`, `PutOff`, `Shifts`, `Paused` |
| `finish_run`, `start_run`, `clear_runs` | `Finish`, `Kept` |
| one pass | `Pass`: `Closed`, `Due`, `StartRuns` |
| a station stopped, a run-once request, the water level | `StopRun`, `RequestOnce`, `ChangeLevel` |

Programs appear as the occurrences of two days: program, station, start, length,
usage.  The search is the code's, operation by operation but on sets of runs rather than
on a table of changes.  Runs that begin together and use the same go in the order in which their
stations come up in the lists of what is asked for, as the keys of `station_schedules` do
(`Listed`, `Entered`).  `RunningSince` does not see the first period in which stations
were open, as the code does not.  A pass is one step (`IrrigationControl` takes it apart), and
`Minute` stands for the 60 s for which the log keeps what has ended.  The calendar, the
modes, the rain and the group postponements are left out.

| run | bounds | shows |
|---|---|---|
| `plan` | three occurrences on three stations and one run-once request; usage limit 1 and 2, station delay 0 and 1, program pause 0 and 2, log on and off, programs that repeat, water level 100 and 150 %, no minimum runtime, two requests at any time, 18 passes: 833,309 states | `UsageKept`, `DelayKept`, `PauseKept`: limits hold in what really runs, not in one plan. `NothingRepeats`, `EveryRunTakesPlace`: plans made one after the other agree, so that each occurrence runs once |
| `pause_repeats` | log off, two programs that begin together, a long pause, no request | violates `EachRunOnce` (section 12) |
| `delay_lost` | usage limit 1, a station delay and a minimum runtime | violates `DelayKept` (section 12) |

The second program has the first station, so that the order of the programs and that of the stations
differ.  Three occurrences let one run while a second waits and a third may overtake it; 18
passes are the length of all three one after the other with every pause; two requests let a
user undo a change or stop what he has asked for.  Each property
names where it stops: `Retold` is that the log is on or nothing disturbs the plan; a
run-once request takes its place before the others (`Unasked`).  These are not
conveniences: without each of them the property is false of the code, as section 12 says.

There is no fairness: `EveryRunTakesPlace` speaks of the end of the clock, and a pass is
always possible.

### Proofs

`SchedulePlanProofs`, for any finite set of runs, any programs and options and any clock.
`TypeCorrect` is the type invariant.  `UsageBounded`: without a pause between programs,
`UsageKept`.  `LoggedOnce`: with a log of all runs, `NothingRepeats`.  The invariant is

    Inv == TypeOK /\ Timely(log) /\ ActiveOnce(log) /\ Remembered /\ Limited

`Timely`: what is in the log was begun, and what is not active in it is over, so that what a
plan takes as open now (`Cover`) is what is active (`KnownNow`).  `ActiveOnce`: no run is
active twice, so that the usage of the log is no more than that of the spans a plan keeps
(`TotalByJob`).  `Remembered`: what was begun is in the log.  `Limited` is the bound.

The weight is in the operators.  A plan is made by four folds over sequences (`Follow`,
`Skip`, `Add`, `PutOff`).  For each, one function that satisfies the recursion is built
(`FoldExists`, `ChainExists`, by induction on the size of a set of numbers), so that the fold is
that recursion, and then what the fold keeps is shown step by step:
* `FollowAll`, `SortedPlan`, `SkipAll`, `AskingPlan`: what asks for a place is each time a part
  of the runs, each once, and none the log knows;
* `PlaceFits`: a place that is found keeps the bound at every time.  The code looks only at
  the points where the usage changes; what is open at another time is open at the latest
  such point before it (`LatestPoint`), and more runs use no less (`TotalMonotone`);
* `AddAll`: hence the places of all runs together keep the bound wherever what ran kept it
  (`Filled`, `Room`);
* `ShiftsType`, `PausedPlan`: a pause moves runs and changes nothing else, which is why it
  may break the bound and why `UsageBounded` is without it.

Sorting is by rank (`Ranked`): `Ranks` shows that in an ordered finite set every rank is
taken once, so that a sort loses and repeats nothing (`Sorting`) and a minimum exists
(`Extremes`).  What is only model-checked of this module is in section 13.

## 6. Settings on disk: `OptionsStore`

`ospy/options.py` keeps all settings in one dictionary and writes all of it, a second
after the last change, through the directories `tmp`, `default` and `backup`.  Each
holds a shelve database and a verified SQLite copy of it.  Which of the two copies
counts is decided by the storage mode, which is itself one of the settings, and by two
marker files.

| code | model |
|---|---|
| `_Options.__init__`, order of candidates, emergency recovery | `Loads`, `Start`, `RecoveryStops` |
| `__setattr__` | `Change` |
| `_write`, operation by operation | `BeginWrite` to `SyncMarkers`; `step` says which one is next |
| `rmtree`, filling of a database, cut short | `RemovePart`, `WritePart` |
| an exception in `_write`; the strict option | `WriteFails`, `WriteNoMirror`, `StrictReject` |
| end of the process, a database that rots | `Crash`, `Damage` (external) |

A value of all settings is a number, a mode and whether it is whole: a dictionary
with keys missing can be opened, because dbm.dumb writes its index as it goes.  What a
setting means does not matter to a write.  `stored`, `attempt`, `safe` and `verified`
are history variables: what was last saved completely, what the last write was to
save, whether that write began with the old settings in `default`, and whether a
verified copy of what is stored exists.  `safe` is the one assumption behind
`CrashKeepsSettings`: a write that begins after a start from `tmp` or `backup` has less
to fall back to (section 12).

`DurableSettings` is the abstract specification: one durable value, an offer, and a
promise that is suspended while the store is exposed.  Under the refinement mapping
`value <- Loads, offer <- attempt, exposed <- ~safe` a start finds exactly one value
whatever the files look like; the many file operations of a write stutter but for the one
that commits, and a crash is no step at all.  `KeepsPromise == Durable!Spec` is both a
property of the run and a theorem.

| run | bounds | shows |
|---|---|---|
| `options` | three storage modes, the timer and `save_now`, two changes, two crashes, one failing operation, one damaged database: 1,003,053 states | `CrashKeepsSettings`, `KeepsPromise`, `SavedIsStored`, `EmergencyKeepsSettings`, `EventuallySaved` |

A write depends on what is on disk and on the value it writes, not on how many writes
went before; two changes fill two of the directories with different values, and the
second crash covers a stop during the write that follows a recovery.

Fairness: `WF(Start)`, a supervisor starts OSPy again; `WF(BeginWrite("timer"))`, a
timer that is left alone fires; `WF(WriteStep)`, a write is a finite number of file
operations.  Nothing more is assumed of users or of the medium; `EventuallySaved` allows for a
failing operation, as the code does not repeat a failed write before the next change.

### Proofs

`OptionsStoreProofs`, for any numbers of changes, crashes, failures and damages and any
modes.  The invariant is `IInv == TypeOK /\ Progress /\ Kept`.  `Progress` says how far a
write has come at each `step`: from the mirror on, `tmp` holds what the write attempts.
`Kept` says why nothing is lost at that step: while `default` is intact it answers;
while it is removed the SQLite copy in it may answer only with the old settings, and
otherwise `tmp` does, before `backup`; between two writes a start finds one of the two
values without emergency recovery.  `NothingLost` follows for every step of a write by
lemmas on removing, filling, rotating, committing and failing.  `CommitFinal` needs only
the invariant and that `stored` changes to what was attempted.  `PromiseKept` is the
refinement: `InitPromised` and `StepPromised` map every step to a step of
`DurableSettings` or a stutter; `InstallCommits` is the step that commits.

Two more invariants say what an answer is worth.  `Answered`: `save_now` has no answer
while a write is under way, and when it says "saved" the active directory holds what is
in memory, in both copies when the SQLite one is primary; from it follows `SaveIsStored`.
`Verified`: while a strict write is being installed its copy goes with it, and afterwards it
stays with its marker in place until the next write begins; from it follows `EmergencyKept`.
Both rest on `IInv`.  Only `EventuallySaved`, which needs fairness, is model-checked.

Not modelled: the upgrade from version 2, the file that only records evidence for
Diagnostics, the content of settings, and the numbers of starts and
writes that the SQLite primary asks for (left open in `SyncMarkers`).

## 7. History of runs: `RunHistory`

The run log serves three purposes: it says what is active, it tells the prediction what
has run, and it survives a restart.  This module is about the second and the third.

Every call that changes the log does four things one after the other, and releases the
log lock in between: it changes records, prunes old ones, takes a list, and submits the
list to a worker thread, which keeps one list and sets it as an option; a timer writes
the options.

| code | model |
|---|---|
| `start_run`, `finish_run` | `StartRun`, `Finish`, then `Prune`, `TakeList`, `Submit` of the same thread (`call[t]` says which is next) |
| `clear_runs`, `clear_all_runs` | `Prunable`, `Prune`, `ClearRuns`, `ClearAllRuns` |
| `_LogPersistenceWorker` | `TakeItem`, `SetItem` |
| the timer and `_Options._write` | `Write`, one step: `OptionsStore` shows that a stop within it leaves the old or the new settings |
| `predicted_schedule`, what is skipped | `Skipped`, `Due` |
| a pass of the scheduler | `PassBegins`, `EndRun`, `Predict`, `StartDue` |
| `options.manual_mode = ...` | `ToggleManualMode`, `FinishAll`, `Leave`: the options' lock is held throughout (`owner`) |
| `_Log.__init__`, `_Scheduler.__init__` | `Start` |

A list holds references to records: `taken`, `queue` and `loggedRuns` are sets of
numbers, `entry` holds the records, and what is written to disk is what they say at
that moment.  That is why an older list does no more harm than to forget or to
remember too much.

Abstracted.  The pass reads the log and acts on it in one step here, because
`IrrigationControl` is about what happens in between.  Time advances only between calls
and passes: a tick stands for the minute or more that the log keeps what ended, which
no call takes.  Windows of occurrences are constants; all records carry a window
(`blocked` ones come from plug-ins).  History variables: `done`, runs of occurrences that
were finished, with record and end, and not cleared by a user or lost in a crash;
`astray`, records logged after the mode had changed or cleared while active.

| run | bounds | shows |
|---|---|---|
| `history` | the newest record is kept; two occurrences that begin at once, one long and one short, three records, one request of one client, one crash; installed in either mode: 100,322 states | what is on disk of a run is what its record says (`StoredIsCurrent`), its runs fit its mode (`StoredModeFits`), a stop reaches the disk (`StopsAreStored`); an occurrence begins again only if its record may have gone (`RepeatedIfForgotten`) |

One client beside the scheduler is enough for two lists to cross.  The log does forget in
this run: a run is stopped, the other one ends a tick later, the record of the first is pruned
behind the newer one, and its occurrence, whose window is still open, is started again as the
third record.  That nothing is ever repeated is therefore false of the code, and of this run;
`RepeatedIfForgotten` says what the code does promise, and
`MayForget` spells out the four conditions, each of which depends on other threads: the
clock, the active runs, what was logged since, and whether a weather program is set up.
The mutant lets the time to keep count from the active runs only, so that a log without one
forgets at once.  That a record is kept beside a run that is still active takes a third
occurrence to go wrong, and is for the theorem.
With a weather program a week of records is kept, longer than any window of the model:
`Weather` then makes `Prunable` empty.  No run sets it; the theorems hold for it too.

Fairness: the threads that are within a call of the log, the worker and the timer.
Every further change of the settings sets the timer anew, so `WF(Write)` asks that they
are left alone for a second now and then; the number of requests is bounded.
`StopsAreStored` needs no clock and no user; a crash ends its obligation.

### Proofs

`RunHistoryProofs`, for any numbers of occurrences, clients and records:
`HistoryTypes`, and `StoredCurrent`, which says that a stopped run is not taken up
again once everything is written.  The inductive invariant is `Noted`: either something
that leads to a write is outstanding (a call that will prune, take or submit, a list at
the worker, the timer), or what is on disk of each run is what its record says.  Every
step that changes a record leaves something outstanding, and a write makes the second
part true. 

`StoredMode` is `StoredModeFits`.  Its invariant `ModeInv` says that the active runs of the
log fit the mode or that the mode is being changed by a client that holds the options' lock
and has still to end them (`ModeChanging`); as a write needs the same lock, it never sees
the second case, and what is on disk fits (`DiskFits`).  It needs that nothing that is
active is pruned, which in turn needs that no run ends before it starts, and for a pass
that what is about to be started has not ended (`InWindow`).

`RunsOnce` is `RepeatedIfForgotten`, for every setting of the log.  `OnceInv` says that what
was finished is in the log with its end, or may have been forgotten (`KnownOrForgotten`),
that what a pass is about to start is not in the log (`DueNotInLog`), and that every list,
wherever it is on its way, has only records that were made (`AllMade`), so that the number
of a new record is in none of them.  The middle of the argument is that `MayForget` lasts:
the clock and the count of records only grow, and a run that becomes active begins now
(`ForgottenStays`); and that pruning establishes it, as no more records are newer in the
log than were made since (`NewerMade`).  After a start the log is what was on disk, and
`done` is what that log remembers: a run that was lost in a crash is not asked for.
Only `StopsAreStored`, which needs fairness, is model-checked.

## 8. Records of sensors: `SensorLogs`

With a database as log storage a record passes through up to three stores: the outbox, a
bounded SQLite queue; the database, written by a worker; and, if the outbox refuses it, a
fallback file from which the next write or read queues it again.  A deletion is a row of
the same outbox.

| code (`ospy/sensor_logs.py`) | model |
|---|---|
| `write_record` | `Measure`, `Enqueue`, `EnqueueFails`, `WriteFallback` |
| `_queue_fallback_records` | `TakeFallback`, `MoveOne`, `EndMove`, by the sensor's thread or a page |
| `SensorLogDatabaseWorker.process_pending_batch` | `ReadBatch`, `WriteRow`, `RemoveRow`, `WriteFails` |
| `read_records` | `OpenHistory`, `ReadFallback`, `ReadPending`, `ReadTombstone`, `ReadRemote`, `RemoteFails`, `ReadAgain`, `ReadLocal` |
| `clear_records` | `StartClear`, `EndClear`, `ClearFails` |
| the page that deletes one or all sensors | `DeleteOne`, `DeleteAll`, `DeleteFiles`, `RemoveSensor` |
| end of the process; a database that does not answer | `Crash`; `Outage`, `Recover` (external) |

A record is the number of its turn; kinds of records and their content are left out.  The
retention limit and the capacity of the outbox are the code's.  History variables: whose a
record is (`owner`), what was taken (`accepted`), what somebody asked to remove (`asked`),
what a clear has removed (`cleared`).

| run | bounds | shows |
|---|---|---|
| `sensor_logs` | one sensor, storage "database" and "both", retention and capacity 2, batches of two, three records, a clear or deletion, a page, one crash, one failure: 1,284,623 states | `AcceptedKept`: nothing taken is lost. `ClearedStaysGone`: nothing cleared comes back, although an earlier row may still be written. `ReadExact`: a page that looks at four stores one after the other shows what was there. `OutboxDrains` |

Three records and a capacity of two fill the outbox and the fallback file, and exceed the
retention limit; the deletion can fall before, between and after the two rows of a batch.
One failure is spent on the outbox, the file, the database or the network, whichever hurts.
With more sensors than one, directories named by index break `AcceptedKept` (section 12);
the model has the sensors' order, so a larger configuration shows it.

Fairness: `WF(Deliver)`, the worker is a loop that ends only with the process, and
`WF(Recover)`, outages end.

### Proofs

`SensorLogsProofs`: `SensorLogTypes` for any number of sensors, and for a single sensor
(`Single`) with any numbers of everything else:

* `ClearedGone`: `[]ClearedStaysGone`.  The core of `ClearInv` is `Behind`: a
  cleared record is in no file and not on its way from one, and wherever it is left, in
  the worker's batch or in the database, a deletion with a larger number waits behind it,
  or has just been written.  It needs that a clear excludes writes and moves (`Locks`) and
  that numbers of rows grow (`Ids`).
* `AcceptedAreKept`: `[]AcceptedKept`, with any retention limit.  A set of records *covers*
  one (`Covers`) when it has it or has as many newer ones as the limit allows.  `KeptInv`
  adds that the worker's batch is a prefix of the outbox, so that rows are written in
  order (`Prefix`), that what nobody asked to remove comes after every deletion
  (`Ahead`) and is newer than what somebody did (`Younger`), that the stores have only
  what was taken (`Taken`), and that the stores together cover each record that was taken,
  even without those that have just been moved (`Held`).  The stores trim apart from each
  other, so that a record can be given up for newer ones that another trim gives up later.
  `CoverStep` is why this is sound: when a set loses only what it has enough newer
  records than, what it covered is still covered, since of the records that are newer than
  the newest it lost none is missing.  `LastingStep` states once, for every step and
  any set beside the stores, what the steps preserve; the invariants of the writer and of
  the page are two uses of it.
* `ReadsClean`: `[]ReadClean`, the half of `ReadExact` about what a page must not show, with
  any retention.  `CleanInv` adds to `ClearInv` that no local file has a cleared record, and
  that once a page has found no deletion waiting, nothing cleared before it was opened is
  in the database or in the worker's batch (`PageClean`): rows are written in order, so what
  had to be deleted has been.
* `ReadsExact`: `[]ReadExact`, with any retention limit.  `CompleteInv` adds to `KeptInv` that
  the local file covers each record of the fallback file (`InLocalFile`), and `Seen`: what a
  page shows, with the stores it has still to look at, covers what there was when it was
  opened, because records move from fallback file to outbox to database, in the order in
  which the page looks; the lock keeps the file still while it reads it.

`OutboxDrains` is model-checked, as it needs fairness.

## 9. Stopping the server: `ServerStop`

`server.stop` closes the web server, sets the stop events, switches outputs off, stops the
plug-ins, switches outputs off, waits for the core workers, switches outputs off, and
saves.  Every wait but the one for requests has a limit.  It is called on the way to a
restart, a reboot, a power off and a restored backup; the latter also has to keep
the old process from writing its settings over the restored ones.

| code | model |
|---|---|
| `server.stop` | `CloseWeb` to `FlushWrites`, in the order of `stage` |
| `_safe_stop_outputs`, three times | `FinishRuns`, `ClearOutputs` |
| a pass, a request, a plug-in under way | `PassBegins` to `PassEnds`, `SchedulerEnds`; `HandlerStarts`, `HandlerOpens`; `PluginOpens` |
| `__setattr__`, the timer, `_write` | `PersistRuns`, `TimerFires`, `BeginWrite`, `EndWrite` |
| `options.flush`, `save_now`, `suspend_writes` | `FlushCancels` to `FlushWrites`, and the places "save", "saving", "suspend", "joining" of a command |
| `create_system_backup` before a restore, and its rejection | `BackupWaits`, `BackupCancels`, `BackupFlushes`, `Archive`; the place "rejected" |
| `helpers.restart`, `reboot`, `poweroff`; the restore page; `apply_staged_restore` | `Give(c)`, `CommandStep(c)` |

`cancel` of a timer does not reach a thread whose time has come; such threads are `strays`,
and the model lets them write when they get the lock.  `late` collects what outlived its
wait; the promises are for the case that nothing did, and `CommandsEnd` for the other.
Before a restore stops anything it makes a backup of what there is, which asks that the log
is saved and the settings are written in time: if not, or if the archive fails, the page
rejects the restore and OSPy goes on ("rejected").  `CommandsEnd` therefore says that no
command stays undertaken for ever while the process goes on: a reboot or restart has it
ended, also if it had to wait for the request of a restore that was then rejected.  The
result of `save_now` is not looked at, nor is that of the write in `flush`.  A pass is
cut into what matters here: it has decided, it has logged a run, it opens the station.

| run | bounds | shows |
|---|---|---|
| `server_stop` | one station, a reboot and a restore from the page, one stray timer: 282,194 states | `SafeWhenStopped`, `StoppedIsStored`, `RestoredStays`, `CommandsEnd` |

Two commands are what it takes for the second to find stop begun.  One station is enough,
as every step treats stations alike and a pass holds one at a time.  One stray gives a writer
that cancel missed; a second would only wait for the same lock.

Fairness: the steps of stop and of a command go on, strongly for those that need the lock
of the settings, which the writer may take again and again; a request under way ends; a
write ends.  Nothing is assumed of plug-ins, the scheduler or the log, because
these are the waits the code limits.

### Proofs

The first part of `ServerProofs`, for any stations, commands and timers.  `StopTypesKept` is the type
invariant.  `StopIsSafe`: `SafeInv` says what each stage has found gone, and why it is
gone for good (`Gone`: no request after the web server has drained, no plug-in and no pass
after their waits, unless late), and that hence nothing is opened after the last sweep
(`Quiet`).  `RestoreStays` and `StopStores` assume `OneRestore`: no second restore
meanwhile, and not the API's, which does not hold writes back (kind "api_restore"; it
breaks `RestoredStays`, section 12).  `Latched` says that writes are suspended from
before the old data is moved away, and that no writer was left inside.
`CommandsEnd` is model-checked.

## 10. Sessions of phones: `MobileSessions`

A phone holds a refresh token, which each use replaces, and short-lived access tokens.  A
phone that loses the answer to a refresh repeats it with the token it has: the store
accepts that once, for a short time.

| code | model |
|---|---|
| `rotate_refresh_token`, its recovery | `Accepted`, `RecoveryRetry`, `Used`, `Rotate` |
| `issue_refresh_token` | `Pair` |
| `active_token_session` | `Session`, `Verify` |
| `revoke_refresh_token` | `Logout` |
| `save_push_subscription`; `push_dispatcher.unregister`, `revoke_device` | `Subscribe`; `AskRevocation`, `Unregister`, `Revoke` |
| `delete_revoked_device` and for all | `Delete` |

Each function of the store is one transaction.  A handler verifies its token in one and
acts in another, and anything may happen between the two (`handlers`).  Nothing is assumed of
the network: whoever once had a token may present it at any time, so that requests are lost,
delayed and repeated.  History variables: which token replaced which and when
(`birth`), and the tokens of sessions that were ended (`ended`).

| run | bounds | shows |
|---|---|---|
| `mobile_sessions` | one device, four tokens (symmetric), two handlers, a grace period of 1, tokens that live 3 and access that lasts 2, a clock up to 4: 546,254 states | `EndedStaysEnded`, `RetryWorks`, `RecoveredOnce`, `PushOnlyToPaired` |

Four tokens are a first one, its replacement, the recovered one and one of a new pairing;
devices do not share rows.  A clock of 4 lets each period end while the longer ones go on.
Safety only: nobody has to use a phone.

### Proofs

The second part of `ServerProofs`, for any devices, tokens and periods: `SessionTypes`,
`EndedForGood`, `RetryIsAccepted`, `RecoversOnce`, `PushIsToPaired`, and `AccessIsKept`,
which says that a refresh leaves requests in flight valid.  `Inv` says of each token that it is
ended or `Live`: unused, used once, or recovered once, with the row showing which
(`Fresh`, `Once`, `Twice`).  The times tell a used token from a recovered one: that is why the
code moves `last_used` past `revoked`.  The tokens of an ended session cannot be recovered
(`Spent`), and replacements of one token are close in time (`Close`).

## 11. Plug-ins and their bus: `PluginLifecycle`, `I2CGuard`

Pages and the API change `options.enabled_plugins` without a lock and then call
`start_enabled_plugins`, which stops and starts plug-ins one by one, takes the lifecycle
lock for each anew, and works from a copy of what was enabled.  A restart and an update
hold the lock throughout.  A stop waits for the threads of a plug-in, but not for ever.

| code | model |
|---|---|
| pages; API endpoint | `Change`; `CopyEnabled`, `WriteCopy` |
| `start_enabled_plugins` | `ReadEnabled`, `Survey`, `StopNext`, `PlanStarts`, `StartNext`, `EndReconcile` |
| `_stop_plugin_locked` | `EndStop`, `Stopped` |
| `_start_plugin_locked`, recursive for dependencies | `Enter`, `StartDependency`, `Launch`, `Started`, `StartFails`, `Return` |
| `reload_plugin`; `_install_plugin_locked` | `Restart`; `Update`, `EndUnpack`, `EndInstall`, `Rollback` |
| threads of plug-ins | `WorkerUsesBus`, `WorkerEnds` |
| `i2c_transaction` | `I2CGuard`: `Ask`, `Acquire`, `GiveUp`, `Finish`, `Release` |

`PluginLifecycle` extends `I2CGuard`: the users of the bus are the threads of the plug-ins,
which come and go with them.  A thread that waits for the bus or uses it when its plug-in is stopped
goes on with it, and it is then that a second copy, or a place in the queue nobody leaves, would do harm.
Reasons for a failed start are a choice.  A frame of `stack` is a plug-in that is being started and
the dependencies it has still to look at; that dependencies have no cycle is the assumption
`NoCycles`.

An installation reads once whether the plug-in is enabled (`Update`).  If it was not, nothing is
stopped or started (`EndInstall`), but a failure disables the plug-in, also when another handler has
enabled it since (`plugins/__init__.py:1584`).  It takes three handlers to have it run at
that moment: one disables the plug-in and has not looked yet, one installs, one enables it again.
Nobody is told to stop it then, so `raced` holds it and `DisabledIsStopped` leaves it out.

| run | bounds | shows |
|---|---|---|
| `plugins` | a provider with high priority on the bus and a consumer with low priority that requires it, two threads each, two handlers, three requests: 342,336 states | `OneCopy`, `DisabledIsStopped`, `RequiredFirst`, `BusInTurn`, `RequestsEnd` |

Two plug-ins make one dependency, of which either end can be disabled, restarted or updated
by the second handler while the first walks through its copy; the third request is for what the
first two have left.  Room for a second thread is what lets `OneCopy` fail.

Fairness: `WF(ClientStep(c))`: waits are bounded and `start()` of a plug-in returns.  None
for the threads of plug-ins, which may hang, even on the bus.

### Proofs

`PluginLifecycleProofs`, for any plug-ins with dependencies without a cycle, and any numbers
of handlers and requests.  The inductive invariant `IInv` (theorem `PluginInvariant`) has these parts:

* `BusInv`: the bus is taken exactly while one thread uses it or lets it settle, and each
  queue counts the threads that wait in it, also when a thread gives up.  From it follow
  `FreeForMeans`, when a thread may have the bus, and `BusGoesInTurn`;
* `OneWorker`: a plug-in has at most one thread.  A start makes one only when none is
  left, though a stop may have given up on it: `NoSecondCopy`;
* `Locals`: who is at which step holds the lock, so handlers exclude one another;
* `Chain`: on the stack each plug-in is a dependency of the one below it.  With `NoCycles`
  none is on it twice (`NotForItself`), so what is being started does not run yet (`Starting`) and,
  once it has been called, all it requires runs (`Calling`): `DependenciesFirst`;
* `StopsToCome`: for a plug-in that runs though it is disabled, and is not in `raced`,
  some handler has still to read what is enabled, or has it on its list (`WillStop`).  When all handlers are idle there is none: `DisabledStops`.

`RequestsEnd` needs fairness and is model-checked.

## 12. What the code does not do

Two runs end in a counterexample, against what the repository says of itself:

| run | property | what happens |
|---|---|---|
| `pause_repeats` | `EachRunOnce` | with logging off and a program pause longer than the log keeps what ended, two programs that begin together are started again and again in turn: `clear_runs` does not look at `program_pause` (`ospy/log.py:346`) |
| `delay_lost` | `DelayKept` | `running_since` never sees the first period in which stations were open, takes its length for 0, and with a minimum runtime set leaves the station delay out after it, however long it was (`ospy/scheduler.py:463`, against `ospy/options.py:441`) |

Other things seen while modelling.  They follow from the lines quoted; the models either
have them (as the named exception of a property) or leave them out by an assumption.

Control
* a stop between `log.start_run` and `stations.activate` leaves a station open without
  a run (`ospy/scheduler.py:760`); `OpenIsTracked` records it in `untracked`, and
  `SerialOutputs` is without it;
* `skip_intervals` reads the log twice (`ospy/scheduler.py:217`): a run stopped between the
  two reads is planned again;
* Stop All switches the masters off, the next pass switches them on for the stop offset;
* while it rains a pass closes a station but leaves its run in the log
  (`ospy/scheduler.py:705`): the master stays on, the rest of the run is lost;
* the stop of the mobile API imports the module `outputs` and sets an attribute of it
  (`api/v1/api.py:521`): the relay stays as it is until the next pass sets it;
* `stop_onrain` assigns an attribute that nothing reads (`ospy/helpers.py:720`);
* the first API drives an output without a run (`api/api.py:100`).

Masters
* `clear_runs` looks at `master_off_delay` but not at `master_off_delay_two`
  (`ospy/log.py:346`): a longer offset of the second master may be cut short (`LagFits`);
* a second master without offsets takes the list the first one has replaced
  (`ospy/scheduler.py:789`) and stays on outside its runs (`BothDelayed`).

Plan, with a limit of usage
* without the run log, stopping a station early or a new water level makes later plans
  differ from earlier ones: runs repeat or are lost (`Retold`);
* a short run fills the delay of another program, and the run that waited is dropped; so is a
  waiting run when one that uses less overtakes it, or when a run-once request begins
  (`ospy/scheduler.py:378`);
* the pause is added after places were found, so run-once or repeated programs exceed the
  limit (`UsageKept`'s guard); an occurrence may begin within the pause of one that is
  shifted, which is then lost.

Log
* `run_entries` 0, "no limit", saves no run at all (`ospy/log.py:318`);
* `clear_all_runs` drops active runs and leaves their stations on (`ospy/log.py:366`);
* with logging off, stopping two stations of a program a minute apart starts the first
  again (`ospy/log.py:346`): `RepeatedIfForgotten` says when this may happen.

Settings
* after a start from the temporary directory that is the only copy, and a rejected strict
  write removes it (`ospy/options.py:1864`); `safe` excludes it;
* `flush` ignores the result of `_write` (`ospy/options.py:1667`), and a backup relies on
  it (`ospy/backup.py:89`);
* a crash while the active directory is removed can leave its SQLite copy, so that the
  primary loads older settings than the shelve fallback (`ospy/options.py:1903`);
* a crash during emergency recovery leaves a partly filled database that the next start
  accepts (`ospy/options.py:1151`).

Sensors
* directories are named by index and not moved when a sensor is deleted, so the next one
  queues the other's fallback records under its own name (`ospy/sensor_logs.py:127`);
* between the deletion row and the removal of the files a reader may queue the fallback
  records again, behind the deletion;
* the fallback file is queued again only by the next write or read.

Stop
* the restore of the API exchanges the data directory of the running process without
  stop or suspension (`api/v1/api.py:2177`);
* a second command's `server.stop()` returns at once while the first still runs;
* a crash between the two moves of `apply_staged_restore` (`ospy/backup.py:599`) leaves no
  data directory; two restores at once are not excluded (`OneRestore`);
* `flush` returns False, unnoticed, when the timer's thread outlives five seconds;
* a reset to defaults stops the server without suspending writes.

Sessions
* a delayed logout ends a newer pairing of the same device (`api/v1/api.py:977`);
* logout leaves the push subscription, and a full queue of the dispatcher drops an unregistration.

Plug-ins
* one disabled while it is being started keeps running (`raced`);
* when A is disabled, B that requires it is stopped, but not C that requires B;
* a restart or update stops a provider under its running consumers;
* the API's copy of `enabled_plugins` can undo a concurrent change (`api/v1/api.py:1981`), and
  a rollback enables what was disabled meanwhile;
* a crash between the two moves of an update (`plugins/__init__.py:1551`) leaves no plug-in.

Outputs
* the queue of notifications drops what does not fit (`ospy/stations.py:52`).

## 13. What is only model-checked, and what is not modelled

Proved for every instance are the theorems named in sections 3 to 11, under the
assumptions stated with them.  Only model-checked are the liveness properties
(`OutputsTimeOut`, `RainClosesStations`, `MastersFollowRuns`, `StopsAreStored`,
`EventuallySaved`, `OutboxDrains`, `CommandsEnd`, `RequestsEnd`), since the prover does not
reason about fairness, and of `SchedulePlan` what follows.  `EveryRunTakesPlace` says of the
end of the clock what would be a liveness property, and is false of some programs, as
`PauseKept` is (section 12).  `DelayKept` holds where every run uses the whole limit and no
minimum runtime is set.  `NothingRepeats` without a log of runs needs that two plans are the same, which is a
fact about two folds over different logs.  `UsageKept` with a pause between programs holds in the run, where then no program begins
twice; it is false where one does (section 12).

The theorems about sensors are for a single one, since
directories that are named by index make them false for several (section 12).

Not modelled: rendering of pages, translations, weather providers and their formats,
calibration of sensors and their regulation of programs, health incidents, login of users and access
control, event streams, usage statistics, download of plug-ins, installation scripts,
firmware.  They keep no state the irrigation depends on, or are input and output.  The
vendored libraries (`cheroot`, `web`, `mysql`, `more_itertools` and others) are not OSPy's
own logic; they are more than half of the lines of the repository's Python code.
`PROJECT.json` lists every component with its sources and its status.

------------------------------ MODULE RunHistory ------------------------------
(***************************************************************************)
(* The history of runs: ospy/log.py (start_run, finish_run, clear_runs,    *)
(* clear_all_runs, _save_logs, _LogPersistenceWorker), how the scheduler   *)
(* reads it to decide what to start, and what a restart makes of it.       *)
(*                                                                         *)
(* Every call that changes the log goes on to prune it, to take a list of  *)
(* it and to hand that list to a worker thread, each in a step of its own: *)
(* the log lock is released in between.  The worker sets the option        *)
(* logged_runs under the options' lock and a timer writes the options.  A  *)
(* list holds references: the records in it are those of the log, so that  *)
(* what is written of a run is what it has become by then.                 *)
(*                                                                         *)
(* Abstracted: outputs, rain and requests to come are in IrrigationControl,*)
(* which also splits the reading of the log from the acting on it; one     *)
(* write of the options is a single step here, as OptionsStore shows that  *)
(* a stop within it leaves the old or the new ones.  Usage is not limited. *)
(***************************************************************************)
EXTENDS Naturals, FiniteSets

CONSTANTS
    Occ,            \* occurrences of programs in the prediction
    OccStart,       \* occurrence -> start of its window
    OccEnd,         \* occurrence -> end of its window
    Hand,           \* stands for a run started by hand
    Client,         \* threads that handle requests
    Scheduler,      \* the thread of the scheduler
    NoThread,       \* nobody holds the options' lock
    RunLog,         \* option run_log
    RunEntries,     \* option run_entries
    Weather,        \* a program of the weather type is set up
    Keep,           \* max(station_delay + min_runtime, master_off_delay, 60 s)
    MaxTime,        \* bound on the clock
    MaxEntries,     \* bound on the records made
    MaxRequests,    \* bound on requests
    MaxCrashes      \* bound on stops of the process

ASSUME ConstantsAssumption ==
    /\ OccStart \in [Occ -> Nat] /\ OccEnd \in [Occ -> Nat]
    /\ Hand \notin Occ
    /\ Scheduler \notin Client /\ NoThread \notin Client \cup {Scheduler}
    /\ RunLog \in BOOLEAN /\ Weather \in BOOLEAN
    /\ RunEntries \in Nat /\ Keep \in Nat
    /\ MaxTime \in Nat /\ MaxEntries \in Nat
    /\ MaxRequests \in Nat /\ MaxCrashes \in Nat

Thread == Client \cup {Scheduler}

\* Records are numbered in the order in which they were appended to the log.
Number == 1..MaxEntries

\* A run started by hand without a duration ends in ten years.
Forever == MaxTime + 1

\* What is remembered of a run of a program that was finished: its record and its end.
Finished == [run : Occ, number : Number, end : Nat]

Record == [run : Occ \cup {Hand}, orig : Nat, start : Nat, end : Nat, active : BOOLEAN]
NoRecord == [run |-> Hand, orig |-> 0, start |-> 0, end |-> 0, active |-> FALSE]

VARIABLES
    now,          \* the clock
    up,           \* the process runs
    entry,        \* number -> record
    count,        \* records made so far
    log,          \* the records in the log, log._log['Run']
    call,         \* thread -> where it is within a call of the log
    taken,        \* thread -> the list it took to submit
    queue,        \* the list submitted to the worker, if any
    item,         \* the list the worker is about to set, if any
    manual,       \* options.manual_mode
    loggedRuns,   \* options.logged_runs
    timer,        \* the timer of the options' write is set
    owner,        \* who holds the options' lock for longer than a step
    disk,         \* the options on disk: runs and mode
    phase,        \* where the pass of the scheduler is
    ending,       \* runs the pass is about to end
    due,          \* occurrences the pass is about to start
    done,         \* history: the runs of programs that were finished
    astray,       \* history: records made after the mode had changed, or cleared while active
    requests, crashes

logVars == <<entry, count, log>>
threadVars == <<call, taken>>
worker == <<queue, item>>
optionVars == <<manual, loggedRuns, timer, owner, disk>>
passVars == <<phase, ending, due>>
vars == <<now, up, logVars, threadVars, worker, optionVars, passVars, done, astray,
          requests, crashes>>

LogTypes ==
    /\ entry \in [Number -> Record] /\ count \in 0..MaxEntries
    /\ log \in SUBSET Number

CallTypes ==
    /\ call \in [Thread -> {"none", "finish", "by hand", "prune", "list", "submit"}]
    /\ taken \in [Thread -> SUBSET Number]

ListTypes ==
    /\ queue \in SUBSET SUBSET Number /\ Cardinality(queue) <= 1
    /\ item \in SUBSET SUBSET Number /\ Cardinality(item) <= 1
    /\ loggedRuns \in SUBSET Number

DiskTypes ==
    /\ disk.manual \in BOOLEAN
    /\ DOMAIN disk.runs \in SUBSET Number
    /\ \A n \in DOMAIN disk.runs : disk.runs[n] \in Record

OtherTypes ==
    /\ now \in 0..MaxTime /\ up \in BOOLEAN
    /\ manual \in BOOLEAN /\ timer \in BOOLEAN
    /\ owner \in Client \cup {NoThread}
    /\ phase \in {"sleep", "ending", "starting"}
    /\ ending \in SUBSET Number /\ due \in SUBSET Occ
    /\ done \in SUBSET Finished /\ astray \in SUBSET Number
    /\ requests \in Nat /\ crashes \in Nat

TypeOK == LogTypes /\ CallTypes /\ ListTypes /\ DiskTypes /\ OtherTypes

Active == {n \in log : entry[n].active}

-----------------------------------------------------------------------------
(* The log.  Each of these holds the log lock for its step. *)

CanCall(t) == up /\ call[t] = "none"
Goto(t, where) == call' = [call EXCEPT ![t] = where]

\* start_run: the record is appended with the present as its start.
StartRun(t, r, orig, end) ==
    /\ count < MaxEntries
    /\ count' = count + 1
    /\ entry' = [entry EXCEPT ![count'] =
                   [run |-> r, orig |-> orig, start |-> now, end |-> end, active |-> TRUE]]
    /\ log' = log \cup {count'}
    /\ astray' = IF manual = (r = Hand) THEN astray ELSE astray \cup {count'}
    /\ Goto(t, "prune")
    /\ UNCHANGED done

EndNow(numbers) ==
    {[run |-> entry[n].run, number |-> n, end |-> now] :
       n \in {m \in numbers : entry[m].run # Hand}}

\* Mutant: what was finished is only saved with the next change.
FinishUnsaved(t, numbers) ==
    /\ entry' = [n \in Number |-> IF n \in numbers \cap Active
                                  THEN [entry[n] EXCEPT !.end = now, !.active = FALSE]
                                  ELSE entry[n]]
    /\ done' = done \cup EndNow(numbers \cap Active)
    /\ Goto(t, IF owner = t THEN "prune" ELSE "none")
    /\ UNCHANGED <<count, log, astray>>

\* finish_run: active records end now; the records are changed in place.
Finish(t, numbers) ==
    /\ entry' = [n \in Number |-> IF n \in numbers \cap Active
                                  THEN [entry[n] EXCEPT !.end = now, !.active = FALSE]
                                  ELSE entry[n]]
    /\ done' = done \cup EndNow(numbers \cap Active)
    /\ Goto(t, "prune")
    /\ UNCHANGED <<count, log, astray>>

\* Mutant: the time to keep counts from the active runs only, not from now.
PrunableWhenIdle(minimum) ==
    {n \in log : /\ ~Weather
                 /\ Cardinality({m \in log : m > n}) >= minimum
                 /\ \A m \in Active : entry[m].start > entry[n].end + Keep}

\* clear_runs removes what is older than the newest records and ended well before
\* the first active run started.
Prunable(minimum) ==
    {n \in log : /\ ~Weather
                 /\ Cardinality({m \in log : m > n}) >= minimum
                 /\ now > entry[n].end + Keep
                 /\ \A m \in Active : entry[m].start > entry[n].end + Keep}

\* Without a limit nothing is pruned, and nothing is saved either.
NeverSaves == RunLog /\ RunEntries = 0

\* The call is over; a change of the mode also releases the options' lock and sets the
\* timer (_Options.__setattr__).
Leave(t) ==
    /\ Goto(t, "none")
    /\ owner' = IF owner = t THEN NoThread ELSE owner
    /\ timer' = (timer \/ owner = t)

Prune(t) ==
    /\ call[t] = "prune"
    /\ IF NeverSaves
       THEN Leave(t) /\ UNCHANGED log
       ELSE /\ log' = log \ Prunable(IF RunLog THEN RunEntries ELSE 0)
            /\ Goto(t, "list")
            /\ UNCHANGED <<owner, timer>>
    /\ UNCHANGED <<now, up, entry, count, taken, worker, manual, loggedRuns, disk,
                   passVars, done, astray, requests, crashes>>

\* _save_logs takes a list of the records ...
TakeList(t) ==
    /\ call[t] = "list"
    /\ taken' = [taken EXCEPT ![t] = IF RunLog \/ Weather THEN log ELSE {}]
    /\ Goto(t, "submit")
    /\ UNCHANGED <<now, up, logVars, worker, optionVars, passVars, done, astray,
                   requests, crashes>>

\* ... and submits it, in place of one that still waits for the worker.
Submit(t) ==
    /\ call[t] = "submit"
    /\ queue' = {taken[t]}
    /\ taken' = [taken EXCEPT ![t] = {}]
    /\ Leave(t)
    /\ UNCHANGED <<now, up, logVars, item, manual, loggedRuns, disk, passVars, done,
                   astray, requests, crashes>>

LogStep(t) == Prune(t) \/ TakeList(t) \/ Submit(t)

-----------------------------------------------------------------------------
(* The worker and the options. *)

TakeItem ==
    /\ queue # {} /\ item = {}
    /\ item' = queue /\ queue' = {}
    /\ UNCHANGED <<now, up, logVars, threadVars, optionVars, passVars, done, astray,
                   requests, crashes>>

\* setattr(options, 'logged_runs', value)
SetItem ==
    /\ item # {} /\ owner = NoThread
    /\ loggedRuns' \in item
    /\ item' = {} /\ timer' = TRUE
    /\ UNCHANGED <<now, up, logVars, threadVars, queue, manual, owner, disk, passVars,
                   done, astray, requests, crashes>>

WorkerStep == TakeItem \/ SetItem

\* Mutant: the write does not take the options' lock.
WriteUnlocked ==
    /\ timer /\ timer' = FALSE
    /\ disk' = [runs |-> [n \in loggedRuns |-> entry[n]], manual |-> manual]
    /\ UNCHANGED <<now, up, logVars, threadVars, worker, manual, loggedRuns, owner,
                   passVars, done, astray, requests, crashes>>

\* The timer fires: the records are written as they are now.
Write ==
    /\ timer /\ owner = NoThread
    /\ timer' = FALSE
    /\ disk' = [runs |-> [n \in loggedRuns |-> entry[n]], manual |-> manual]
    /\ UNCHANGED <<now, up, logVars, threadVars, worker, manual, loggedRuns, owner,
                   passVars, done, astray, requests, crashes>>

-----------------------------------------------------------------------------
(* A pass of the scheduler. *)

\* An occurrence is skipped if it is in the log, or was scheduled before one that is.
\* A run started by hand in the same tick came after the occurrence.
Skipped(u) ==
    \E n \in log : \/ entry[n].run = u
                   \/ entry[n].orig > OccStart[u]
                   \/ entry[n].run = Hand /\ entry[n].orig = OccStart[u]

Due == {u \in Occ : OccStart[u] <= now /\ now < OccEnd[u] /\ ~Skipped(u)}

Over == {n \in Active : entry[n].end <= now}

\* A pass that finds nothing to end or to start changes nothing.
PassBegins ==
    /\ CanCall(Scheduler) /\ phase = "sleep"
    /\ Over # {} \/ (~manual /\ Due # {})
    /\ phase' = "ending" /\ ending' = Over
    /\ UNCHANGED <<now, up, logVars, threadVars, worker, optionVars, due, done, astray,
                   requests, crashes>>

EndRun(n) ==
    /\ CanCall(Scheduler) /\ phase = "ending" /\ n \in ending
    /\ ending' = ending \ {n}
    /\ Finish(Scheduler, {n})
    /\ UNCHANGED <<now, up, taken, worker, optionVars, phase, due, requests,
                   crashes>>

Predict ==
    /\ CanCall(Scheduler) /\ phase = "ending" /\ ending = {}
    /\ due' = IF manual THEN {} ELSE Due
    /\ phase' = IF due' = {} THEN "sleep" ELSE "starting"
    /\ UNCHANGED <<now, up, logVars, threadVars, worker, optionVars, ending, done, astray,
                   requests, crashes>>

\* The prediction is sorted by start.
StartDue(u) ==
    /\ CanCall(Scheduler) /\ phase = "starting" /\ u \in due
    /\ \A v \in due : OccStart[u] <= OccStart[v]
    /\ due' = due \ {u}
    /\ phase' = IF due' = {} THEN "sleep" ELSE phase
    /\ StartRun(Scheduler, u, OccStart[u], OccEnd[u])
    /\ UNCHANGED <<now, up, taken, worker, optionVars, ending, requests,
                   crashes>>

PassStep ==
    \/ PassBegins \/ Predict
    \/ \E n \in Number : EndRun(n)
    \/ \E u \in Occ : StartDue(u)

-----------------------------------------------------------------------------
(* Requests. *)

Accept(c) == CanCall(c) /\ requests < MaxRequests /\ requests' = requests + 1

\* Stop all stations.
StopAll(c) ==
    /\ Accept(c)
    /\ Goto(c, "finish")
    /\ UNCHANGED <<now, up, logVars, taken, worker, optionVars, passVars, done, astray,
                   crashes>>

\* options.manual_mode is set; its callback, under the lock, ends all runs.
ToggleManualMode(c) ==
    /\ Accept(c) /\ owner = NoThread
    /\ manual' = ~manual
    /\ owner' = c
    /\ Goto(c, "finish")
    /\ UNCHANGED <<now, up, logVars, taken, worker, loggedRuns, timer, disk, passVars,
                   done, astray, crashes>>

FinishAll(c) ==
    /\ call[c] = "finish"
    /\ Finish(c, log)
    /\ UNCHANGED <<now, up, taken, worker, optionVars, passVars, requests,
                   crashes>>

\* A station or a sensor stops the runs of one station.
StopRun(c, n) ==
    /\ Accept(c) /\ n \in Active
    /\ Finish(c, {n})
    /\ UNCHANGED <<now, up, taken, worker, optionVars, passVars, crashes>>

\* A station is started by hand: the mode is read, then the run is logged.
AskByHand(c) ==
    /\ Accept(c) /\ manual
    /\ Goto(c, "by hand")
    /\ UNCHANGED <<now, up, logVars, taken, worker, optionVars, passVars, done, astray,
                   crashes>>

LogByHand(c) ==
    /\ call[c] = "by hand"
    /\ StartRun(c, Hand, now, Forever)
    /\ UNCHANGED <<now, up, taken, worker, optionVars, passVars, requests,
                   crashes>>

\* The log page: clear what may go, or all of it.
ClearRuns(c) ==
    /\ Accept(c)
    /\ log' = log \ Prunable(0)
    /\ done' = {d \in done : d.number \notin Prunable(0)}
    /\ Goto(c, "list")
    /\ UNCHANGED <<now, up, entry, count, taken, worker, optionVars, passVars, astray,
                   crashes>>

ClearAllRuns(c) ==
    /\ Accept(c)
    /\ log' = {} /\ done' = {}
    /\ astray' = astray \cup Active
    /\ Goto(c, "list")
    /\ UNCHANGED <<now, up, entry, count, taken, worker, optionVars, passVars,
                   crashes>>

Request(c) ==
    \/ StopAll(c) \/ ToggleManualMode(c) \/ AskByHand(c)
    \/ ClearRuns(c) \/ ClearAllRuns(c)
    \/ \E n \in Number : StopRun(c, n)

HandlerStep(c) == FinishAll(c) \/ LogByHand(c)

-----------------------------------------------------------------------------
(* Time, stops and starts of the process. *)

\* A tick is as long as the window in which clear_runs keeps what ended, a minute or more;
\* a pass and a call of the log take much less.
Tick ==
    /\ now < MaxTime /\ now' = now + 1
    /\ phase = "sleep" /\ \A t \in Thread : call[t] = "none"
    /\ UNCHANGED <<up, logVars, threadVars, worker, optionVars, passVars, done, astray,
                   requests, crashes>>

\* What is only in memory is gone.
Crash ==
    /\ up /\ crashes < MaxCrashes
    /\ crashes' = crashes + 1
    /\ up' = FALSE
    /\ entry' = [n \in Number |-> NoRecord] /\ log' = {}
    /\ call' = [t \in Thread |-> "none"] /\ taken' = [t \in Thread |-> {}]
    /\ queue' = {} /\ item' = {} /\ loggedRuns' = {} /\ timer' = FALSE
    /\ owner' = NoThread
    /\ phase' = "sleep" /\ ending' = {} /\ due' = {}
    /\ UNCHANGED <<now, count, manual, disk, done, astray, requests>>

\* The options are loaded and the log takes its records from them; in manual mode the
\* scheduler ends them all before any thread runs (_Scheduler.__init__).
Start ==
    /\ ~up /\ up' = TRUE
    /\ manual' = disk.manual
    /\ loggedRuns' = DOMAIN disk.runs
    /\ log' = DOMAIN disk.runs
    /\ entry' = [n \in Number |->
                   IF n \notin DOMAIN disk.runs THEN NoRecord
                   ELSE IF disk.manual /\ disk.runs[n].active
                        THEN [disk.runs[n] EXCEPT !.end = now, !.active = FALSE]
                        ELSE disk.runs[n]]
    /\ done' = {[run |-> disk.runs[n].run, number |-> n, end |-> entry'[n].end] :
                  n \in {m \in DOMAIN disk.runs :
                            disk.runs[m].run # Hand /\ ~entry'[m].active}}
    /\ call' = [call EXCEPT ![Scheduler] = IF disk.manual THEN "prune" ELSE "none"]
    /\ UNCHANGED <<now, count, taken, worker, timer, owner, disk, passVars, astray,
                   requests, crashes>>

Init ==
    /\ now = 0 /\ up = FALSE
    /\ entry = [n \in Number |-> NoRecord] /\ count = 0 /\ log = {}
    /\ call = [t \in Thread |-> "none"] /\ taken = [t \in Thread |-> {}]
    /\ queue = {} /\ item = {}
    /\ manual = FALSE /\ loggedRuns = {} /\ timer = FALSE /\ owner = NoThread
    /\ disk \in {[runs |-> [n \in {} |-> NoRecord], manual |-> mode] : mode \in BOOLEAN}
    /\ phase = "sleep" /\ ending = {} /\ due = {}
    /\ done = {} /\ astray = {}
    /\ requests = 0 /\ crashes = 0

Next ==
    \/ \E t \in Thread : LogStep(t)
    \/ \E c \in Client : Request(c) \/ HandlerStep(c)
    \/ PassStep \/ WorkerStep \/ Write
    \/ Tick \/ Crash \/ Start

Spec == Init /\ [][Next]_vars

\* Threads are scheduled, and the settings are left alone for a second now and then.
Fairness ==
    /\ \A t \in Thread : WF_vars(LogStep(t))
    /\ \A c \in Client : WF_vars(HandlerStep(c))
    /\ WF_vars(WorkerStep) /\ WF_vars(Write)

FairSpec == Spec /\ Fairness

-----------------------------------------------------------------------------
(* Properties. *)

\* No call of the log is under way and nothing waits to be written.
Settled ==
    /\ up /\ ~timer /\ queue = {} /\ item = {}
    /\ \A t \in Thread : call[t] = "none"

\* What is on disk of a run is what its record says, whichever of two lists was written
\* last: a run that was stopped is not taken up again after a restart.
StoredIsCurrent ==
    Settled /\ ~NeverSaves => \A n \in DOMAIN disk.runs : disk.runs[n] = entry[n]

\* The mode on disk and the runs on disk were together in memory: a run started by hand,
\* which has no end, never goes on in automatic mode after a restart, unless it was logged
\* after the mode had changed, or cleared from the log while it was active (the callback of
\* manual_mode runs under the options' lock).
StoredModeFits ==
    \A n \in DOMAIN disk.runs :
        disk.runs[n].active /\ n \notin astray => (disk.manual <=> disk.runs[n].run = Hand)

\* The log may have forgotten a run: it ended a while ago, no run that began before or
\* soon after is active, as many as the user wants to keep were logged since, and no
\* balance of water depends on it.
MayForget(d) ==
    /\ ~Weather
    /\ now > d.end + Keep
    /\ \A m \in Active : entry[m].start > d.end + Keep
    /\ RunLog => count - d.number >= RunEntries

\* A pass starts an occurrence that has run and been finished again only if the log may
\* have forgotten each of its runs; whatever is stopped, pruned, written late or lost in
\* a crash.
RepeatedIfForgotten ==
    [][\A n \in log' \ log : up => \A d \in done : d.run = entry'[n].run => MayForget(d)]_vars

\* A run that was stopped does not stay active on disk, if the process goes on.
StopsAreStored ==
    \A n \in Number :
        (up /\ n \in log /\ ~entry[n].active)
            ~> (~up \/ n \notin DOMAIN disk.runs \/ ~disk.runs[n].active)
=============================================================================

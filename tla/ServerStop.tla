------------------------------ MODULE ServerStop ------------------------------
(***************************************************************************)
(* How OSPy stops: server.stop (ospy/server.py) on the way to a restart,   *)
(* reboot, power off or restored backup (ospy/helpers.py, the pages and    *)
(* endpoints that call it), against the threads it stops - the scheduler,  *)
(* a request that starts a station, a plug-in - and the delayed writer of  *)
(* the settings (ospy/options.py), which a restore has to hold back.       *)
(*                                                                         *)
(* The waits of server.stop are bounded; what outlives one is reported and *)
(* here collected in "late".  A request is waited for without a bound.     *)
(*                                                                         *)
(* Abstracted: the pass of the scheduler to a run it may start (its detail *)
(* is in IrrigationControl), the log to the stations with an active run,   *)
(* the settings to the stored runs, a write to a beginning and an end      *)
(* under the options' lock (OptionsStore has its files), the restored      *)
(* directories to one.  The master relay is one of the outputs.           *)
(* A start of the next process, and Windows, are not in this module.       *)
(***************************************************************************)
EXTENDS Naturals, FiniteSets

CONSTANTS
    Station,
    Command,     \* the commands that may be given
    Kind,        \* command -> one of Kinds
    Service,     \* a service manager runs OSPy
    MaxStray,    \* bound on the threads of timers that have been replaced
    NoOne,       \* no command, no station, no writer
    Absent,      \* the data directory is not there
    Restored     \* the data directory is that of the backup

Kinds == {"interrupt", "reboot", "restart", "restore", "api_restore"}

ASSUME StopAssumption ==
    /\ Kind \in [Command -> Kinds]
    /\ Service \in BOOLEAN /\ MaxStray \in Nat
    /\ NoOne \notin Station \cup Command
    /\ NoOne \notin {"old", "flush", "save", "backup", "suspend", "fired"}
    /\ Station \cap {"waiting", "deciding", "ended"} = {}

Settings == [runs : SUBSET Station]
ASSUME DataAssumption == Absent \notin Settings /\ Restored \notin Settings /\ Absent # Restored

\* The steps of stop: the web server, the signal, three times the outputs, between
\* them the plug-ins and the core workers, then the log and the settings.
Stages == {"none", "web", "drain", "signal", "finish1", "clear1", "plugins", "finish2", "clear2",
           "wait", "finish3", "clear3", "runs", "cancel", "join", "write", "done"}

\* A timer whose time has come writes in a thread of its own, which cancel does not
\* reach: one that a change has replaced, or that one of these waits for.
Strays == {"old", "flush", "save", "backup", "suspend"}

VARIABLES
    open,        \* stations whose output is on
    active,      \* stations with an active run in the log
    queued,      \* the list of runs that waits for the persistence worker, if any
    memory,      \* options._values
    timer,       \* options._write_timer
    strays,      \* threads of timers it no longer refers to
    writer,      \* the thread inside _write
    suspended,   \* options._writes_suspended
    disk,        \* what is in the data directory
    aside,       \* what a restore moved out of it
    installed,   \* a restore has put the backup there
    scheduler,   \* "waiting", "deciding", "ended", or the station it is about to open
    handler,     \* the station a request is about to open
    plugin,      \* "running", "ended" or "late"
    signalled,   \* the stop events of the core workers are set
    stage,       \* the step of stop
    stopper,     \* the command that runs it: _stopping
    late,        \* what did not stop in time
    pc,          \* where a command is
    ending       \* the process will be ended from outside

runState == <<open, active, queued>>
options == <<memory, timer, strays, writer, suspended>>
data == <<disk, aside, installed>>
threads == <<scheduler, handler, plugin>>
stopState == <<signalled, stage, stopper, late>>
vars == <<runState, options, data, threads, stopState, pc, ending>>

\* The page that restores answers the request within these: it saves the settings, makes
\* a backup of what there is, stops the server and exchanges the files.
Restoring == {"save", "saving", "log", "flush", "flushing", "archive", "clear", "stop",
              "suspend", "joining", "away", "in"}
Places == Restoring \cup {"idle", "rejected", "power", "pause", "restarted", "exec", "over"}

RunTypes == open \subseteq Station /\ active \subseteq Station /\ queued \subseteq SUBSET Station

\* The thread that writes is one there is.
WriterTypes ==
    /\ memory \in Settings
    /\ timer \in {"none", "set", "fired"} /\ strays \subseteq Strays
    /\ writer \in {NoOne, "fired"} \cup Strays
    /\ writer = "fired" => timer = "fired"
    /\ writer \in Strays => writer \in strays
    /\ suspended \in BOOLEAN

DataTypes ==
    /\ disk \in Settings \cup {Absent, Restored} /\ aside \in Settings \cup {Absent, Restored}
    /\ installed \in BOOLEAN

ThreadTypes ==
    /\ scheduler \in {"waiting", "deciding", "ended"} \cup Station
    /\ handler \in Station \cup {NoOne}
    /\ plugin \in {"running", "ended", "late"}

StopTypes ==
    /\ signalled \in BOOLEAN
    /\ stage \in Stages /\ stopper \in Command \cup {NoOne}
    /\ stage = "none" <=> stopper = NoOne
    /\ late \subseteq {"plugin", "scheduler", "log", "writer"}

TypeOK ==
    /\ RunTypes /\ WriterTypes /\ DataTypes /\ ThreadTypes /\ StopTypes
    /\ pc \in [Command -> Places] /\ ending \in BOOLEAN

At(c, place) == pc[c] = place
Goto(c, place) == pc' = [pc EXCEPT ![c] = place]

\* No thread goes on after execl; what else ends the process may take its time.
Running == \A c \in Command : pc[c] # "exec"
Going == Running /\ ending' = ending

-----------------------------------------------------------------------------
(* The settings: options.py. *)

\* __setattr__, under the lock: the old timer is cancelled, unless it has fired.
SetTimer ==
    IF suspended THEN UNCHANGED <<timer, strays>>
    ELSE /\ timer' = "set"
         /\ strays' = IF timer = "fired" THEN strays \cup {"old"} ELSE strays

\* The persistence worker of the log sets options.logged_runs.
PersistRuns ==
    /\ writer = NoOne
    /\ \E runs \in queued : memory' = [memory EXCEPT !.runs = runs]
    /\ queued' = {}
    /\ SetTimer
    /\ UNCHANGED <<open, active, writer, suspended, data, threads, stopState, pc>>
    /\ Going

TimerFires ==
    /\ timer = "set" /\ Cardinality(strays) < MaxStray
    /\ timer' = "fired"
    /\ UNCHANGED <<runState, memory, strays, writer, suspended, data, threads, stopState, pc>>
    /\ Going

\* The thread of a timer ends.
Leave(t) ==
    /\ timer' = IF t = "fired" THEN "none" ELSE timer
    /\ strays' = strays \ {t}

Fired == strays \cup (IF timer = "fired" THEN {"fired"} ELSE {})

\* Mutant: the thread of a timer does not look at the latch.
BeginWriteAlways(t) ==
    /\ t \in Fired /\ writer = NoOne
    /\ writer' = t
    /\ UNCHANGED <<runState, memory, timer, strays, suspended, data, threads, stopState, pc>>
    /\ Going

\* _write takes the lock, and looks at the latch.
BeginWrite(t) ==
    /\ t \in Fired /\ writer = NoOne
    /\ IF suspended THEN Leave(t) /\ UNCHANGED writer
       ELSE writer' = t /\ UNCHANGED <<timer, strays>>
    /\ UNCHANGED <<runState, memory, suspended, data, threads, stopState, pc>>
    /\ Going

EndWrite ==
    /\ writer # NoOne
    /\ disk' = memory
    /\ Leave(writer) /\ writer' = NoOne
    /\ UNCHANGED <<runState, memory, suspended, aside, installed, threads, stopState, pc>>
    /\ Going

\* cancel_pending_write, under the lock; for whom there is then a thread to wait for.
Cancel(who) ==
    /\ writer = NoOne
    /\ timer' = "none"
    /\ strays' = IF timer = "fired" THEN strays \cup {who} ELSE strays

\* _write in the thread of the caller.
WriteNow == writer = NoOne /\ disk' = IF suspended THEN disk ELSE memory

-----------------------------------------------------------------------------
(* The threads that switch outputs. *)

\* log.start_run
LogRun(s) == active' = active \cup {s} /\ queued' = {active'}

\* The loop of the scheduler looks at its stop event before each pass.
PassBegins ==
    /\ scheduler = "waiting" /\ ~signalled
    /\ scheduler' = "deciding"
    /\ UNCHANGED <<runState, options, data, handler, plugin, stopState, pc>>
    /\ Going

PassStarts(s) ==
    /\ scheduler = "deciding" /\ s \notin active
    /\ LogRun(s)
    /\ scheduler' = s
    /\ UNCHANGED <<open, options, data, handler, plugin, stopState, pc>>
    /\ Going

PassOpens ==
    /\ scheduler \in Station
    /\ open' = open \cup {scheduler}
    /\ scheduler' = "deciding"
    /\ UNCHANGED <<active, queued, options, data, handler, plugin, stopState, pc>>
    /\ Going

PassEnds ==
    /\ scheduler = "deciding" /\ scheduler' = "waiting"
    /\ UNCHANGED <<runState, options, data, handler, plugin, stopState, pc>>
    /\ Going

SchedulerEnds ==
    /\ scheduler = "waiting" /\ signalled
    /\ scheduler' = "ended"
    /\ UNCHANGED <<runState, options, data, handler, plugin, stopState, pc>>
    /\ Going

\* A request starts a station by hand (action_page).
HandlerStarts(s) ==
    /\ handler = NoOne /\ stage \in {"none", "web"}
    /\ LogRun(s)
    /\ handler' = s
    /\ UNCHANGED <<open, options, data, scheduler, plugin, stopState, pc>>
    /\ Going

HandlerOpens ==
    /\ handler # NoOne
    /\ open' = open \cup {handler}
    /\ handler' = NoOne
    /\ UNCHANGED <<active, queued, options, data, scheduler, plugin, stopState, pc>>
    /\ Going

\* A plug-in drives outputs of its own accord, its stop function included.
PluginOpens(s) ==
    /\ plugin # "ended"
    /\ open' = open \cup {s}
    /\ UNCHANGED <<active, queued, options, data, threads, stopState, pc>>
    /\ Going

-----------------------------------------------------------------------------
(* server.stop. *)

\* Requests that its web server waits for; not the one that stops it.
Serving == handler # NoOne
           \/ \E c \in Command \ {stopper} : Kind[c] = "restore" /\
                 pc[c] \in Restoring

CloseWeb ==
    /\ stage = "web" /\ stage' = "drain"
    /\ UNCHANGED <<runState, options, data, threads, signalled, stopper, late, pc>>
    /\ Going

StopWeb ==
    /\ stage = "drain" /\ ~Serving
    /\ stage' = "signal"
    /\ UNCHANGED <<runState, options, data, threads, signalled, stopper, late, pc>>
    /\ Going

RequestCoreStop ==
    /\ stage = "signal"
    /\ signalled' = TRUE /\ stage' = "finish1"
    /\ UNCHANGED <<runState, options, data, threads, stopper, late, pc>>
    /\ Going

\* _safe_stop_outputs: the runs in the log end, then the outputs are switched off.
FinishRuns ==
    /\ stage \in {"finish1", "finish2", "finish3"}
    /\ active' = {} /\ queued' = {{}}
    /\ stage' = CASE stage = "finish1" -> "clear1"
                  [] stage = "finish2" -> "clear2"
                  [] OTHER -> "clear3"
    /\ UNCHANGED <<open, options, data, threads, signalled, stopper, late, pc>>
    /\ Going

ClearOutputs ==
    /\ stage \in {"clear1", "clear2", "clear3"}
    /\ open' = {}
    /\ stage' = CASE stage = "clear1" -> "plugins"
                  [] stage = "clear2" -> "wait"
                  [] OTHER -> "runs"
    /\ UNCHANGED <<active, queued, options, data, threads, signalled, stopper, late, pc>>
    /\ Going

\* The plug-ins have ten seconds together.
StopPlugins ==
    /\ stage = "plugins" /\ stage' = "finish2"
    /\ \/ plugin' = "ended" /\ UNCHANGED late
       \/ plugin' = "late" /\ late' = late \cup {"plugin"}
    /\ UNCHANGED <<runState, options, data, scheduler, handler, signalled, stopper, pc>>
    /\ Going

\* Mutant: outputs are not switched off again after the core workers have ended.
WaitForCoreLast ==
    /\ stage = "wait" /\ stage' = "runs"
    /\ late' = IF scheduler = "ended" THEN late ELSE late \cup {"scheduler"}
    /\ UNCHANGED <<runState, options, data, threads, signalled, stopper, pc>>
    /\ Going

\* The core workers have five, or what is left of them.
WaitForCore ==
    /\ stage = "wait" /\ stage' = "finish3"
    /\ late' = IF scheduler = "ended" THEN late ELSE late \cup {"scheduler"}
    /\ UNCHANGED <<runState, options, data, threads, signalled, stopper, pc>>
    /\ Going

\* Mutant: the runs still queued are not waited for.
FlushRunsSkipped ==
    /\ stage = "runs" /\ stage' = "cancel"
    /\ UNCHANGED <<runState, options, data, threads, signalled, stopper, late,
                   pc>>
    /\ Going

\* flush_persistent_logs
FlushRuns ==
    /\ stage = "runs" /\ stage' = "cancel"
    /\ late' = IF queued = {} THEN late ELSE late \cup {"log"}
    /\ UNCHANGED <<runState, options, data, threads, signalled, stopper, pc>>
    /\ Going

\* options.flush
FlushCancels ==
    /\ stage = "cancel" /\ Cancel("flush")
    /\ stage' = "join"
    /\ UNCHANGED <<runState, memory, writer, suspended, data, threads, signalled, stopper,
                   late, pc>>
    /\ Going

FlushJoins ==
    /\ stage = "join"
    /\ IF "flush" \in strays THEN stage' = "done" /\ late' = late \cup {"writer"}
       ELSE stage' = "write" /\ UNCHANGED late
    /\ UNCHANGED <<runState, options, data, threads, signalled, stopper, pc>>
    /\ Going

FlushWrites ==
    /\ stage = "write" /\ WriteNow
    /\ stage' = "done"
    /\ UNCHANGED <<runState, options, aside, installed, threads, signalled, stopper, late,
                   pc>>
    /\ Going

StopStep ==
    \/ CloseWeb \/ StopWeb \/ RequestCoreStop \/ FinishRuns \/ ClearOutputs \/ StopPlugins
    \/ WaitForCore \/ FlushRuns \/ FlushCancels \/ FlushJoins \/ FlushWrites

-----------------------------------------------------------------------------
(* The commands. *)

\* A page or an endpoint takes the command; an interrupt reaches the main thread.
Give(c) ==
    /\ At(c, "idle") /\ (Kind[c] = "interrupt" \/ stage \in {"none", "web"})
    /\ Goto(c, CASE Kind[c] = "restart" -> "pause"
                 [] Kind[c] = "restore" -> "save"
                 [] Kind[c] = "api_restore" -> "away"
                 [] OTHER -> "stop")
    /\ UNCHANGED <<runState, options, data, threads, stopState>>
    /\ Going

\* The first to call stop runs it.
BeginStop(c) ==
    /\ pc[c] \in {"stop", "restarted"} /\ stopper = NoOne
    /\ stopper' = c /\ stage' = "web"
    /\ UNCHANGED <<runState, options, data, threads, signalled, late, pc>>
    /\ Going

\* Mutant: any other waits until it is done.
EndStopWaits(c) ==
    /\ pc[c] \in {"stop", "restarted"}
    /\ stage = "done"
    /\ Goto(c, IF At(c, "restarted") THEN "exec"
               ELSE CASE Kind[c] = "reboot" -> "power"
                      [] Kind[c] = "restore" -> "suspend"
                      [] OTHER -> "over")
    /\ ending' = (ending \/ Kind[c] = "interrupt")
    /\ UNCHANGED <<runState, options, data, threads, stopState>>
    /\ Running

\* Any other returns at once.
EndStop(c) ==
    /\ pc[c] \in {"stop", "restarted"}
    /\ IF stopper = c THEN stage = "done" ELSE stopper # NoOne
    /\ Goto(c, IF At(c, "restarted") THEN "exec"
               ELSE CASE Kind[c] = "reboot" -> "power"
                      [] Kind[c] = "restore" -> "suspend"
                      [] OTHER -> "over")
    /\ ending' = (ending \/ Kind[c] = "interrupt")
    /\ UNCHANGED <<runState, options, data, threads, stopState>>
    /\ Running

\* stations.clear of the helpers and of the page that restores, and what follows it:
\* stop, the command to the system, or to the service manager if there is one.
Clear(c) ==
    /\ pc[c] \in {"clear", "pause", "power"}
    /\ open' = {}
    /\ Goto(c, CASE At(c, "clear") -> "stop"
                 [] At(c, "pause") /\ ~Service -> "restarted"
                 [] OTHER -> "over")
    /\ ending' = (ending \/ At(c, "power") \/ (At(c, "pause") /\ Service))
    /\ UNCHANGED <<active, queued, options, data, threads, stopState>>
    /\ Running

\* save_now, before a restore; its result is not looked at.
SaveCancels(c) ==
    /\ At(c, "save") /\ Cancel("save")
    /\ Goto(c, "saving")
    /\ UNCHANGED <<runState, memory, writer, suspended, data, threads, stopState>>
    /\ Going

SaveWrites(c) ==
    /\ At(c, "saving")
    /\ IF "save" \in strays THEN UNCHANGED disk ELSE WriteNow
    /\ Goto(c, "log")
    /\ UNCHANGED <<runState, options, aside, installed, threads, stopState>>
    /\ Going

\* create_system_backup: the log has to be saved and the settings to be written in time,
\* and the archive to be made under their lock.  If not, the restore is rejected before
\* anything has been stopped, and OSPy goes on.
BackupWaits(c) ==
    /\ At(c, "log")
    /\ Goto(c, IF queued = {} THEN "flush" ELSE "rejected")
    /\ UNCHANGED <<runState, options, data, threads, stopState>>
    /\ Going

BackupCancels(c) ==
    /\ At(c, "flush") /\ Cancel("backup")
    /\ Goto(c, "flushing")
    /\ UNCHANGED <<runState, memory, writer, suspended, data, threads, stopState>>
    /\ Going

BackupFlushes(c) ==
    /\ At(c, "flushing")
    /\ IF "backup" \in strays THEN Goto(c, "rejected") /\ UNCHANGED disk
       ELSE Goto(c, "archive") /\ WriteNow
    /\ UNCHANGED <<runState, options, aside, installed, threads, stopState>>
    /\ Going

Archive(c) ==
    /\ At(c, "archive") /\ writer = NoOne
    /\ Goto(c, "clear") \/ Goto(c, "rejected")
    /\ UNCHANGED <<runState, options, data, threads, stopState>>
    /\ Going

BackupStep(c) == BackupWaits(c) \/ BackupCancels(c) \/ BackupFlushes(c) \/ Archive(c)

\* suspend_writes
Suspend(c) ==
    /\ At(c, "suspend") /\ Cancel("suspend")
    /\ suspended' = TRUE
    /\ Goto(c, "joining")
    /\ UNCHANGED <<runState, memory, writer, data, threads, stopState>>
    /\ Going

SuspendJoins(c) ==
    /\ At(c, "joining")
    /\ Goto(c, IF "suspend" \in strays THEN "pause" ELSE "away")
    /\ UNCHANGED <<runState, options, data, threads, stopState>>
    /\ Going

\* apply_staged_restore: the data directory is moved aside, the backup moved in.
MoveAway(c) ==
    /\ At(c, "away")
    /\ aside' = disk /\ disk' = Absent
    /\ Goto(c, "in")
    /\ UNCHANGED <<runState, options, installed, threads, stopState>>
    /\ Going

MoveIn(c) ==
    /\ At(c, "in") /\ disk = Absent
    /\ disk' = Restored /\ installed' = TRUE
    /\ Goto(c, "pause")
    /\ UNCHANGED <<runState, options, aside, threads, stopState>>
    /\ Going

\* A move fails: what was moved is moved back.  The endpoint then does not restart.
MoveFails(c) ==
    /\ At(c, "in")
    /\ disk' = aside
    /\ Goto(c, IF Kind[c] = "restore" THEN "pause" ELSE "over")
    /\ UNCHANGED <<runState, options, aside, installed, threads, stopState>>
    /\ Going

CommandStep(c) ==
    \/ BeginStop(c) \/ EndStop(c) \/ Clear(c) \/ SaveCancels(c) \/ SaveWrites(c)
    \/ BackupStep(c) \/ Suspend(c) \/ SuspendJoins(c) \/ MoveAway(c) \/ MoveIn(c) \/ MoveFails(c)

-----------------------------------------------------------------------------
Init ==
    /\ open = {} /\ active = {} /\ queued = {}
    /\ memory = [runs |-> {}] /\ disk = memory /\ aside = Absent
    /\ timer = "none" /\ strays = {} /\ writer = NoOne
    /\ suspended = FALSE /\ installed = FALSE
    /\ scheduler = "waiting" /\ handler = NoOne /\ plugin = "running"
    /\ signalled = FALSE /\ stage = "none" /\ stopper = NoOne /\ late = {}
    /\ pc = [c \in Command |-> "idle"]
    /\ ending = FALSE

WriterStep == PersistRuns \/ EndWrite \/ TimerFires \/ \E t \in Fired : BeginWrite(t)

SchedulerStep == \/ PassBegins \/ PassOpens \/ PassEnds \/ SchedulerEnds
                 \/ \E s \in Station : PassStarts(s)

HandlerStep == HandlerOpens \/ \E s \in Station : HandlerStarts(s)

Next ==
    \/ WriterStep \/ SchedulerStep \/ HandlerStep
    \/ \E s \in Station : PluginOpens(s)
    \/ StopStep
    \/ \E c \in Command : Give(c) \/ CommandStep(c)

\* The thread of a command, stop in it, a request under way and a write go on; the lock
\* of the settings, which the writer may hold again and again, is got in the end.
\* Nothing is assumed of plug-ins, the scheduler and the log.
Fairness ==
    /\ SF_vars(StopStep) /\ WF_vars(HandlerOpens) /\ WF_vars(EndWrite)
    /\ \A c \in Command : SF_vars(CommandStep(c))

Spec == Init /\ [][Next]_vars
FairSpec == Spec /\ Fairness

-----------------------------------------------------------------------------
(* Properties. *)

\* When stop has ended and everything stopped in time, no output is on and no run is
\* active, whatever passes, requests and plug-ins were under way when it began.
SafeWhenStopped == stage = "done" /\ late = {} => active = {} /\ open = {}

\* The settings stop leaves on disk are those in memory, and no run is active in them,
\* unless a restore holds writes back.
StoppedIsStored ==
    stage = "done" /\ late = {} /\ ~suspended => disk = memory /\ memory.runs = {}

\* Once a backup is in place, nothing of the old process gets into it.
RestoredStays == installed => disk = Restored

\* A command that is to end the process, and was not rejected.
Undertaken(c) == Kind[c] # "api_restore" /\ pc[c] \notin {"idle", "rejected"}

\* A command has the process ended, even if plug-ins and the scheduler never stop, the log
\* never gets its lists saved, and whatever becomes of other commands.  Only a restore whose
\* backup cannot be made ends otherwise: it is rejected, and if no other command was given
\* OSPy goes on.
CommandsEnd ==
    (\E c \in Command : Undertaken(c))
        ~> (ending \/ ~Running \/ \A c \in Command : ~Undertaken(c))
=============================================================================

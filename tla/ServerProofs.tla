----------------------------- MODULE ServerProofs -----------------------------
(***************************************************************************)
(* Theorems about the server: its stop, and the sessions of the mobile     *)
(* application.                                                            *)
(*                                                                         *)
(* The stop of OSPy, for any stations, any commands and any number of      *)
(* writes.  The safe state rests on what each step of stop finds gone for  *)
(* good (Quiet); that the settings it stores are those in memory needs     *)
(* besides that no endpoint replaces the data directory in between; that   *)
(* a restored backup stays rests on the latch (Latched).                   *)
(*                                                                         *)
(* Sessions, for any devices, tokens and times.  The columns revoked,      *)
(* replaced_by and last_used tell what has become of a token (Live,        *)
(* Spent): unused, used once or recovered while its session lasts, and     *)
(* nothing to recover once it has ended.                                   *)
(***************************************************************************)
EXTENDS ServerStop, MobileSessions, TLAPS

-----------------------------------------------------------------------------
(* The stop *)

\* The restore of the API is not used, and one backup is restored at a time.
OneRestore ==
    /\ \A c \in Command : Kind[c] # "api_restore"
    /\ \A c, d \in Command : Kind[c] = "restore" /\ Kind[d] = "restore" => c = d

AfterRuns == {"cancel", "join", "write", "done"}
AfterClear == {"runs"} \cup AfterRuns
AfterFinish == {"clear3"} \cup AfterClear
AfterWait == {"finish3"} \cup AfterFinish
AfterPlugins == {"finish2", "clear2", "wait"} \cup AfterWait
AfterSignal == {"finish1", "clear1", "plugins"} \cup AfterPlugins
AfterWeb == {"signal"} \cup AfterSignal

InTime == "scheduler" \notin late /\ "plugin" \notin late

\* What a step of stop has found gone.
Gone ==
    /\ stage \in AfterWeb => handler = NoOne
    /\ stage \in AfterSignal => signalled
    /\ stage \in AfterPlugins => plugin = "ended" \/ "plugin" \in late
    /\ stage \in AfterWait => scheduler = "ended" \/ "scheduler" \in late

\* So nothing is switched on or started any more.
Quiet ==
    /\ stage \in AfterFinish /\ InTime =>
          active = {} /\ queued \subseteq {{}} /\ (queued = {} => memory.runs = {})
    /\ stage \in AfterClear /\ InTime => open = {}
    /\ stage \in AfterRuns /\ InTime /\ "log" \notin late => queued = {}

SafeInv == TypeOK /\ Gone /\ Quiet

-----------------------------------------------------------------------------
(* Types. *)

LEMMA TypeInit == Init => TypeOK
  <1> SUFFICES ASSUME Init PROVE TypeOK
    OBVIOUS
  <1>1. RunTypes /\ ThreadTypes
    BY DEF Init, RunTypes, ThreadTypes
  <1>2. WriterTypes
    BY StopAssumption DEF Init, WriterTypes, Settings, Strays
  <1>3. DataTypes
    BY DEF Init, DataTypes, Settings
  <1>4. StopTypes /\ pc \in [Command -> Places] /\ ending \in BOOLEAN
    BY DEF Init, StopTypes, Stages, Places
  <1> QED
    BY <1>1, <1>2, <1>3, <1>4 DEF TypeOK

\* A step that leaves a group of variables alone leaves its types alone.
LEMMA Untouched ==
    ASSUME TypeOK
    PROVE  /\ UNCHANGED runState => RunTypes'
           /\ UNCHANGED options => WriterTypes'
           /\ UNCHANGED data => DataTypes'
           /\ UNCHANGED threads => ThreadTypes'
           /\ UNCHANGED stopState => StopTypes'
           /\ UNCHANGED pc => (pc \in [Command -> Places])'
           /\ Going => (ending \in BOOLEAN)'
  <1>1. UNCHANGED runState => RunTypes'
    BY DEF TypeOK, RunTypes, runState
  <1>2. UNCHANGED options => WriterTypes'
    BY DEF TypeOK, WriterTypes, options
  <1>3. UNCHANGED data => DataTypes'
    BY DEF TypeOK, DataTypes, data
  <1>4. UNCHANGED threads => ThreadTypes'
    BY DEF TypeOK, ThreadTypes, threads
  <1>5. UNCHANGED stopState => StopTypes'
    BY DEF TypeOK, StopTypes, stopState
  <1>6. (UNCHANGED pc => (pc \in [Command -> Places])') /\ (Going => (ending \in BOOLEAN)')
    BY DEF TypeOK, Going
  <1> QED
    BY <1>1, <1>2, <1>3, <1>4, <1>5, <1>6

\* The settings and their writer.
LEMMA WriterStepTypes ==
    ASSUME TypeOK, WriterStep
    PROVE  TypeOK'
  <1>1. CASE PersistRuns
    <2>1. RunTypes'
      BY <1>1, StopAssumption DEF PersistRuns, TypeOK, RunTypes
    <2>2. WriterTypes'
      BY <1>1, StopAssumption DEF PersistRuns, TypeOK, RunTypes, WriterTypes, SetTimer, Settings,
            Strays
    <2> QED
      BY <1>1, <2>1, <2>2, Untouched DEF PersistRuns, TypeOK
  <1>2. CASE EndWrite
    <2>1. WriterTypes'
      BY <1>2, StopAssumption DEF EndWrite, TypeOK, WriterTypes, Leave, Settings, Strays
    <2>2. DataTypes'
      BY <1>2, StopAssumption DEF EndWrite, TypeOK, DataTypes, WriterTypes
    <2> QED
      BY <1>2, <2>1, <2>2, Untouched DEF EndWrite, TypeOK
  <1>3. CASE TimerFires
    <2>1. WriterTypes'
      BY <1>3, StopAssumption DEF TimerFires, TypeOK, WriterTypes, Strays
    <2> QED
      BY <1>3, <2>1, Untouched DEF TimerFires, TypeOK
  <1>4. CASE \E t \in Fired : BeginWrite(t)
    <2>1. PICK t \in Fired : BeginWrite(t)
      BY <1>4
    <2>2. t \in strays \/ (t = "fired" /\ timer = "fired")
      BY <2>1 DEF Fired
    <2>3. WriterTypes'
      <3>1. CASE suspended
        BY <2>1, <3>1, StopAssumption DEF BeginWrite, Leave, TypeOK, WriterTypes, Strays
      <3>2. CASE ~suspended
        <4>1. writer' = t /\ UNCHANGED <<memory, timer, strays, suspended>>
          BY <2>1, <3>2 DEF BeginWrite
        <4> QED
          BY <2>2, <4>1, StopAssumption DEF TypeOK, WriterTypes, Strays
      <3> QED
        BY <3>1, <3>2
    <2> QED
      BY <2>1, <2>3, Untouched DEF BeginWrite, TypeOK
  <1> QED
    BY <1>1, <1>2, <1>3, <1>4 DEF WriterStep

\* The threads that switch outputs.
LEMMA ThreadStepTypes ==
    ASSUME TypeOK, SchedulerStep \/ HandlerStep \/ \E s \in Station : PluginOpens(s)
    PROVE  TypeOK'
  <1>1. CASE PassBegins \/ PassEnds \/ SchedulerEnds
    <2>1. ThreadTypes'
      BY <1>1, StopAssumption DEF PassBegins, PassEnds, SchedulerEnds, TypeOK, ThreadTypes
    <2> QED
      BY <1>1, <2>1, Untouched DEF PassBegins, PassEnds, SchedulerEnds, TypeOK
  <1>2. CASE PassOpens \/ HandlerOpens
    <2>1. RunTypes'
      BY <1>2, StopAssumption DEF PassOpens, HandlerOpens, TypeOK, RunTypes, ThreadTypes
    <2>2. ThreadTypes'
      BY <1>2, StopAssumption DEF PassOpens, HandlerOpens, TypeOK, ThreadTypes
    <2> QED
      BY <1>2, <2>1, <2>2, Untouched DEF PassOpens, HandlerOpens, TypeOK
  <1>3. CASE \E s \in Station : PassStarts(s) \/ HandlerStarts(s) \/ PluginOpens(s)
    <2>1. PICK s \in Station : PassStarts(s) \/ HandlerStarts(s) \/ PluginOpens(s)
      BY <1>3
    <2>2. RunTypes'
      BY <2>1 DEF PassStarts, HandlerStarts, PluginOpens, LogRun, TypeOK, RunTypes
    <2>3. ThreadTypes'
      BY <2>1 DEF PassStarts, HandlerStarts, PluginOpens, threads, TypeOK, ThreadTypes
    <2> QED
      BY <2>1, <2>2, <2>3, Untouched DEF PassStarts, HandlerStarts, PluginOpens, TypeOK
  <1> QED
    BY <1>1, <1>2, <1>3 DEF SchedulerStep, HandlerStep

\* Stop.
LEMMA StopStepTypes ==
    ASSUME TypeOK, StopStep
    PROVE  TypeOK'
  <1>1. CASE CloseWeb \/ StopWeb \/ RequestCoreStop \/ WaitForCore \/ FlushRuns \/ FlushJoins
    <2>1. StopTypes'
      BY <1>1, StopAssumption DEF CloseWeb, StopWeb, RequestCoreStop, WaitForCore,
            FlushRuns, FlushJoins, TypeOK, StopTypes, Stages
    <2> QED
      BY <1>1, <2>1, Untouched DEF CloseWeb, StopWeb, RequestCoreStop, WaitForCore,
            FlushRuns, FlushJoins, TypeOK
  <1>2. CASE StopPlugins
    <2>1. ThreadTypes'
      BY <1>2, StopAssumption DEF StopPlugins, TypeOK, ThreadTypes, Stages
    <2>2. StopTypes'
      BY <1>2, StopAssumption DEF StopPlugins, TypeOK, StopTypes, Stages
    <2> QED
      BY <1>2, <2>1, <2>2, Untouched DEF StopPlugins, TypeOK
  <1>3. CASE FinishRuns \/ ClearOutputs
    <2>1. RunTypes'
      BY <1>3, StopAssumption DEF FinishRuns, ClearOutputs, TypeOK, RunTypes, Stages
    <2>2. StopTypes'
      BY <1>3, StopAssumption DEF FinishRuns, ClearOutputs, TypeOK, StopTypes, Stages
    <2> QED
      BY <1>3, <2>1, <2>2, Untouched DEF FinishRuns, ClearOutputs, TypeOK
  <1>4. CASE FlushCancels
    <2>1. WriterTypes'
      BY <1>4, StopAssumption DEF FlushCancels, TypeOK, WriterTypes, Cancel, Strays, Stages
    <2>2. StopTypes'
      BY <1>4, StopAssumption DEF FlushCancels, TypeOK, StopTypes, Cancel, Strays, Stages
    <2> QED
      BY <1>4, <2>1, <2>2, Untouched DEF FlushCancels, TypeOK
  <1>5. CASE FlushWrites
    <2>1. DataTypes'
      BY <1>5, StopAssumption DEF FlushWrites, TypeOK, DataTypes, WriteNow, WriterTypes,
            Stages
    <2>2. StopTypes'
      BY <1>5, StopAssumption DEF FlushWrites, TypeOK, StopTypes, WriteNow, WriterTypes,
            Stages
    <2> QED
      BY <1>5, <2>1, <2>2, Untouched DEF FlushWrites, TypeOK
  <1> QED
    BY <1>1, <1>2, <1>3, <1>4, <1>5 DEF StopStep

\* The commands.
LEMMA CommandStepTypes ==
    ASSUME TypeOK, NEW c \in Command, Give(c) \/ CommandStep(c)
    PROVE  TypeOK'
  <1>1. CASE Give(c)
    <2>1. (pc \in [Command -> Places])'
      BY <1>1, StopAssumption DEF Give, TypeOK, Goto, Places, Restoring
    <2> QED
      BY <1>1, <2>1, Untouched DEF Give, TypeOK
  <1>2. CASE BeginStop(c)
    <2>1. StopTypes'
      BY <1>2, StopAssumption DEF BeginStop, TypeOK, StopTypes, Stages
    <2> QED
      BY <1>2, <2>1, Untouched DEF BeginStop, TypeOK
  <1>3. CASE EndStop(c)
    <2>1. (pc \in [Command -> Places])'
      BY <1>3, StopAssumption DEF EndStop, TypeOK, Goto, Places, Restoring
    <2>2. (ending \in BOOLEAN)'
      BY <1>3, StopAssumption DEF EndStop, TypeOK
    <2> QED
      BY <1>3, <2>1, <2>2, Untouched DEF EndStop, TypeOK
  <1>4. CASE Clear(c)
    <2>1. RunTypes'
      BY <1>4, StopAssumption DEF Clear, TypeOK, RunTypes
    <2>2. (pc \in [Command -> Places])'
      BY <1>4, StopAssumption DEF Clear, TypeOK, Goto, Places, Restoring
    <2>3. (ending \in BOOLEAN)'
      BY <1>4, StopAssumption DEF Clear, TypeOK
    <2> QED
      BY <1>4, <2>1, <2>2, <2>3, Untouched DEF Clear, TypeOK
  <1>5. CASE SaveCancels(c) \/ BackupCancels(c) \/ Suspend(c)
    <2>1. WriterTypes'
      BY <1>5, StopAssumption DEF SaveCancels, BackupCancels, Suspend, TypeOK, WriterTypes,
            Cancel, Strays
    <2>2. (pc \in [Command -> Places])'
      BY <1>5, StopAssumption DEF SaveCancels, BackupCancels, Suspend, TypeOK, Goto, Places,
            Restoring
    <2> QED
      BY <1>5, <2>1, <2>2, Untouched DEF SaveCancels, BackupCancels, Suspend, TypeOK
  <1>6. CASE SaveWrites(c) \/ BackupFlushes(c)
    <2>1. DataTypes'
      BY <1>6, StopAssumption DEF SaveWrites, BackupFlushes, TypeOK, DataTypes, WriteNow,
            WriterTypes
    <2>2. (pc \in [Command -> Places])'
      BY <1>6, StopAssumption DEF SaveWrites, BackupFlushes, TypeOK, Goto, Places, Restoring
    <2> QED
      BY <1>6, <2>1, <2>2, Untouched DEF SaveWrites, BackupFlushes, TypeOK
  <1>7. CASE SuspendJoins(c) \/ BackupWaits(c) \/ Archive(c)
    <2>1. (pc \in [Command -> Places])'
      BY <1>7, StopAssumption DEF SuspendJoins, BackupWaits, Archive, TypeOK, Goto, Places,
            Restoring
    <2> QED
      BY <1>7, <2>1, Untouched DEF SuspendJoins, BackupWaits, Archive, TypeOK
  <1>8. CASE MoveAway(c) \/ MoveIn(c) \/ MoveFails(c)
    <2>1. DataTypes'
      BY <1>8, StopAssumption DEF MoveAway, MoveIn, MoveFails, TypeOK, DataTypes
    <2>2. (pc \in [Command -> Places])'
      BY <1>8, StopAssumption DEF MoveAway, MoveIn, MoveFails, TypeOK, Goto, Places, Restoring
    <2> QED
      BY <1>8, <2>1, <2>2, Untouched DEF MoveAway, MoveIn, MoveFails, TypeOK
  <1> QED
    BY <1>1, <1>2, <1>3, <1>4, <1>5, <1>6, <1>7, <1>8
       DEF CommandStep, BackupStep

LEMMA TypeStep ==
    ASSUME TypeOK, [Next]_vars
    PROVE  TypeOK'
  <1>1. CASE Next
    BY <1>1, WriterStepTypes, ThreadStepTypes, StopStepTypes, CommandStepTypes DEF Next
  <1>2. CASE UNCHANGED vars
    BY <1>2, Untouched DEF TypeOK, vars
  <1> QED
    BY <1>1, <1>2

\* The state keeps its types (ospy/server.py stop, ospy/options.py): the thread that
\* writes is the current timer's or one that has been replaced.
THEOREM StopTypesKept == Spec => []TypeOK
  <1>1. Init => TypeOK
    BY TypeInit
  <1>2. TypeOK /\ [Next]_vars => TypeOK'
    BY TypeStep
  <1> QED
    BY <1>1, <1>2, PTL DEF Spec

-----------------------------------------------------------------------------
(* The safe state. *)

\* Where stop comes from and goes to.
USE DEF AfterRuns, AfterClear, AfterFinish, AfterWait, AfterPlugins, AfterSignal, AfterWeb

\* What has gone does not come back.
LEMMA GoneStep ==
    ASSUME SafeInv, Next
    PROVE  Gone'
  <1>1. CASE UNCHANGED <<threads, stopState>>
    BY <1>1 DEF SafeInv, Gone, threads, stopState
  <1>2. CASE SchedulerStep
    <2>1. scheduler # "ended" => stage \notin AfterWait \/ "scheduler" \in late
      BY DEF SafeInv, Gone
    <2>2. UNCHANGED <<handler, plugin, stopState>>
      BY <1>2 DEF SchedulerStep, PassBegins, PassOpens, PassEnds, SchedulerEnds, PassStarts
    <2>3. scheduler # "ended"
      BY <1>2, StopAssumption DEF SchedulerStep, PassBegins, PassOpens, PassEnds, SchedulerEnds,
            PassStarts
    <2> QED
      BY <2>1, <2>2, <2>3 DEF SafeInv, Gone, stopState
  <1>3. CASE HandlerStep
    <2>1. stage \in AfterWeb => handler' = NoOne
      BY <1>3 DEF HandlerStep, HandlerOpens, HandlerStarts
    <2>2. UNCHANGED <<scheduler, plugin, stopState>>
      BY <1>3 DEF HandlerStep, HandlerOpens, HandlerStarts
    <2> QED
      BY <2>1, <2>2 DEF SafeInv, Gone, stopState
  <1>4. CASE StopStep
    <2>1. CASE CloseWeb \/ FinishRuns \/ ClearOutputs \/ FlushRuns \/ FlushCancels \/ FlushJoins
               \/ FlushWrites
      BY <2>1 DEF SafeInv, Gone, CloseWeb, FinishRuns, ClearOutputs, FlushRuns, FlushCancels,
            FlushJoins, FlushWrites, threads
    <2>2. CASE StopWeb \/ RequestCoreStop
      BY <2>2 DEF SafeInv, Gone, StopWeb, RequestCoreStop, Serving, threads
    <2>3. CASE StopPlugins \/ WaitForCore
      BY <2>3 DEF SafeInv, Gone, StopPlugins, WaitForCore, threads
    <2> QED
      BY <1>4, <2>1, <2>2, <2>3 DEF StopStep
  <1>5. CASE \E c \in Command : BeginStop(c)
    BY <1>5 DEF BeginStop, Gone
  <1> QED
    BY <1>1, <1>2, <1>3, <1>4, <1>5 DEF Next, WriterStep, PersistRuns, EndWrite, TimerFires,
          BeginWrite, PluginOpens, Give, CommandStep, EndStop, Clear, SaveCancels, SaveWrites,
          BackupStep, BackupWaits, BackupCancels, BackupFlushes, Archive, Suspend, SuspendJoins,
          MoveAway, MoveIn, MoveFails

\* So what was made safe stays so.
LEMMA QuietStep ==
    ASSUME SafeInv, Next
    PROVE  Quiet'
  <1>1. CASE UNCHANGED <<runState, memory, stopState>>
    BY <1>1 DEF SafeInv, Quiet, InTime, runState, stopState
  <1>2. CASE PersistRuns
    BY <1>2 DEF SafeInv, Quiet, InTime, PersistRuns, stopState
  <1>3. CASE SchedulerStep
    <2>1. UNCHANGED <<memory, stopState>>
      BY <1>3 DEF SchedulerStep, PassBegins, PassOpens, PassEnds, SchedulerEnds, PassStarts,
            options
    <2>2. scheduler # "ended"
      BY <1>3, StopAssumption DEF SchedulerStep, PassBegins, PassOpens, PassEnds, SchedulerEnds,
            PassStarts
    <2>3. ~(stage \in AfterWait /\ InTime)
      BY <2>2 DEF SafeInv, Gone, InTime
    <2> QED
      BY <2>1, <2>3 DEF Quiet, InTime, stopState
  <1>4. CASE HandlerStep
    <2>1. UNCHANGED <<memory, stopState>>
      BY <1>4 DEF HandlerStep, HandlerOpens, HandlerStarts, options
    <2>2. stage \notin AfterWeb
      BY <1>4 DEF HandlerStep, HandlerOpens, HandlerStarts, SafeInv, Gone
    <2> QED
      BY <2>1, <2>2 DEF Quiet, InTime, stopState
  <1>5. CASE \E s \in Station : PluginOpens(s)
    <2>1. UNCHANGED <<active, queued, memory, stopState>> /\ plugin # "ended"
      BY <1>5 DEF PluginOpens, options
    <2> QED
      BY <2>1 DEF SafeInv, Gone, Quiet, InTime, stopState
  <1>6. CASE StopStep
    <2>1. CASE CloseWeb \/ StopWeb \/ RequestCoreStop \/ StopPlugins \/ WaitForCore
      BY <2>1 DEF Quiet, CloseWeb, StopWeb, RequestCoreStop, StopPlugins, WaitForCore
    <2>2. CASE FinishRuns
      BY <2>2 DEF Quiet, FinishRuns
    <2>3. CASE ClearOutputs
      BY <2>3 DEF SafeInv, Quiet, InTime, ClearOutputs, options
    <2>4. CASE FlushRuns
      BY <2>4 DEF SafeInv, Quiet, InTime, FlushRuns, runState, options
    <2>5. CASE FlushCancels \/ FlushJoins \/ FlushWrites
      BY <2>5 DEF SafeInv, Quiet, InTime, FlushCancels, FlushJoins, FlushWrites, runState, options
    <2> QED
      BY <1>6, <2>1, <2>2, <2>3, <2>4, <2>5 DEF StopStep
  <1>7. CASE \E c \in Command : BeginStop(c)
    BY <1>7 DEF BeginStop, Quiet
  <1>8. CASE \E c \in Command : Clear(c)
    BY <1>8 DEF SafeInv, Quiet, InTime, Clear, options, stopState
  <1> QED
    BY <1>1, <1>2, <1>3, <1>4, <1>5, <1>6, <1>7, <1>8 DEF Next, WriterStep, EndWrite, TimerFires,
          BeginWrite, Give, CommandStep, EndStop, SaveCancels, SaveWrites, BackupStep,
          BackupWaits, BackupCancels, BackupFlushes, Archive, Suspend, SuspendJoins, MoveAway,
          MoveIn, MoveFails, options

LEMMA SafeStep ==
    ASSUME SafeInv, [Next]_vars
    PROVE  SafeInv'
  <1>1. TypeOK'
    BY TypeStep DEF SafeInv
  <1>2. CASE Next
    BY <1>1, <1>2, GoneStep, QuietStep DEF SafeInv
  <1>3. CASE UNCHANGED vars
    BY <1>1, <1>3 DEF SafeInv, Gone, Quiet, InTime, vars, runState, options, threads, stopState
  <1> QED
    BY <1>2, <1>3

LEMMA SafeAlways == Spec => []SafeInv
  <1>1. Init => SafeInv
    BY TypeInit DEF Init, SafeInv, Gone, Quiet
  <1>2. SafeInv /\ [Next]_vars => SafeInv'
    BY SafeStep
  <1> QED
    BY <1>1, <1>2, PTL DEF Spec

\* When stop has ended and what it waits for has stopped in time, no output is on and no
\* run is active (server.stop, ospy/server.py 474-536), whatever was under way.
THEOREM StopIsSafe == Spec => []SafeWhenStopped
  <1>1. SafeInv => SafeWhenStopped
    BY DEF SafeInv, Quiet, InTime, SafeWhenStopped
  <1> QED
    BY <1>1, SafeAlways, PTL

-----------------------------------------------------------------------------
(* The settings. *)

\* The latch holds writes back, and a restore does not touch the data before it is set.
Latched ==
    /\ suspended => writer = NoOne
    /\ \A c \in Command : pc[c] \in {"joining", "away", "in"} => suspended /\ Kind[c] = "restore"
    /\ \A c \in Command : pc[c] = "suspend" => Kind[c] = "restore"

\* Once it is in place, the restore is past its last move.
InPlace ==
    installed =>
        /\ suspended /\ disk = Restored
        /\ \A c \in Command :
              Kind[c] = "restore" => pc[c] \in {"pause", "restarted", "exec", "over"}

LEMMA LatchedStep ==
    ASSUME OneRestore, TypeOK, Latched, Next
    PROVE  Latched'
  <1>1. CASE UNCHANGED <<writer, suspended, pc>>
    BY <1>1 DEF Latched
  <1>2. CASE EndWrite \/ (\E t \in Fired : BeginWrite(t))
    BY <1>2 DEF Latched, EndWrite, BeginWrite
  <1>3. ASSUME NEW c \in Command, Give(c) \/ EndStop(c) \/ Clear(c) \/ SaveCancels(c)
                  \/ SaveWrites(c) \/ BackupStep(c) \/ SuspendJoins(c) \/ MoveAway(c)
                  \/ MoveIn(c) \/ MoveFails(c)
        PROVE  Latched'
    <2>1. UNCHANGED <<writer, suspended>>
      BY <1>3 DEF Give, EndStop, Clear, SaveCancels, SaveWrites, BackupStep,
            BackupWaits, BackupCancels, BackupFlushes, Archive, SuspendJoins, MoveAway, MoveIn,
            MoveFails, options
    <2>2. PICK place : pc' = [pc EXCEPT ![c] = place]
      BY <1>3 DEF Give, EndStop, Clear, SaveCancels, SaveWrites, BackupStep,
            BackupWaits, BackupCancels, BackupFlushes, Archive, SuspendJoins, MoveAway, MoveIn,
            MoveFails, Goto
    <2>3. pc'[c] \in {"joining", "away", "in"} => suspended /\ Kind[c] = "restore"
      BY <1>3, <2>2 DEF OneRestore, TypeOK, Latched, Give, EndStop, Clear, SaveCancels, SaveWrites,
            BackupStep, BackupWaits, BackupCancels, BackupFlushes, Archive, SuspendJoins,
            MoveAway, MoveIn, MoveFails, Goto, At
    <2>4. pc'[c] = "suspend" => Kind[c] = "restore"
      BY <1>3, <2>2 DEF OneRestore, TypeOK, Latched, Give, EndStop, Clear, SaveCancels, SaveWrites,
            BackupStep, BackupWaits, BackupCancels, BackupFlushes, Archive, SuspendJoins,
            MoveAway, MoveIn, MoveFails, Goto, At
    <2>5. \A d \in Command : d # c => pc'[d] = pc[d]
      BY <2>2 DEF TypeOK
    <2> QED
      BY <2>1, <2>3, <2>4, <2>5 DEF Latched
  <1>4. ASSUME NEW c \in Command, Suspend(c)
        PROVE  Latched'
    BY <1>4 DEF TypeOK, Latched, Suspend, Cancel, Goto, At
  <1> QED
    BY <1>1, <1>2, <1>3, <1>4 DEF Next, WriterStep, PersistRuns, TimerFires, SchedulerStep,
          HandlerStep, PassBegins, PassOpens, PassEnds, SchedulerEnds, PassStarts, HandlerStarts,
          HandlerOpens, PluginOpens, StopStep, CloseWeb, StopWeb, RequestCoreStop, FinishRuns,
          ClearOutputs, StopPlugins, WaitForCore, FlushRuns, FlushCancels, FlushJoins,
          FlushWrites, CommandStep, BeginStop, options

LEMMA InPlaceStep ==
    ASSUME OneRestore, TypeOK, Latched, InPlace, Next
    PROVE  InPlace'
  <1>1. CASE UNCHANGED <<suspended, data, pc>>
    BY <1>1 DEF InPlace, data
  <1>2. CASE EndWrite
    BY <1>2 DEF Latched, InPlace, EndWrite
  <1>3. CASE FlushWrites
    BY <1>3 DEF InPlace, FlushWrites, WriteNow, options
  <1>4. ASSUME NEW c \in Command, CommandStep(c) \/ Give(c)
        PROVE  InPlace'
    <2>1. CASE installed
      <3>1. pc[c] \notin {"away", "in"}
        BY <2>1 DEF Latched, InPlace
      <3>2. UNCHANGED <<disk, installed>> /\ suspended'
        BY <1>4, <2>1, <3>1 DEF InPlace, CommandStep, Give, BeginStop, EndStop, Clear, SaveCancels,
              SaveWrites, BackupStep, BackupWaits, BackupCancels, BackupFlushes, Archive,
              Suspend, SuspendJoins, MoveAway, MoveIn, MoveFails, WriteNow, At, data,
              options
      <3>3. CASE Kind[c] = "restore"
        <4>1. pc[c] \in {"pause", "restarted", "exec", "over"}
          BY <2>1, <3>3 DEF InPlace
        <4>2. BeginStop(c) \/ EndStop(c) \/ Clear(c)
          BY <1>4, <4>1 DEF CommandStep, Give, SaveCancels, SaveWrites, BackupStep, BackupWaits,
                BackupCancels, BackupFlushes, Archive, Suspend, SuspendJoins,
                MoveAway, MoveIn, MoveFails, At
        <4>3. CASE BeginStop(c)
          BY <2>1, <3>2, <4>3 DEF InPlace, BeginStop
        <4>4. CASE EndStop(c)
          <5>1. pc' = [pc EXCEPT ![c] = "exec"]
            BY <3>3, <4>1, <4>4 DEF EndStop, At, Goto
          <5> QED
            BY <2>1, <3>2, <5>1 DEF InPlace, TypeOK
        <4>5. CASE Clear(c)
          <5>1. pc' = [pc EXCEPT ![c] = "restarted"] \/ pc' = [pc EXCEPT ![c] = "over"]
            BY <4>1, <4>5 DEF Clear, At, Goto
          <5> QED
            BY <2>1, <3>2, <5>1 DEF InPlace, TypeOK
        <4> QED
          BY <4>2, <4>3, <4>4, <4>5
      <3>4. CASE Kind[c] # "restore"
        <4>1. pc' = pc \/ \E place : pc' = [pc EXCEPT ![c] = place]
          BY <1>4 DEF CommandStep, Give, BeginStop, EndStop, Clear, SaveCancels,
                SaveWrites, BackupStep, BackupWaits, BackupCancels, BackupFlushes, Archive,
              Suspend, SuspendJoins, MoveAway, MoveIn, MoveFails, Goto
        <4> QED
          BY <2>1, <3>2, <3>4, <4>1 DEF InPlace, TypeOK
      <3> QED
        BY <3>3, <3>4
    <2>2. CASE ~installed
      <3>1. CASE MoveIn(c)
        <4>1. suspended /\ Kind[c] = "restore" /\ UNCHANGED suspended
          BY <3>1 DEF Latched, MoveIn, At, options
        <4>2. disk' = Restored /\ pc' = [pc EXCEPT ![c] = "pause"]
          BY <3>1 DEF MoveIn, Goto
        <4> QED
          BY <4>1, <4>2 DEF InPlace, OneRestore, TypeOK
      <3>2. CASE ~MoveIn(c)
        BY <1>4, <2>2, <3>2 DEF InPlace, CommandStep, Give, BeginStop, EndStop, Clear, SaveCancels,
              SaveWrites, BackupStep, BackupWaits, BackupCancels, BackupFlushes, Archive,
              Suspend, SuspendJoins, MoveAway, MoveFails, data
      <3> QED
        BY <3>1, <3>2
    <2> QED
      BY <2>1, <2>2
  <1> QED
    BY <1>1, <1>2, <1>3, <1>4 DEF Next, WriterStep, PersistRuns, TimerFires, BeginWrite,
          SchedulerStep, HandlerStep, PassBegins, PassOpens, PassEnds, SchedulerEnds, PassStarts,
          HandlerStarts, HandlerOpens, PluginOpens, StopStep, CloseWeb, StopWeb, RequestCoreStop,
          FinishRuns, ClearOutputs, StopPlugins, WaitForCore, FlushRuns, FlushCancels, FlushJoins,
          options

\* What stop leaves on disk is what is in memory.
StoredInv == stage = "done" /\ late = {} /\ ~suspended => disk = memory

LEMMA StoredStep ==
    ASSUME OneRestore, SafeInv, Latched, StoredInv, Next
    PROVE  StoredInv'
  <1>1. CASE UNCHANGED <<stage, late, suspended, disk, memory>>
    BY <1>1 DEF StoredInv
  <1>2. CASE PersistRuns
    <2>1. queued # {} /\ UNCHANGED <<stage, late>>
      BY <1>2 DEF PersistRuns, stopState
    <2>2. ~(stage = "done" /\ late = {})
      BY <2>1 DEF SafeInv, Quiet, InTime
    <2> QED
      BY <2>1, <2>2 DEF StoredInv
  <1>3. CASE EndWrite
    BY <1>3 DEF StoredInv, EndWrite, stopState
  <1>4. CASE StopStep
    <2>1. CASE FlushWrites
      BY <2>1 DEF StoredInv, FlushWrites, WriteNow, options
    <2>2. CASE FlushJoins
      BY <2>2 DEF StoredInv, FlushJoins
    <2>3. CASE ~FlushWrites /\ ~FlushJoins
      BY <1>4, <2>3 DEF StoredInv, StopStep, CloseWeb, StopWeb, RequestCoreStop, FinishRuns,
            ClearOutputs, StopPlugins, WaitForCore, FlushRuns, FlushCancels
    <2> QED
      BY <2>1, <2>2, <2>3
  <1>5. ASSUME NEW c \in Command, CommandStep(c)
        PROVE  StoredInv'
    <2>1. CASE BeginStop(c)
      BY <2>1 DEF StoredInv, BeginStop
    <2>2. CASE SaveWrites(c)
      BY <2>2 DEF StoredInv, SaveWrites, WriteNow, options, stopState
    <2>3. CASE Suspend(c)
      BY <2>3 DEF StoredInv, Suspend
    <2>4. CASE MoveAway(c) \/ MoveIn(c) \/ MoveFails(c)
      BY <2>4 DEF StoredInv, Latched, MoveAway, MoveIn, MoveFails, At, options, stopState
    <2>5. CASE BackupStep(c)
      BY <2>5 DEF StoredInv, BackupStep, BackupWaits, BackupCancels, BackupFlushes, Archive,
            WriteNow, options, data, stopState
    <2>6. CASE EndStop(c) \/ Clear(c) \/ SaveCancels(c) \/ SuspendJoins(c)
      BY <2>6 DEF StoredInv, EndStop, Clear, SaveCancels, SuspendJoins, options, data, stopState
    <2> QED
      BY <1>5, <2>1, <2>2, <2>3, <2>4, <2>5, <2>6 DEF CommandStep
  <1> QED
    BY <1>1, <1>2, <1>3, <1>4, <1>5 DEF Next, WriterStep, TimerFires, BeginWrite, SchedulerStep,
          HandlerStep, PassBegins, PassOpens, PassEnds, SchedulerEnds, PassStarts, HandlerStarts,
          HandlerOpens, PluginOpens, Give, options, data, stopState

RestoreInv == SafeInv /\ Latched /\ InPlace /\ StoredInv

LEMMA RestoreAlways == OneRestore => (Spec => []RestoreInv)
  <1> SUFFICES ASSUME OneRestore PROVE Spec => []RestoreInv
    OBVIOUS
  <1>1. Init => RestoreInv
    BY TypeInit DEF Init, RestoreInv, SafeInv, Gone, Quiet, Latched, InPlace, StoredInv
  <1>2. ASSUME RestoreInv, [Next]_vars PROVE RestoreInv'
    <2>1. SafeInv'
      BY <1>2, SafeStep DEF RestoreInv
    <2>2. CASE Next
      BY <1>2, <2>1, <2>2, LatchedStep, InPlaceStep, StoredStep DEF RestoreInv, SafeInv
    <2>3. CASE UNCHANGED vars
      BY <1>2, <2>1, <2>3 DEF RestoreInv, Latched, InPlace, StoredInv, vars, options, data, stopState
    <2> QED
      BY <1>2, <2>2, <2>3
  <1> QED
    BY <1>1, <1>2, PTL DEF Spec

\* Where one backup is restored, by the page (ospy/webpages.py 5466-5542), nothing of the
\* old process gets into it once it is in place: the latch of options.suspend_writes.
THEOREM RestoreStays == OneRestore => (Spec => []RestoredStays)
  <1>1. RestoreInv => RestoredStays
    BY DEF RestoreInv, InPlace, RestoredStays
  <1> QED
    BY <1>1, RestoreAlways, PTL

\* Where data are replaced by the page alone, the settings stop leaves on disk are those
\* in memory, without a run (server.stop flushes the log and then the settings).
THEOREM StopStores == OneRestore => (Spec => []StoppedIsStored)
  <1>1. RestoreInv => StoppedIsStored
    BY DEF RestoreInv, SafeInv, Quiet, InTime, StoredInv, StoppedIsStored
  <1> QED
    BY <1>1, RestoreAlways, PTL

-----------------------------------------------------------------------------
(* Sessions *)

\* The history: a token replaces one that was issued, and not in the future.
Past ==
    \A t \in Issued : birth[t].by \in Issued \cup {None} /\ birth[t].at <= now

\* Not used, used once, or recovered.
Fresh(t) == tokens[t].revoked = None /\ ~tokens[t].replaced /\ Replacements(t) = {}

Once(t) ==
    \E r \in Issued :
        /\ Replacements(t) = {r}
        /\ tokens[t].revoked = birth[r].at /\ tokens[t].replaced
        /\ tokens[t].used = tokens[t].revoked

Twice(t) ==
    \E r, s \in Issued :
        /\ Replacements(t) = {r, s} /\ r # s
        /\ tokens[t].revoked = birth[r].at /\ tokens[t].replaced
        /\ tokens[t].used # tokens[t].revoked

Live(t) ==
    /\ t \in DOMAIN tokens /\ devices[tokens[t].device] = "active"
    /\ tokens[t].expires = birth[t].at + Lifetime
    /\ Fresh(t) \/ Once(t) \/ Twice(t)

\* A session that has ended: the device is not active, or there is nothing to recover.
Spent(t) ==
    t \in DOMAIN tokens =>
        \/ devices[tokens[t].device] # "active"
        \/ tokens[t].revoked # None /\ ~tokens[t].replaced

\* At most two replacements, and close to each other.
Close(t) ==
    \/ Replacements(t) = {}
    \/ \E r, s \in Issued :
          /\ Replacements(t) = {r, s}
          /\ birth[r].at - birth[s].at <= Grace /\ birth[s].at - birth[r].at <= Grace

Inv ==
    /\ SessionsTypeOK /\ Past
    /\ \A t \in Issued : t \in ended \/ Live(t)
    /\ \A t \in ended : Spent(t)
    /\ \A t \in Issued : Close(t)
    /\ PushOnlyToPaired

-----------------------------------------------------------------------------
(* Issuing a token. *)

\* The token "new" has been issued for d in place of "by", and has no replacement; the
\* history is otherwise as it was.
IssuedAs(new, d, by, rows) ==
    /\ Issued' = Issued \cup {new}
    /\ \A t \in Issued : birth'[t] = birth[t]
    /\ birth'[new] = [by |-> by, at |-> now]
    /\ \A t \in Issued : Replacements(t)' =
           IF t = by THEN Replacements(t) \cup {new} ELSE Replacements(t)
    /\ Replacements(new)' = {}
    /\ DOMAIN tokens' = DOMAIN rows \cup {new}
    /\ tokens'[new] = NewRow(d)
    /\ \A t \in DOMAIN rows : t # new => tokens'[t] = rows[t]

LEMMA IssueHistory ==
    ASSUME SessionsTypeOK, Past, NEW d, NEW by \in Issued \cup {None}, NEW rows, IssueToken(d, by, rows)
    PROVE  \E new \in Token \ Issued : IssuedAs(new, d, by, rows)
  <1>1. PICK new \in Token \ Issued :
            /\ tokens' = [t \in DOMAIN rows \cup {new} |-> IF t = new THEN NewRow(d) ELSE rows[t]]
            /\ birth' = [t \in Issued \cup {new} |->
                            IF t = new THEN [by |-> by, at |-> now] ELSE birth[t]]
    BY DEF IssueToken
  <1>2. Issued' = Issued \cup {new} /\ (\A t \in Issued : birth'[t] = birth[t])
        /\ birth'[new] = [by |-> by, at |-> now]
    BY <1>1 DEF Issued
  <1>3. ASSUME NEW t \in Issued
        PROVE  Replacements(t)' = IF t = by THEN Replacements(t) \cup {new} ELSE Replacements(t)
    BY <1>2 DEF Replacements
  <1>4. Replacements(new)' = {}
    <2>1. None \notin Token
      BY SessionAssumption
    <2> QED
      BY <1>2, <2>1 DEF Replacements, Past, SessionsTypeOK
  <1>5. IssuedAs(new, d, by, rows)
    BY <1>1, <1>2, <1>3, <1>4 DEF IssuedAs
  <1> QED
    BY <1>5

\* The rows of a token issued for a device there is have their types.
LEMMA IssueTypes ==
    ASSUME SessionsTypeOK, Past, NEW d \in Device, NEW by \in Issued \cup {None}, NEW rows,
           DOMAIN rows = DOMAIN tokens, \A t \in DOMAIN rows : rows[t] \in Row,
           \A t \in DOMAIN rows : rows[t].device = tokens[t].device,
           IssueToken(d, by, rows), now' = now,
           devices' \in [Device -> {"none", "active", "revoked"}], devices'[d] = "active",
           \A e \in Device : devices'[e] = "none" => devices[e] = "none",
           push' = push, handlers' = handlers, ended' \subseteq Issued
    PROVE  SessionsTypeOK' /\ Past'
  <1>1. PICK new \in Token \ Issued : IssuedAs(new, d, by, rows)
    BY IssueHistory
  <1>2. NewRow(d) \in Row /\ NewRow(d).device = d
    BY SessionAssumption DEF NewRow, Row, SessionsTypeOK
  <1>3. DOMAIN tokens' \subseteq Issued' /\ \A t \in DOMAIN tokens' : tokens'[t] \in Row
    BY <1>1, <1>2 DEF IssuedAs, SessionsTypeOK
  <1>4. \A t \in DOMAIN tokens' : devices'[tokens'[t].device] # "none"
    <2>1. \A t \in DOMAIN rows : rows[t].device \in Device
      BY DEF Row
    <2> QED
      BY <1>1, <1>2, <2>1 DEF IssuedAs, SessionsTypeOK
  <1>5. Issued' \subseteq Token /\ \A t \in Issued' : /\ birth'[t].by \in Token \cup {None}
                                                      /\ birth'[t].at \in Nat
    BY <1>1 DEF IssuedAs, SessionsTypeOK
  <1>6. ended' \subseteq Issued'
    BY <1>1 DEF IssuedAs
  <1>7. Past'
    BY <1>1, SessionAssumption DEF IssuedAs, Past, SessionsTypeOK
  <1> QED
    BY <1>3, <1>4, <1>5, <1>6, <1>7 DEF SessionsTypeOK

-----------------------------------------------------------------------------
(* The steps. *)

LEMMA RotateStep ==
    ASSUME Inv, NEW t \in DOMAIN tokens, Rotate(t)
    PROVE  Inv'
  <1> DEFINE d == tokens[t].device
             rows == [tokens EXCEPT ![t] = Used(t)]
  <1>1. /\ Accepted(t) /\ IssueToken(d, t, rows) /\ t \in Issued /\ d \in Device
        /\ UNCHANGED <<now, devices, push, handlers, ended>>
    BY DEF Rotate, Inv, SessionsTypeOK, Row
  <1>2. tokens[t] \in Row /\ now \in Nat
    BY DEF Inv, SessionsTypeOK
  <1>3. Used(t) \in Row /\ Used(t).device = d /\ Used(t).expires = tokens[t].expires
    <2>1. CASE RecoveryRetry(t)
      <3>1. tokens[t].revoked \in Nat
        BY <1>2, <2>1 DEF RecoveryRetry, Row
      <3>2. Later(now, tokens[t].revoked + 1) \in Nat
        BY <1>2, <3>1 DEF Later
      <3> QED
        BY <1>2, <2>1, <3>2 DEF Used, Row
    <2>2. CASE ~RecoveryRetry(t)
      BY <1>2, <2>2 DEF Used, Row
    <2> QED
      BY <2>1, <2>2
  <1>4. DOMAIN rows = DOMAIN tokens /\ rows[t] = Used(t)
        /\ \A u \in DOMAIN tokens : u # t => rows[u] = tokens[u]
    OBVIOUS
  <1> HIDE DEF rows
  <1>5. SessionsTypeOK' /\ Past'
    <2>1. \A u \in DOMAIN rows : rows[u] \in Row /\ rows[u].device = tokens[u].device
      BY <1>3, <1>4 DEF Inv, SessionsTypeOK
    <2>2. devices'[d] = "active" /\ devices' \in [Device -> {"none", "active", "revoked"}]
      BY <1>1 DEF Accepted, Inv, SessionsTypeOK
    <2> QED
      BY <1>1, <1>4, <2>1, <2>2, IssueTypes DEF Inv, SessionsTypeOK
  <1>6. PICK new \in Token \ Issued : IssuedAs(new, d, t, rows)
    <2>1. SessionsTypeOK /\ Past /\ t \in Issued \cup {None}
      BY <1>1 DEF Inv
    <2> QED
      BY <1>1, <2>1, IssueHistory
  <1>7. t \notin ended
    BY <1>1, <1>2 DEF Inv, Spent, Accepted, RecoveryRetry
  <1>8. Live(t)
    BY <1>1, <1>7 DEF Inv
  <1>9. /\ DOMAIN tokens' = DOMAIN tokens \cup {new} /\ tokens'[t] = Used(t)
        /\ tokens'[new] = NewRow(d)
        /\ \A u \in DOMAIN tokens : u # t => tokens'[u] = tokens[u]
    BY <1>4, <1>6 DEF IssuedAs, Inv, SessionsTypeOK
  <1>10. \A u \in Issued : birth[u].at \in Nat /\ birth[u].at <= now
    BY DEF Inv, SessionsTypeOK, Past
  <1> USE <1>6 DEF IssuedAs
  \* what becomes of the token that is used
  <1>11. ASSUME Fresh(t) PROVE Once(t)' /\ Close(t)'
    <2>1. Used(t).revoked = now /\ Used(t).replaced /\ Used(t).used = now
      BY <1>2, <1>11 DEF Fresh, Used, RecoveryRetry, Row
    <2>2. Replacements(t)' = {new}
      BY <1>1, <1>6, <1>11 DEF Fresh
    <2>3. Once(t)'
      BY <1>6, <1>9, <2>1, <2>2 DEF Once
    <2>4. Close(t)'
      BY <1>2, <1>6, <2>2, SessionAssumption DEF Close
    <2> QED
      BY <2>3, <2>4
  <1>12. ASSUME Once(t) PROVE Twice(t)' /\ Close(t)'
    <2>1. PICK r \in Issued :
              /\ Replacements(t) = {r}
              /\ tokens[t].revoked = birth[r].at /\ tokens[t].replaced
              /\ tokens[t].used = tokens[t].revoked
      BY <1>12 DEF Once
    <2>2. tokens[t].revoked \in Nat /\ tokens[t].revoked <= now
      BY <1>10, <2>1
    <2>3. RecoveryRetry(t)
      BY <1>1, <2>1 DEF Accepted
    <2>4. /\ Used(t).revoked = tokens[t].revoked /\ Used(t).replaced
          /\ Used(t).used # Used(t).revoked
      BY <1>2, <2>1, <2>2, <2>3 DEF Used, Later, Row
    <2>5. Replacements(t)' = {r, new} /\ r # new
      BY <1>1, <1>6, <2>1
    <2>6. birth'[r] = birth[r] /\ r \in Issued' /\ new \in Issued' /\ birth'[new].at = now
      BY <1>6
    <2>7. Twice(t)'
      BY <1>9, <2>1, <2>4, <2>5, <2>6 DEF Twice
    <2>8. now - birth[r].at <= Grace /\ birth[r].at - now <= Grace
      BY <1>2, <2>1, <2>2, <2>3, SessionAssumption DEF RecoveryRetry
    <2>9. Close(t)'
      BY <2>5, <2>6, <2>8 DEF Close
    <2> QED
      BY <2>7, <2>9
  <1>13. ~Twice(t)
    BY <1>1 DEF Twice, Accepted, RecoveryRetry
  <1>14. (Fresh(t) \/ Once(t) \/ Twice(t))' /\ Close(t)'
    BY <1>8, <1>11, <1>12, <1>13 DEF Live
  <1>15. ASSUME NEW u \in Issued' PROVE u \in ended' \/ Live(u)'
    <2>1. CASE u = t
      <3>1. tokens'[t].device = d /\ tokens'[t].expires = birth'[t].at + Lifetime
        BY <1>1, <1>3, <1>6, <1>8, <1>9 DEF Live
      <3> QED
        BY <1>1, <1>8, <1>9, <1>14, <2>1, <3>1 DEF Live
    <2>2. CASE u = new
      <3>1. /\ tokens'[u].revoked = None /\ ~tokens'[u].replaced /\ tokens'[u].device = d
            /\ tokens'[u].expires = birth'[u].at + Lifetime
        BY <1>6, <1>9, <2>2 DEF NewRow
      <3>2. Fresh(u)'
        BY <1>6, <2>2, <3>1 DEF Fresh
      <3> QED
        BY <1>1, <1>9, <2>2, <3>1, <3>2 DEF Live, Accepted
    <2>3. CASE u # t /\ u \in Issued /\ u \notin ended
      <3>1. Live(u) /\ tokens'[u] = tokens[u] /\ u \in DOMAIN tokens'
        BY <1>9, <2>3 DEF Inv, Live
      <3>2. Replacements(u)' = Replacements(u) /\ birth'[u] = birth[u]
        BY <1>6, <2>3
      <3>3. \A r \in Replacements(u) : birth'[r] = birth[r] /\ r \in Issued'
        BY <1>6 DEF Replacements
      <3>4. Fresh(u) => Fresh(u)'
        BY <3>1, <3>2 DEF Fresh
      <3>5. Once(u) => Once(u)'
        BY <3>1, <3>2, <3>3 DEF Once
      <3>6. Twice(u) => Twice(u)'
        BY <3>1, <3>2, <3>3 DEF Twice
      <3> QED
        BY <1>1, <3>1, <3>2, <3>4, <3>5, <3>6 DEF Live
    <2> QED
      BY <1>1, <1>6, <2>1, <2>2, <2>3
  <1>16. ASSUME NEW u \in ended' PROVE Spent(u)'
    <2>1. u \in ended /\ u # t /\ u # new
      BY <1>1, <1>7, <1>16 DEF Inv, SessionsTypeOK
    <2> QED
      BY <1>1, <1>9, <2>1 DEF Inv, Spent
  <1>17. ASSUME NEW u \in Issued' PROVE Close(u)'
    <2>1. CASE u \in Issued /\ u # t
      <3>1. Replacements(u)' = Replacements(u)
        BY <1>6, <2>1
      <3>2. \A r \in Replacements(u) : birth'[r] = birth[r] /\ r \in Issued'
        BY <1>6 DEF Replacements
      <3> QED
        BY <2>1, <3>1, <3>2 DEF Inv, Close
    <2>2. CASE u = new
      BY <1>6, <2>2 DEF Close
    <2> QED
      BY <1>6, <1>14, <2>1, <2>2
  <1>18. PushOnlyToPaired'
    BY <1>1 DEF Inv, PushOnlyToPaired
  <1> QED
    BY <1>5, <1>15, <1>16, <1>17, <1>18 DEF Inv

LEMMA PairStep ==
    ASSUME Inv, NEW d \in Device, Pair(d)
    PROVE  Inv'
  <1> DEFINE rows == Ended(d)
  <1>1. /\ IssueToken(d, None, rows) /\ ended' = ended \cup TokensOf(d)
        /\ devices' = [devices EXCEPT ![d] = "active"]
        /\ UNCHANGED <<now, push, handlers>>
    BY DEF Pair
  <1>2. now \in Nat /\ None \notin Nat /\ \A u \in DOMAIN tokens : tokens[u] \in Row
    BY SessionAssumption DEF Inv, SessionsTypeOK
  <1>3. /\ DOMAIN rows = DOMAIN tokens
        /\ \A u \in DOMAIN tokens : tokens[u].device # d => rows[u] = tokens[u]
        /\ \A u \in DOMAIN tokens : rows[u] \in Row /\ rows[u].device = tokens[u].device
        /\ \A u \in TokensOf(d) : rows[u].revoked = now /\ ~rows[u].replaced
    BY <1>2 DEF Ended, TokensOf, Row
  <1> HIDE DEF rows
  <1>4. SessionsTypeOK' /\ Past'
    <2>1. ended' \subseteq Issued
      BY <1>1 DEF Inv, SessionsTypeOK, TokensOf
    <2>2. /\ devices' \in [Device -> {"none", "active", "revoked"}] /\ devices'[d] = "active"
          /\ \A e \in Device : devices'[e] = "none" => devices[e] = "none"
      BY <1>1 DEF Inv, SessionsTypeOK
    <2> QED
      BY <1>1, <1>3, <2>1, <2>2, IssueTypes DEF Inv
  <1>5. PICK new \in Token \ Issued : IssuedAs(new, d, None, rows)
    BY <1>1, IssueHistory DEF Inv
  <1> USE <1>5 DEF IssuedAs
  <1>6. \A u \in Issued : Replacements(u)' = Replacements(u)
    BY SessionAssumption DEF Inv, SessionsTypeOK
  <1>7. \A u \in Issued : \A r \in Replacements(u) : birth'[r] = birth[r] /\ r \in Issued'
    BY DEF Replacements
  <1>8. \A u \in DOMAIN tokens : u # new /\ tokens'[u] = rows[u] /\ tokens[u].device \in Device
    BY <1>2, <1>3 DEF Inv, SessionsTypeOK, Row
  <1>9. ASSUME NEW u \in Issued' PROVE u \in ended' \/ Live(u)'
    <2>1. CASE u = new
      <3>1. /\ tokens'[u].revoked = None /\ ~tokens'[u].replaced /\ tokens'[u].device = d
            /\ tokens'[u].expires = birth'[u].at + Lifetime /\ u \in DOMAIN tokens'
        BY <1>5, <2>1 DEF NewRow
      <3>2. Fresh(u)'
        BY <2>1, <3>1 DEF Fresh
      <3>3. devices'[d] = "active"
        BY <1>1 DEF Inv, SessionsTypeOK
      <3> QED
        BY <3>1, <3>2, <3>3 DEF Live
    <2>2. CASE u \in Issued /\ u \notin ended'
      <3>1. Live(u) /\ u \notin TokensOf(d)
        BY <1>1, <2>2 DEF Inv
      <3>2. u \in DOMAIN tokens' /\ tokens'[u] = tokens[u] /\ tokens[u].device # d
        BY <1>3, <1>8, <3>1 DEF Live, TokensOf
      <3>3. devices'[tokens[u].device] = "active"
        BY <1>1, <3>1, <3>2 DEF Live, Inv, SessionsTypeOK
      <3>4. Replacements(u)' = Replacements(u) /\ birth'[u] = birth[u]
        BY <1>6, <2>2
      <3>5. Fresh(u) => Fresh(u)'
        BY <3>2, <3>4 DEF Fresh
      <3>6. Once(u) => Once(u)'
        BY <1>7, <2>2, <3>2, <3>4 DEF Once
      <3>7. Twice(u) => Twice(u)'
        BY <1>7, <2>2, <3>2, <3>4 DEF Twice
      <3> QED
        BY <3>1, <3>2, <3>3, <3>4, <3>5, <3>6, <3>7 DEF Live
    <2> QED
      BY <2>1, <2>2
  <1>10. ASSUME NEW u \in ended' PROVE Spent(u)'
    <2>1. u # new
      BY <1>1 DEF Inv, SessionsTypeOK, TokensOf
    <2>2. CASE u \in TokensOf(d)
      BY <1>2, <1>3, <1>8, <2>2 DEF Spent, TokensOf
    <2>3. CASE u \notin TokensOf(d) /\ u \in DOMAIN tokens
      <3>1. u \in ended /\ tokens[u].device # d /\ tokens'[u] = tokens[u]
        BY <1>1, <1>3, <1>8, <2>3 DEF TokensOf
      <3>2. devices'[tokens[u].device] = devices[tokens[u].device]
        BY <1>1, <1>8, <2>3, <3>1 DEF Inv, SessionsTypeOK
      <3> QED
        BY <2>3, <3>1, <3>2 DEF Inv, Spent
    <2>4. CASE u \notin DOMAIN tokens
      BY <1>3, <2>1, <2>4 DEF Spent
    <2> QED
      BY <2>2, <2>3, <2>4
  <1>11. ASSUME NEW u \in Issued' PROVE Close(u)'
    <2>1. CASE u \in Issued
      BY <1>6, <1>7, <2>1 DEF Inv, Close
    <2>2. CASE u = new
      BY <2>2 DEF Close
    <2> QED
      BY <2>1, <2>2
  <1>12. PushOnlyToPaired'
    BY <1>1 DEF Inv, PushOnlyToPaired, SessionsTypeOK
  <1> QED
    BY <1>4, <1>9, <1>10, <1>11, <1>12 DEF Inv

\* A step that issues no token, and after which every session that lasts is as it was.
LEMMA NothingIssued ==
    ASSUME Inv, SessionsTypeOK', UNCHANGED birth, now' >= now, ended \subseteq ended',
           \A t \in Issued \ ended' : t \in DOMAIN tokens' /\ tokens'[t] = tokens[t]
                                       /\ devices'[tokens[t].device] = "active",
           \A t \in ended' : Spent(t)', PushOnlyToPaired'
    PROVE  Inv'
  <1>1. Issued' = Issued /\ \A t \in Issued : Replacements(t)' = Replacements(t)
    BY DEF Issued, Replacements
  <1>2. Past'
    BY <1>1 DEF Inv, Past, SessionsTypeOK
  <1>3. ASSUME NEW t \in Issued \ ended' PROVE Live(t)'
    <2>1. Live(t) /\ tokens'[t] = tokens[t] /\ t \in DOMAIN tokens'
      BY DEF Inv
    <2>2. (Fresh(t) => Fresh(t)') /\ (Once(t) => Once(t)') /\ (Twice(t) => Twice(t)')
      BY <1>1, <2>1 DEF Fresh, Once, Twice
    <2> QED
      BY <2>1, <2>2 DEF Live
  <1>4. \A t \in Issued' : Close(t)'
    BY <1>1 DEF Inv, Close
  <1> QED
    BY <1>1, <1>2, <1>3, <1>4 DEF Inv

LEMMA LogoutStep ==
    ASSUME Inv, NEW h \in handlers, Logout(h)
    PROVE  Inv'
  <1>1. UNCHANGED <<now, devices, push, birth>> /\ handlers' \subseteq handlers
    BY DEF Logout
  <1>2. now \in Nat /\ None \notin Nat /\ \A u \in DOMAIN tokens : tokens[u] \in Row
    BY SessionAssumption DEF Inv, SessionsTypeOK
  <1>3. PushOnlyToPaired'
    BY <1>1 DEF Inv, PushOnlyToPaired
  <1>4. CASE h.by \notin DOMAIN tokens
    <2>1. UNCHANGED <<tokens, ended>>
      BY <1>4 DEF Logout
    <2>2. SessionsTypeOK'
      BY <1>1, <2>1 DEF Inv, SessionsTypeOK, Issued
    <2>3. \A t \in ended' : Spent(t)'
      BY <1>1, <2>1 DEF Inv, Spent
    <2>4. \A t \in Issued \ ended' : t \in DOMAIN tokens' /\ tokens'[t] = tokens[t]
                                       /\ devices'[tokens[t].device] = "active"
      BY <1>1, <2>1 DEF Inv, Live
    <2> QED
      BY <1>1, <1>2, <1>3, <2>1, <2>2, <2>3, <2>4, NothingIssued
  <1>5. CASE h.by \in DOMAIN tokens
    <2> DEFINE d == tokens[h.by].device
    <2>1. tokens' = Ended(d) /\ ended' = ended \cup TokensOf(d)
      BY <1>5 DEF Logout
    <2> HIDE DEF d
    <2>2. /\ DOMAIN tokens' = DOMAIN tokens
          /\ \A u \in DOMAIN tokens : tokens[u].device # d => tokens'[u] = tokens[u]
          /\ \A u \in DOMAIN tokens : tokens'[u] \in Row /\ tokens'[u].device = tokens[u].device
          /\ \A u \in TokensOf(d) : tokens'[u].revoked = now /\ ~tokens'[u].replaced
      BY <1>2, <2>1 DEF Ended, TokensOf, Row
    <2>3. SessionsTypeOK'
      BY <1>1, <2>1, <2>2 DEF Inv, SessionsTypeOK, Issued, TokensOf
    <2>4. ASSUME NEW t \in ended' PROVE Spent(t)'
      BY <1>1, <1>2, <2>1, <2>2 DEF Inv, Spent, TokensOf
    <2>5. \A t \in Issued \ ended' : t \in DOMAIN tokens' /\ tokens'[t] = tokens[t]
                                       /\ devices'[tokens[t].device] = "active"
      BY <1>1, <2>1, <2>2 DEF Inv, Live, TokensOf
    <2> QED
      BY <1>1, <1>2, <1>3, <2>1, <2>3, <2>4, <2>5, NothingIssued
  <1> QED
    BY <1>4, <1>5

LEMMA RevokeStep ==
    ASSUME Inv, NEW h \in handlers, Revoke(h)
    PROVE  Inv'
  <1> DEFINE d == h.device
  <1>1. /\ UNCHANGED <<now, birth>> /\ handlers' \subseteq handlers
        /\ devices' = [devices EXCEPT ![d] = IF @ = "active" THEN "revoked" ELSE @]
        /\ tokens' = Withdrawn(d) /\ push' = push \ {d} /\ ended' = ended \cup TokensOf(d)
    BY DEF Revoke
  <1>2. d \in Device
    BY DEF Revoke, Inv, SessionsTypeOK, Handler
  <1> HIDE DEF d
  <1>3. now \in Nat /\ None \notin Nat /\ \A u \in DOMAIN tokens : tokens[u] \in Row
    BY SessionAssumption DEF Inv, SessionsTypeOK
  <1>4. /\ DOMAIN tokens' = DOMAIN tokens
        /\ \A u \in DOMAIN tokens : tokens[u].device # d => tokens'[u] = tokens[u]
        /\ \A u \in DOMAIN tokens : tokens'[u] \in Row /\ tokens'[u].device = tokens[u].device
    BY <1>1, <1>3 DEF Withdrawn, Row
  <1>5. /\ devices' \in [Device -> {"none", "active", "revoked"}] /\ devices'[d] # "active"
        /\ \A e \in Device : (e # d => devices'[e] = devices[e])
                              /\ (devices'[e] = "none" => devices[e] = "none")
    BY <1>1, <1>2 DEF Inv, SessionsTypeOK
  <1>6. SessionsTypeOK'
    BY <1>1, <1>3, <1>4, <1>5 DEF Inv, SessionsTypeOK, Issued, TokensOf, Row
  <1>7. \A u \in DOMAIN tokens : tokens[u].device \in Device
    BY <1>3 DEF Row
  <1>8. ASSUME NEW t \in ended' PROVE Spent(t)'
    BY <1>1, <1>4, <1>5, <1>7 DEF Inv, Spent, TokensOf
  <1>9. ASSUME NEW t \in Issued \ ended'
        PROVE  t \in DOMAIN tokens' /\ tokens'[t] = tokens[t] /\ devices'[tokens[t].device] = "active"
    <2>1. Live(t) /\ t \notin TokensOf(d)
      BY <1>1 DEF Inv
    <2> QED
      BY <1>4, <1>5, <1>7, <2>1 DEF Live, TokensOf
  <1>10. PushOnlyToPaired'
    BY <1>1, <1>5 DEF Inv, SessionsTypeOK, PushOnlyToPaired
  <1> QED
    BY <1>1, <1>3, <1>6, <1>8, <1>9, <1>10, NothingIssued

LEMMA DeleteStep ==
    ASSUME Inv, NEW ds \in SUBSET Device, DeleteRevoked(ds)
    PROVE  Inv'
  <1>1. /\ \A d \in ds : devices[d] = "revoked"
        /\ devices' = [d \in Device |-> IF d \in ds THEN "none" ELSE devices[d]]
        /\ tokens' = [t \in {u \in DOMAIN tokens : tokens[u].device \notin ds} |-> tokens[t]]
        /\ push' = push \ ds
        /\ UNCHANGED <<now, handlers, birth, ended>>
    BY DEF DeleteRevoked
  <1>2. now \in Nat /\ \A u \in DOMAIN tokens : tokens[u] \in Row /\ tokens[u].device \in Device
    BY DEF Inv, SessionsTypeOK, Row
  <1>3. SessionsTypeOK'
    BY <1>1, <1>2 DEF Inv, SessionsTypeOK, Issued
  <1>4. \A t \in ended' : Spent(t)'
    BY <1>1, <1>2 DEF Inv, Spent
  <1>5. ASSUME NEW t \in Issued \ ended'
        PROVE  t \in DOMAIN tokens' /\ tokens'[t] = tokens[t] /\ devices'[tokens[t].device] = "active"
    <2>1. Live(t)
      BY <1>1 DEF Inv
    <2>2. tokens[t].device \in Device \ ds
      BY <1>1, <1>2, <2>1 DEF Live
    <2> QED
      BY <1>1, <2>1, <2>2 DEF Live
  <1>6. PushOnlyToPaired'
    BY <1>1 DEF Inv, SessionsTypeOK, PushOnlyToPaired
  <1> QED
    BY <1>1, <1>2, <1>3, <1>4, <1>5, <1>6, NothingIssued

LEMMA OtherStep ==
    ASSUME Inv,
           \/ \E t \in DOMAIN tokens : Verify(t)
           \/ \E d \in Device : AskRevocation(d)
           \/ \E h \in handlers : Subscribe(h) \/ Unregister(h)
           \/ Tick \/ UNCHANGED sessionsVars
    PROVE  Inv'
  <1>1. UNCHANGED <<devices, tokens, birth, ended>> /\ now' \in Nat /\ now' >= now
    <2>1. now \in Nat
      BY DEF Inv, SessionsTypeOK
    <2>2. CASE \E t \in DOMAIN tokens : Verify(t)
      BY <2>1, <2>2 DEF Verify, Handle
    <2>3. CASE \E d \in Device : AskRevocation(d)
      BY <2>1, <2>3 DEF AskRevocation, Handle
    <2>4. CASE \E h \in handlers : Subscribe(h) \/ Unregister(h)
      BY <2>1, <2>4 DEF Subscribe, Unregister
    <2>5. CASE Tick \/ UNCHANGED sessionsVars
      BY <2>1, <2>5 DEF Tick, sessionsVars
    <2> QED
      BY <2>2, <2>3, <2>4, <2>5
  <1>2. handlers' \subseteq Handler
    <2>1. CASE \E t \in DOMAIN tokens : Verify(t)
      BY <2>1 DEF Verify, Handle, Handler, Inv, SessionsTypeOK, Row
    <2>2. CASE \E d \in Device : AskRevocation(d)
      BY <2>2 DEF AskRevocation, Handle, Handler, Inv, SessionsTypeOK
    <2>3. CASE \E h \in handlers : Subscribe(h) \/ Unregister(h)
      <3>1. PICK h \in handlers : Subscribe(h) \/ Unregister(h)
        BY <2>3
      <3>2. h \in Handler
        BY <3>1 DEF Inv, SessionsTypeOK
      <3>3. h.op # "logout" => h.device \in Device
        BY <3>2 DEF Handler
      <3> QED
        BY <3>1, <3>3 DEF Subscribe, Unregister, Handler, Inv, SessionsTypeOK
    <2>4. CASE Tick \/ UNCHANGED sessionsVars
      BY <2>4 DEF Tick, sessionsVars, Inv, SessionsTypeOK
    <2> QED
      BY <2>1, <2>2, <2>3, <2>4
  <1>3. push' \subseteq Device /\ PushOnlyToPaired'
    <2>1. CASE \E h \in handlers : Subscribe(h)
      <3>1. PICK h \in handlers : Subscribe(h)
        BY <2>1
      <3>2. h.op = "subscribe" /\ h \in Handler
        BY <3>1 DEF Subscribe, Inv, SessionsTypeOK
      <3>3. h.device \in Device
        BY <3>2 DEF Handler
      <3> QED
        BY <1>1, <3>1, <3>3 DEF Subscribe, Inv, SessionsTypeOK, PushOnlyToPaired
    <2>2. CASE ~\E h \in handlers : Subscribe(h)
      BY <1>1, <2>2 DEF Verify, AskRevocation, Unregister, Tick, sessionsVars, Inv, SessionsTypeOK, PushOnlyToPaired
    <2> QED
      BY <2>1, <2>2
  <1>4. SessionsTypeOK'
    BY <1>1, <1>2, <1>3 DEF Inv, SessionsTypeOK, Issued
  <1>5. \A t \in ended' : Spent(t)'
    BY <1>1 DEF Inv, Spent
  <1>6. \A t \in Issued \ ended' : t \in DOMAIN tokens' /\ tokens'[t] = tokens[t]
                                     /\ devices'[tokens[t].device] = "active"
    BY <1>1 DEF Inv, Live
  <1> QED
    BY <1>1, <1>3, <1>4, <1>5, <1>6, NothingIssued

-----------------------------------------------------------------------------
(* Theorems. *)

LEMMA InvInit == SessionsInit => Inv
  <1> SUFFICES ASSUME SessionsInit PROVE Inv
    OBVIOUS
  <1>1. Issued = {} /\ DOMAIN tokens = {} /\ ended = {} /\ push = {}
    BY DEF SessionsInit, Issued
  <1>2. SessionsTypeOK
    BY <1>1 DEF SessionsInit, SessionsTypeOK
  <1> QED
    BY <1>1, <1>2 DEF Inv, Past, PushOnlyToPaired

LEMMA InvAlways == SessionsSpec => []Inv
  <1>1. ASSUME Inv, [SessionsNext]_sessionsVars PROVE Inv'
    <2>1. ASSUME NEW t \in DOMAIN tokens, Rotate(t) PROVE Inv'
      BY <1>1, <2>1, RotateStep
    <2>2. ASSUME NEW d \in Device, Pair(d) PROVE Inv'
      BY <1>1, <2>2, PairStep
    <2>3. ASSUME NEW h \in handlers, Logout(h) \/ Revoke(h) PROVE Inv'
      BY <1>1, <2>3, LogoutStep, RevokeStep
    <2>4. CASE Delete
      <3>1. PICK ds \in SUBSET Device : DeleteRevoked(ds)
        BY <2>4 DEF Delete
      <3> QED
        BY <1>1, <3>1, DeleteStep
    <2> QED
      BY <1>1, <2>1, <2>2, <2>3, <2>4, OtherStep DEF SessionsNext
  <1> QED
    BY <1>1, InvInit, PTL DEF SessionsSpec

\* The rows keep their types, and each refers to a device that is there.
THEOREM SessionTypes == SessionsSpec => []SessionsTypeOK
  <1>1. Inv => SessionsTypeOK
    BY DEF Inv
  <1> QED
    BY <1>1, InvAlways, PTL

\* No token of a session that has ended is accepted again (api/v1/store.py
\* rotate_refresh_token, active_token_session), in any order of requests.
THEOREM EndedForGood == SessionsSpec => []EndedStaysEnded
  <1>1. ASSUME Inv, NEW t \in ended PROVE ~Accepted(t) /\ ~Session(t)
    <2>1. t \in DOMAIN tokens => tokens[t].replaced \in BOOLEAN
      BY <1>1 DEF Inv, SessionsTypeOK, Row
    <2> QED
      BY <1>1, <2>1 DEF Inv, Spent, Accepted, Session, RecoveryRetry
  <1>2. Inv => EndedStaysEnded
    BY <1>1 DEF EndedStaysEnded
  <1> QED
    BY <1>2, InvAlways, PTL

\* A refresh whose answer was lost can be repeated once within the grace period
\* (api/docs/Mobile_API_v1.md 22, 135).
THEOREM RetryIsAccepted == SessionsSpec => []RetryWorks
  <1>1. ASSUME Inv, NEW t \in Issued \ ended, now < birth[t].at + Lifetime,
               \A r \in Replacements(t) : Replacements(t) = {r} /\ now - birth[r].at <= Grace
        PROVE  Accepted(t)
    <2>1. Live(t)
      BY <1>1 DEF Inv
    <2>2. tokens[t].expires > now
      BY <1>1, <2>1, SessionAssumption DEF Live, Inv, SessionsTypeOK
    <2>3. CASE Fresh(t)
      BY <2>1, <2>2, <2>3 DEF Live, Fresh, Accepted
    <2>4. CASE Once(t)
      BY <1>1, <2>1, <2>2, <2>4, SessionAssumption DEF Live, Once, Accepted, RecoveryRetry, Inv,
            SessionsTypeOK
    <2>5. ~Twice(t)
      BY <1>1 DEF Twice
    <2> QED
      BY <2>1, <2>3, <2>4, <2>5 DEF Live
  <1>2. Inv => RetryWorks
    BY <1>1 DEF RetryWorks
  <1> QED
    BY <1>2, InvAlways, PTL

\* And no more often nor later: a token has at most two replacements.
THEOREM RecoversOnce == SessionsSpec => []RecoveredOnce
  <1>1. ASSUME Inv, NEW t \in Issued
        PROVE  /\ \A r, s \in Replacements(t) : birth[r].at - birth[s].at <= Grace
               /\ \A r, s, u \in Replacements(t) : r = s \/ s = u \/ r = u
    <2>1. Close(t)
      BY <1>1 DEF Inv
    <2>2. \A r \in Issued : birth[r].at - birth[r].at <= Grace
      BY <1>1, SessionAssumption DEF Inv, SessionsTypeOK
    <2> QED
      BY <2>1, <2>2 DEF Close
  <1>2. Inv => RecoveredOnce
    BY <1>1 DEF RecoveredOnce
  <1> QED
    BY <1>2, InvAlways, PTL

\* Rotation does not disturb requests in flight: an access token of a session that lasts
\* is valid until it expires.
THEOREM AccessIsKept == SessionsSpec => []AccessKept
  <1>1. ASSUME Inv, NEW t \in Issued \ ended, now < birth[t].at + AccessLife
        PROVE  Session(t)
    <2>1. Live(t)
      BY <1>1 DEF Inv
    <2>2. tokens[t].expires > now
      BY <1>1, <2>1, SessionAssumption DEF Live, Inv, SessionsTypeOK
    <2> QED
      BY <1>1, <2>1, <2>2 DEF Live, Fresh, Once, Twice, Session
  <1>2. Inv => AccessKept
    BY <1>1 DEF AccessKept
  <1> QED
    BY <1>2, InvAlways, PTL

\* A subscription made or removed in any order with a revocation leaves none of a device
\* that is not paired (save_push_subscription, push.py unregister, revoke_device).
THEOREM PushIsToPaired == SessionsSpec => []PushOnlyToPaired
  <1>1. Inv => PushOnlyToPaired
    BY DEF Inv
  <1> QED
    BY <1>1, InvAlways, PTL
===============================================================================

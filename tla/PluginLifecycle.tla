----------------------------- MODULE PluginLifecycle -----------------------------
(***************************************************************************)
(* Starting, stopping, restarting and updating plug-ins: the lifecycle     *)
(* part of plugins/__init__.py with the pages and the API that use it.     *)
(*                                                                         *)
(* stop_plugin, start_plugin, reload_plugin and _install_plugin hold the   *)
(* lifecycle lock; start_enabled_plugins, which every change of the        *)
(* enabled plug-ins ends with, takes it for each plug-in anew and works    *)
(* from a copy of what was enabled.  Handlers change options.enabled_      *)
(* plugins without the lock.                                               *)
(*                                                                         *)
(* A plug-in has one worker thread, started by plugin.start() with the     *)
(* shared runtime; workers share the I2C bus (I2CGuard), and one that      *)
(* waits for it or uses it may outlive the time a stop waits for it.       *)
(*                                                                         *)
(* Abstracted: the order of the plug-ins where dependencies leave it open, *)
(* the reasons for which a start fails (approval, preflight, compatibility *)
(* and the plug-in itself) and the files of an update.  Not modelled:      *)
(* cycles of dependencies, deletion of plug-ins, threads that a plug-in    *)
(* starts without registering them.                                        *)
(***************************************************************************)
EXTENDS I2CGuard, Sequences

CONSTANTS
    Module,
    Requires,      \* module -> its required dependencies
    Prefers,       \* module -> its optional dependencies
    Client,        \* handlers of pages and of the API
    MaxRequests,   \* bound on the requests
    NoClient, NoModule

ASSUME PluginAssumption ==
    /\ Requires \in [Module -> SUBSET Module] /\ Prefers \in [Module -> SUBSET Module]
    /\ MaxRequests \in Nat /\ NoClient \notin Client /\ NoModule \notin Module
    /\ User = Module \X {1, 2}

Depends(m) == Requires[m] \cup Prefers[m]

\* Among any plug-ins there is one that depends on none of the others.
ASSUME NoCycles == \A S \in SUBSET Module : S # {} => \E m \in S : Depends(m) \cap S = {}

VARIABLES
    enabled,    \* options.enabled_plugins
    running,    \* __running
    lock,       \* the holder of _plugin_lifecycle_lock
    phase,      \* what a client does
    job,        \* the operation it does
    copy,       \* the enabled plug-ins as it has read them
    todo,       \* the plug-ins it has still to stop or to start
    current,    \* the plug-in it stops, or starts next
    stack,      \* the plug-ins being started, with the dependencies still to be looked at:
                \* each waits for the next one
    requests,
    raced       \* history: plug-ins disabled while they were being started, or, when they
                \* ran, by a failed installation

local == <<phase, job, copy, todo, current, stack>>
vars == <<busVars, enabled, running, lock, local, requests, raced>>

Phases == {"idle", "copied", "read", "survey", "stops", "starts",
           "unpacking", "stopping", "enter", "frames", "called", "returned"}
Jobs == {"reconcile", "restart", "update", "install", "rollback"}

Frame == [module : Module, left : SUBSET Module]

TypeOK ==
    /\ BusTypeOK
    /\ enabled \subseteq Module /\ running \subseteq Module /\ raced \subseteq Module
    /\ lock \in Client \cup {NoClient}
    /\ phase \in [Client -> Phases] /\ job \in [Client -> Jobs]
    /\ copy \in [Client -> SUBSET Module] /\ todo \in [Client -> SUBSET Module]
    /\ current \in [Client -> Module \cup {NoModule}]
    /\ stack \in [Client -> Seq(Frame)]
    /\ requests \in 0 .. MaxRequests
    \* the lock is held exactly while a plug-in is updated, stopped or started
    /\ \A c \in Client :
          lock = c <=> \/ phase[c] \in {"unpacking", "stopping", "frames", "called", "returned"}
                       \/ (phase[c] = "enter" /\ job[c] # "reconcile")

Go(c, p) == phase' = [phase EXCEPT ![c] = p]
Top(c) == stack[c][Len(stack[c])].module
BeingStarted == UNION {{stack[c][i].module : i \in DOMAIN stack[c]} : c \in Client}
Workers(m) == {u \in User : u[1] = m /\ at[u] # "none"}

\* A handler, or a failed start, changes what is enabled.
SetEnabled(new) ==
    /\ enabled' = new
    /\ raced' = (raced \ new) \cup ((enabled \ new) \cap BeingStarted)

-----------------------------------------------------------------------------
(* Requests. *)

Request(c) == phase[c] = "idle" /\ requests < MaxRequests /\ requests' = requests + 1

\* A page enables or disables a plug-in, or all of them.
Change(c) ==
    /\ Request(c)
    /\ \/ \E m \in Module : SetEnabled(enabled \cup {m}) \/ SetEnabled(enabled \ {m})
       \/ SetEnabled(Module) \/ SetEnabled({})
    /\ Go(c, "read")
    /\ UNCHANGED <<busVars, running, lock, job, copy, todo, current, stack>>

\* The API works on a copy of the enabled plug-ins and writes it back.
CopyEnabled(c) ==
    /\ Request(c)
    /\ copy' = [copy EXCEPT ![c] = enabled]
    /\ Go(c, "copied")
    /\ UNCHANGED <<busVars, enabled, running, lock, job, todo, current, stack, raced>>

WriteCopy(c) ==
    /\ phase[c] = "copied"
    /\ \E m \in Module : SetEnabled(copy[c] \cup {m}) \/ SetEnabled(copy[c] \ {m})
    /\ Go(c, "read")
    /\ UNCHANGED <<busVars, running, lock, job, copy, todo, current, stack, requests>>

-----------------------------------------------------------------------------
(* start_enabled_plugins. *)

ReadEnabled(c) ==
    /\ phase[c] = "read"
    /\ copy' = [copy EXCEPT ![c] = enabled] /\ Go(c, "survey")
    /\ UNCHANGED <<busVars, enabled, running, lock, job, todo, current, stack, requests, raced>>

\* To stop: what runs and was not enabled, or requires something that was not.
Survey(c) ==
    /\ phase[c] = "survey"
    /\ todo' = [todo EXCEPT ![c] = {m \in running : ~({m} \cup Requires[m] \subseteq copy[c])}]
    /\ Go(c, "stops")
    /\ UNCHANGED <<busVars, enabled, running, lock, job, copy, current, stack, requests, raced>>

LockFree(c) == lock \in {NoClient, c}

\* Mutant: a plug-in is stopped without the lock.
StopNextUnlocked(c) ==
    /\ phase[c] = "stops"
    /\ \E m \in todo[c] :
          /\ \A n \in todo[c] : m \notin Depends(n)
          /\ todo' = [todo EXCEPT ![c] = @ \ {m}]
          /\ running' = running \ {m}
    /\ UNCHANGED <<busVars, lock, phase, current, enabled, job, copy, stack, requests, raced>>

\* stop_plugin, for a plug-in no other one to be stopped depends on.
StopNext(c) ==
    /\ phase[c] = "stops" /\ LockFree(c)
    /\ \E m \in todo[c] :
          /\ \A n \in todo[c] : m \notin Depends(n)
          /\ todo' = [todo EXCEPT ![c] = @ \ {m}]
          /\ IF m \in running
               THEN lock' = c /\ current' = [current EXCEPT ![c] = m] /\ Go(c, "stopping")
               ELSE UNCHANGED <<lock, current, phase>>
    /\ UNCHANGED <<busVars, enabled, running, job, copy, stack, requests, raced>>

PlanStarts(c) ==
    /\ phase[c] = "stops" /\ todo[c] = {}
    /\ todo' = [todo EXCEPT ![c] = copy[c]] /\ copy' = [copy EXCEPT ![c] = {}] /\ Go(c, "starts")
    /\ UNCHANGED <<busVars, enabled, running, lock, job, current, stack, requests, raced>>

\* The next plug-in, in the order of dependencies; it is skipped if it runs, or if something
\* it requires does not.
StartNext(c) ==
    /\ phase[c] = "starts"
    /\ \E m \in todo[c] :
          /\ todo[c] \cap Depends(m) = {}
          /\ todo' = [todo EXCEPT ![c] = @ \ {m}]
          /\ IF m \notin running /\ Requires[m] \subseteq running
               THEN current' = [current EXCEPT ![c] = m] /\ Go(c, "enter")
               ELSE UNCHANGED <<current, phase>>
    /\ UNCHANGED <<busVars, enabled, running, lock, job, copy, stack, requests, raced>>

EndReconcile(c) ==
    /\ phase[c] = "starts" /\ todo[c] = {}
    /\ Go(c, "idle")
    /\ UNCHANGED <<busVars, enabled, running, lock, job, copy, todo, current, stack, requests, raced>>

-----------------------------------------------------------------------------
(* Restarts and updates hold the lock from beginning to end. *)

\* reload_plugin, from the page of diagnostics.
Restart(c, m) ==
    /\ Request(c) /\ m \in running /\ LockFree(c) /\ lock' = c
    /\ current' = [current EXCEPT ![c] = m]
    /\ Go(c, "stopping") /\ job' = [job EXCEPT ![c] = "restart"]
    /\ UNCHANGED <<busVars, enabled, running, copy, todo, stack, raced>>

\* _install_plugin_locked: whether the plug-in is enabled is read once, here.
Update(c, m) ==
    /\ Request(c) /\ LockFree(c) /\ lock' = c
    /\ current' = [current EXCEPT ![c] = m]
    /\ Go(c, "unpacking")
    /\ job' = [job EXCEPT ![c] = IF m \in enabled THEN "update" ELSE "install"]
    /\ UNCHANGED <<busVars, enabled, running, copy, todo, stack, raced>>

\* The new version is unpacked and the plug-in stopped; or that has failed, and it is
\* enabled as it was and restarted.
EndUnpack(c) ==
    /\ phase[c] = "unpacking" /\ job[c] = "update"
    /\ \/ UNCHANGED <<job, enabled, raced>>
       \/ job' = [job EXCEPT ![c] = "restart"] /\ SetEnabled(enabled \cup {current[c]})
    /\ Go(c, "stopping")
    /\ UNCHANGED <<busVars, running, lock, copy, todo, current, stack, requests>>

\* After a failure: the former version is there again, enabled and to be started.
Rollback(c) ==
    /\ SetEnabled(enabled \cup {current[c]})
    /\ job' = [job EXCEPT ![c] = "rollback"] /\ Go(c, "enter") /\ UNCHANGED <<lock, current>>

Unlock(c, p) ==
    /\ lock' = NoClient /\ Go(c, p)
    /\ current' = [current EXCEPT ![c] = NoModule] /\ job' = [job EXCEPT ![c] = "reconcile"]

\* A plug-in that was not enabled is neither stopped nor started.  After a failure it is
\* disabled, though another handler may have enabled it since and seen it running.
EndInstall(c) ==
    /\ phase[c] = "unpacking" /\ job[c] = "install"
    /\ Unlock(c, "idle")
    /\ \/ UNCHANGED <<enabled, raced>>
       \/ /\ enabled' = enabled \ {current[c]}
          /\ raced' = raced \cup (enabled \cap running \cap {current[c]})
    /\ UNCHANGED <<busVars, running, copy, todo, stack, requests>>

\* What follows a stop.
Stopped(c) ==
    \/ /\ job[c] = "reconcile" /\ Unlock(c, "stops")
       /\ UNCHANGED enabled /\ raced' = raced \ {current[c]}
    \/ /\ job[c] # "reconcile" /\ Go(c, "enter")
       /\ UNCHANGED <<enabled, job, lock, current>> /\ raced' = raced \ {current[c]}
    \* the new version must not be activated
    \/ /\ job[c] = "update" /\ Unlock(c, "idle")
       /\ SetEnabled(enabled \ {current[c]})
    \* the files cannot be exchanged
    \/ job[c] = "update" /\ Rollback(c)

\* Mutant: a stop waits until the threads have ended.
EndStopWaits(c) ==
    /\ phase[c] = "stopping" /\ Workers(current[c]) = {}
    /\ running' = running \ {current[c]}
    /\ Stopped(c)
    /\ UNCHANGED <<busVars, copy, todo, stack, requests>>

\* _stop_plugin_locked returns: the threads have ended, or there was no more time to wait.
EndStop(c) ==
    /\ phase[c] = "stopping"
    /\ running' = running \ {current[c]}
    /\ Stopped(c)
    /\ UNCHANGED <<busVars, copy, todo, stack, requests>>

-----------------------------------------------------------------------------
(* _start_plugin_locked *)

\* Mutant: what was enabled is not looked up again.
StartableAsRead(c) == current[c] \notin running /\ (job[c] = "reconcile" \/ current[c] \in enabled)

Startable(c) == current[c] \in enabled \ running

NewFrame(m) == [module |-> m, left |-> Depends(m)]

Enter(c) ==
    /\ phase[c] = "enter" /\ LockFree(c) /\ lock' = c
    /\ IF Startable(c)
         THEN stack' = [stack EXCEPT ![c] = <<NewFrame(current[c])>>] /\ Go(c, "frames")
         ELSE UNCHANGED stack /\ Go(c, "returned")
    /\ UNCHANGED <<busVars, enabled, running, job, copy, todo, current, requests, raced>>

\* A dependency is looked at once; one that is enabled and does not run is started first.
StartDependency(c) ==
    /\ phase[c] = "frames"
    /\ LET n == Len(stack[c]) IN
       \E d \in stack[c][n].left :
          LET looked == [stack[c] EXCEPT ![n].left = @ \ {d}] IN
          stack' = [stack EXCEPT ![c] =
                      IF d \in enabled \ running THEN Append(looked, NewFrame(d)) ELSE looked]
    /\ UNCHANGED <<busVars, enabled, running, lock, phase, job, copy, todo, current, requests, raced>>

\* Mutant: threads of a former start are not looked for.
NoneLingers(m) == TRUE

NoneLeft(m) == Workers(m) = {}

\* The checks have passed, plugin.start() is called and starts the worker.
Launch(c) ==
    LET m == Top(c) IN
    /\ phase[c] = "frames" /\ stack[c][Len(stack[c])].left = {} /\ Requires[m] \subseteq running /\ NoneLeft(m)
    /\ at' = [at EXCEPT ![IF at[<<m, 1>>] = "none" THEN <<m, 1>> ELSE <<m, 2>>] = "idle"]
    /\ Go(c, "called")
    /\ UNCHANGED <<active, queued, enabled, running, lock, job, copy, todo, current, stack, requests,
                   raced>>

Pop(c) ==
    /\ stack' = [stack EXCEPT ![c] = SubSeq(@, 1, Len(@) - 1)]
    /\ Go(c, IF Len(stack[c]) = 1 THEN "returned" ELSE "frames")

Started(c) ==
    /\ phase[c] = "called"
    /\ running' = running \cup {Top(c)} /\ Pop(c)
    /\ UNCHANGED <<busVars, enabled, lock, job, copy, todo, current, requests, raced>>

\* A check fails, or plugin.start() does: the plug-in is disabled.
StartFails(c) ==
    /\ phase[c] \in {"frames", "called"}
    /\ enabled' = enabled \ {Top(c)} /\ raced' = raced \ {Top(c)}
    /\ Pop(c)
    /\ UNCHANGED <<busVars, running, lock, job, copy, todo, current, requests>>

\* start_plugin returns; an update whose new version does not run is rolled back.
Return(c) ==
    /\ phase[c] = "returned"
    /\ IF job[c] = "update" /\ current[c] \notin running
         THEN Rollback(c)
         ELSE /\ Unlock(c, IF job[c] = "reconcile" THEN "starts" ELSE "idle")
              /\ UNCHANGED <<enabled, raced>>
    /\ UNCHANGED <<busVars, running, copy, todo, stack, requests>>

-----------------------------------------------------------------------------
(* Workers use the bus, and may end, stopped or not. *)

WorkerUsesBus ==
    /\ \E u \in User : BusStep(u)
    /\ UNCHANGED <<enabled, running, lock, local, requests, raced>>

WorkerEnds ==
    /\ \E u \in User : Move(u, "idle", "none")
    /\ UNCHANGED <<active, queued, enabled, running, lock, local, requests, raced>>

-----------------------------------------------------------------------------
Init ==
    /\ BusInit
    /\ enabled = {} /\ running = {} /\ raced = {} /\ lock = NoClient /\ requests = 0
    /\ phase = [c \in Client |-> "idle"] /\ job = [c \in Client |-> "reconcile"]
    /\ copy = [c \in Client |-> {}] /\ todo = copy
    /\ current = [c \in Client |-> NoModule] /\ stack = [c \in Client |-> <<>>]

ClientStep(c) ==
    \/ WriteCopy(c)
    \/ ReadEnabled(c) \/ Survey(c) \/ StopNext(c) \/ PlanStarts(c) \/ StartNext(c) \/ EndReconcile(c)
    \/ EndUnpack(c) \/ EndInstall(c) \/ EndStop(c)
    \/ Enter(c) \/ StartDependency(c) \/ Launch(c) \/ Started(c) \/ StartFails(c) \/ Return(c)

NewRequest(c) == Change(c) \/ CopyEnabled(c) \/ \E m \in Module : Restart(c, m) \/ Update(c, m)

Next ==
    \/ \E c \in Client : ClientStep(c) \/ NewRequest(c)
    \/ WorkerUsesBus \/ WorkerEnds

Spec == Init /\ [][Next]_vars

\* A handler goes on: a stop waits for a bounded time, and plugin.start() returns.
FairSpec == Spec /\ \A c \in Client : WF_vars(ClientStep(c))

-----------------------------------------------------------------------------
(* Properties. *)

\* No second copy of a plug-in is started while a thread of the first is left, however it
\* was stopped, restarted or updated (plugins/README.md:190).
OneCopy == \A m \in Module : Cardinality(Workers(m)) <= 1

\* A plug-in begins to run only while all that it requires runs: nobody stops a dependency
\* between the check and the end of the start.
RequiredFirst == [][\A m \in running' \ running : Requires[m] \subseteq running]_vars

\* When no handler is at work, nothing runs that is disabled - except what was disabled
\* while it was being started, which the handler that disabled it did not see running, and
\* what a failed installation disabled although it ran, which nobody is told to stop.
DisabledIsStopped ==
    (\A c \in Client : phase[c] = "idle") => running \subseteq enabled \cup raced

\* Every request is answered, also when threads do not end and plug-ins fail.
RequestsEnd == \A c \in Client : phase[c] # "idle" ~> phase[c] = "idle"
=============================================================================

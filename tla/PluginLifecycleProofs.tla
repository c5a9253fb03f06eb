------------------------- MODULE PluginLifecycleProofs -------------------------
(***************************************************************************)
(* Theorems about the plug-ins and their bus, for any plug-ins,            *)
(* dependencies without a cycle, handlers and requests.                    *)
(***************************************************************************)
EXTENDS PluginLifecycle, FiniteSetTheorems, SequenceTheorems, TLAPS

-----------------------------------------------------------------------------
(* The bus. *)

OnBus(u) == at[u] \in {"using", "settling"}
Waiting(l) == {u \in User : at[u] = "waiting" /\ Level(u) = l}

\* The bus is taken while a thread uses it or lets it settle, one at a time, and a queue
\* counts the threads that wait in it.
BusInv ==
    /\ at \in [User -> Places]
    /\ active \in BOOLEAN /\ (active <=> \E u \in User : OnBus(u))
    /\ \A u, v \in User : OnBus(u) /\ OnBus(v) => u = v
    /\ queued = [l \in 0 .. 2 |-> Cardinality(Waiting(l))]

\* The size of a queue.
LEMMA QueueSize ==
    ASSUME NEW l
    PROVE  /\ IsFiniteSet(Waiting(l)) /\ Cardinality(Waiting(l)) \in 0 .. Cardinality(User)
           /\ \A u \in User \ Waiting(l) :
                 Cardinality(Waiting(l) \cup {u}) = Cardinality(Waiting(l)) + 1
           /\ \A u \in Waiting(l) : Cardinality(Waiting(l) \ {u}) = Cardinality(Waiting(l)) - 1
  <1>1. IsFiniteSet(User) /\ Waiting(l) \subseteq User
    BY LevelAssumption DEF Waiting
  <1>2. IsFiniteSet(Waiting(l)) /\ Cardinality(Waiting(l)) <= Cardinality(User)
    BY <1>1, FS_Subset
  <1>3. Cardinality(Waiting(l)) \in Nat /\ Cardinality(User) \in Nat
    BY <1>1, <1>2, FS_CardinalityType
  <1>4. \A u \in User \ Waiting(l) :
            Cardinality(Waiting(l) \cup {u}) = Cardinality(Waiting(l)) + 1
    BY <1>2, FS_AddElement
  <1>5. \A u \in Waiting(l) : Cardinality(Waiting(l) \ {u}) = Cardinality(Waiting(l)) - 1
    BY <1>2, FS_RemoveElement
  <1> QED
    BY <1>2, <1>3, <1>4, <1>5

\* The invariant gives the types of the bus.
LEMMA BusTypes == BusInv => BusTypeOK
  BY QueueSize DEF BusInv, BusTypeOK

\* Who asks for the bus enters a queue, who gets it or gives up leaves it.
LEMMA BusStepKeeps ==
    ASSUME BusInv, NEW u \in User, BusStep(u)
    PROVE  BusInv'
  <1> USE LevelAssumption
  <1>1. CASE Ask(u)
    <2>1. \A l \in 0 .. 2 :
              Waiting(l)' = IF l = Level(u) THEN Waiting(l) \cup {u} ELSE Waiting(l)
      BY <1>1 DEF BusInv, Ask, Move, Waiting, Places
    <2>2. u \notin Waiting(Level(u)) /\ Level(u) \in 0 .. 2
      BY <1>1 DEF Ask, Move, Waiting
    <2>3. \A l \in 0 .. 2 : queued'[l] = Cardinality(Waiting(l)')
      BY <1>1, <2>1, <2>2, QueueSize DEF BusInv, Ask
    <2>4. queued' = [l \in 0 .. 2 |-> Cardinality(Waiting(l)')]
      BY <1>1, <2>3 DEF BusInv, Ask
    <2>5. \A v \in User : OnBus(v)' <=> OnBus(v)
      BY <1>1 DEF BusInv, Ask, Move, OnBus
    <2> QED
      BY <1>1, <2>4, <2>5 DEF BusInv, Ask, Move, Places
  <1>2. CASE Acquire(u) \/ GiveUp(u)
    <2>1. \A l \in 0 .. 2 :
              Waiting(l)' = IF l = Level(u) THEN Waiting(l) \ {u} ELSE Waiting(l)
      BY <1>2 DEF BusInv, Acquire, GiveUp, Move, Waiting, Places
    <2>2. u \in Waiting(Level(u)) /\ Level(u) \in 0 .. 2
      BY <1>2 DEF Acquire, GiveUp, Move, Waiting
    <2>3. \A l \in 0 .. 2 : queued'[l] = Cardinality(Waiting(l)')
      BY <1>2, <2>1, <2>2, QueueSize DEF BusInv, Acquire, GiveUp, Leave
    <2>4. queued' = [l \in 0 .. 2 |-> Cardinality(Waiting(l)')]
      BY <1>2, <2>3 DEF BusInv, Acquire, GiveUp, Leave
    <2>5. Acquire(u) => /\ \A v \in User : ~OnBus(v)
                        /\ \A v \in User : OnBus(v)' <=> v = u
      BY DEF BusInv, Acquire, FreeFor, Move, OnBus
    <2>6. GiveUp(u) => \A v \in User : OnBus(v)' <=> OnBus(v)
      BY DEF BusInv, GiveUp, Move, OnBus
    <2>7. at' \in [User -> Places]
      BY <1>2 DEF BusInv, Acquire, GiveUp, Move, Places
    <2>8. active' \in BOOLEAN /\ (active' <=> \E v \in User : OnBus(v)')
      <3>1. CASE Acquire(u)
        BY <3>1, <2>5 DEF Acquire
      <3>2. CASE GiveUp(u)
        <4>1. active' = active /\ ((\E v \in User : OnBus(v)') <=> \E v \in User : OnBus(v))
          BY <3>2, <2>6 DEF GiveUp
        <4> QED
          BY <4>1 DEF BusInv
      <3> QED
        BY <1>2, <3>1, <3>2
    <2>9. \A v, w \in User : OnBus(v)' /\ OnBus(w)' => v = w
      BY <1>2, <2>5, <2>6 DEF BusInv
    <2> QED
      BY <2>4, <2>7, <2>8, <2>9 DEF BusInv
  <1>3. CASE Finish(u) \/ Release(u)
    <2>1. \A l \in 0 .. 2 : Waiting(l)' = Waiting(l)
      BY <1>3 DEF BusInv, Finish, Release, Move, Waiting, Places
    <2>2. \A v \in User : v # u => (OnBus(v)' <=> OnBus(v))
      BY <1>3 DEF BusInv, Finish, Release, Move, OnBus
    <2>3. OnBus(u) /\ (OnBus(u)' <=> Finish(u))
      BY <1>3 DEF BusInv, Finish, Release, Move, OnBus
    <2>4. at' \in [User -> Places]
      BY <1>3 DEF BusInv, Finish, Release, Move, Places
    <2>5. active' \in BOOLEAN /\ (active' <=> \E v \in User : OnBus(v)')
      <3>1. CASE Finish(u)
        <4>1. active' = active /\ (\E v \in User : OnBus(v)) /\ (\E v \in User : OnBus(v)')
          BY <3>1, <2>3 DEF Finish
        <4> QED
          BY <4>1 DEF BusInv
      <3>2. CASE Release(u)
        <4>1. ~OnBus(u)'
          BY <3>2 DEF Release, Move, OnBus, BusInv
        <4>2. \A v \in User : ~OnBus(v)'
          BY <4>1, <2>2, <2>3 DEF BusInv
        <4> QED
          BY <3>2, <4>2 DEF Release
      <3> QED
        BY <1>3, <3>1, <3>2
    <2>6. \A v, w \in User : OnBus(v)' /\ OnBus(w)' => v = w
      BY <2>2, <2>3 DEF BusInv
    <2>7. queued' = [l \in 0 .. 2 |-> Cardinality(Waiting(l)')]
      BY <1>3, <2>1 DEF BusInv, Finish, Release
    <2> QED
      BY <2>4, <2>5, <2>6, <2>7 DEF BusInv
  <1> QED
    BY <1>1, <1>2, <1>3 DEF BusStep

\* A thread comes and goes off the bus, and in no queue.
LEMMA ComesAndGoes ==
    ASSUME BusInv, NEW u \in User, NEW from \in {"none", "idle"}, NEW to \in {"none", "idle"},
           Move(u, from, to), UNCHANGED <<active, queued>>
    PROVE  BusInv'
  <1>1. \A l \in 0 .. 2 : Waiting(l)' = Waiting(l)
    BY DEF BusInv, Move, Waiting, Places
  <1>2. \A v \in User : OnBus(v)' <=> OnBus(v)
    BY DEF BusInv, Move, OnBus
  <1> QED
    BY <1>1, <1>2 DEF BusInv, Move, Places

LEMMA BusUnchanged == BusInv /\ UNCHANGED busVars => BusInv'
  BY DEF BusInv, busVars, OnBus, Waiting

\* What BusInTurn asks of one step.
InTurn ==
    \A u \in User :
        /\ Takes(u) => \A v \in User \ {u} : at[v] \notin {"using", "settling"} /\ ~Ahead(v, u)
        /\ IsRefused(u) => \E v \in User \ {u} : at[v] \in {"using", "settling"} \/ Ahead(v, u)

\* The bus is not free for a thread if another one is on it, or ahead in a queue.
LEMMA FreeForMeans ==
    ASSUME BusInv, NEW u \in User, at[u] = "waiting"
    PROVE  FreeFor(u) <=> \A v \in User \ {u} : ~OnBus(v) /\ ~Ahead(v, u)
  <1> USE LevelAssumption
  <1>1. \A l \in 0 .. Level(u) - 1 : queued[l] = 0 <=> Waiting(l) = {}
    BY QueueSize, FS_EmptySet DEF BusInv
  <1>2. (\A l \in 0 .. Level(u) - 1 : Waiting(l) = {}) <=> \A v \in User \ {u} : ~Ahead(v, u)
    BY DEF Waiting, Ahead
  <1>3. ~active <=> \A v \in User \ {u} : ~OnBus(v)
    BY DEF BusInv, OnBus
  <1> QED
    BY <1>1, <1>2, <1>3 DEF FreeFor

LEMMA BusStepInTurn ==
    ASSUME BusInv, NEW u \in User, BusStep(u)
    PROVE  InTurn
  <1> SUFFICES ASSUME NEW w \in User, Takes(w) \/ IsRefused(w)
               PROVE  w = u /\ (Takes(u) => FreeFor(u)) /\ (IsRefused(u) => ~FreeFor(u))
    BY FreeForMeans DEF InTurn, Takes, IsRefused, OnBus
  <1>1. w = u
    BY DEF BusInv, BusStep, Ask, Acquire, GiveUp, Finish, Release, Move, Takes, IsRefused
  <1> QED
    BY <1>1 DEF BusInv, BusStep, Ask, Acquire, GiveUp, Finish, Release, Move, Takes, IsRefused

-----------------------------------------------------------------------------
(* The plug-ins. *)

HoldsLock(c) ==
    \/ phase[c] \in {"unpacking", "stopping", "frames", "called", "returned"}
    \/ phase[c] = "enter" /\ job[c] # "reconcile"

Types ==
    /\ enabled \subseteq Module /\ running \subseteq Module /\ raced \subseteq Module
    /\ lock \in Client \cup {NoClient}
    /\ phase \in [Client -> Phases] /\ job \in [Client -> Jobs]
    /\ copy \in [Client -> SUBSET Module] /\ todo \in [Client -> SUBSET Module]
    /\ current \in [Client -> Module \cup {NoModule}]
    /\ stack \in [Client -> Seq(Frame)]
    /\ requests \in 0 .. MaxRequests

\* What a handler holds where it is: the lock, a plug-in, plug-ins being started.
Locals ==
    \A c \in Client :
        /\ lock = c <=> HoldsLock(c)
        /\ phase[c] \in {"unpacking", "stopping", "enter", "frames", "called", "returned"}
              => current[c] \in Module
        /\ phase[c] \in {"idle", "copied", "read", "survey", "stops", "starts"}
              => job[c] = "reconcile"
        /\ phase[c] = "unpacking" => job[c] \in {"update", "install"}
        /\ phase[c] \in {"frames", "called"} <=> stack[c] # <<>>

\* A plug-in waits for a dependency of its own, so none is started twice.
Chain ==
    \A c \in Client :
        /\ \A i \in 1 .. Len(stack[c]) : stack[c][i].left \subseteq Depends(stack[c][i].module)
        /\ \A i \in 1 .. Len(stack[c]) - 1 :
              stack[c][i + 1].module \in Depends(stack[c][i].module)

\* What is being started is enabled, or was disabled meanwhile, and does not run yet.
Starting ==
    \A c \in Client : \A i \in 1 .. Len(stack[c]) :
        stack[c][i].module \in (enabled \cup raced) \ running

\* What a plug-in requires still runs when it has been started.
Calling == \A c \in Client : phase[c] = "called" => Requires[Top(c)] \subseteq running

OneWorker == \A m \in Module : \A u, v \in Workers(m) : u = v

\* A handler that has yet to stop m, or to see that it must.
WillStop(c, m) ==
    \/ phase[c] = "read"
    \/ phase[c] = "survey" /\ m \notin copy[c]
    \/ phase[c] = "stops" /\ m \in todo[c]
    \/ phase[c] = "stopping" /\ job[c] = "reconcile" /\ m \in todo[c] \cup {current[c]}

StopsToCome == \A m \in running \ (enabled \cup raced) : \E c \in Client : WillStop(c, m)

LifecycleInv == Types /\ Locals /\ Chain /\ Starting /\ Calling /\ StopsToCome

IInv == BusInv /\ OneWorker /\ LifecycleInv

-----------------------------------------------------------------------------
(* Lemmas about what handlers share. *)

\* Who holds the lock is the only one to start a plug-in.
LEMMA OneStarts ==
    ASSUME Types, Locals, NEW c \in Client, lock = c, NEW d \in Client, d # c
    PROVE  ~HoldsLock(d) /\ stack[d] = <<>>
  BY DEF Types, Locals, HoldsLock

\* Who can take the lock finds nobody else with it.
LEMMA LockFreeMeans ==
    ASSUME Types, Locals, NEW c \in Client, LockFree(c)
    PROVE  c # NoClient /\ \A d \in Client : d # c => lock # d /\ ~HoldsLock(d)
  BY PluginAssumption DEF LockFree, Locals

\* What is in the hands of a handler.
LEMMA Held ==
    ASSUME Types, NEW c \in Client
    PROVE  /\ stack[c] \in Seq(Frame) /\ Len(stack[c]) \in Nat
           /\ \A i \in 1 .. Len(stack[c]) :
                 /\ stack[c][i] \in Frame
                 /\ stack[c][i].module \in BeingStarted /\ stack[c][i].module \in Module
           /\ stack[c] # <<>> => Len(stack[c]) \in 1 .. Len(stack[c]) /\ Top(c) \in Module
  <1>1. stack[c] \in Seq(Frame) /\ Len(stack[c]) \in Nat /\ DOMAIN stack[c] = 1 .. Len(stack[c])
    BY DEF Types
  <1>2. \A i \in 1 .. Len(stack[c]) : stack[c][i] \in Frame
    BY <1>1
  <1>3. \A i \in DOMAIN stack[c] : stack[c][i].module \in BeingStarted
    BY DEF BeingStarted
  <1>4. stack[c] # <<>> => Len(stack[c]) \in 1 .. Len(stack[c])
    BY <1>1
  <1> QED
    BY <1>1, <1>2, <1>3, <1>4 DEF Frame, Top

\* Nothing that is being started is forgotten when what is enabled changes, nor anything
\* that was disabled before.
LEMMA EnabledOrRaced ==
    ASSUME NEW new, SetEnabled(new)
    PROVE  /\ enabled' = new /\ raced' \subseteq raced \cup enabled
           /\ \A m \in enabled \cup raced :
                 m \in new \cup raced \cup BeingStarted => m \in enabled' \cup raced'
  BY DEF SetEnabled

\* Dependencies have no cycle, so a plug-in is not started for itself.
LEMMA NotForItself ==
    ASSUME Types, Chain, NEW c \in Client,
           NEW i \in 1 .. Len(stack[c]), NEW j \in 1 .. Len(stack[c]), i < j
    PROVE  stack[c][i].module # stack[c][j].module
  <1> SUFFICES ASSUME stack[c][i].module = stack[c][j].module PROVE FALSE
    OBVIOUS
  <1> DEFINE S == {stack[c][k].module : k \in i .. j - 1}
  <1>1. Len(stack[c]) \in Nat /\ i \in Nat /\ j \in Nat
    BY Held
  <1>2. S \in SUBSET Module /\ stack[c][i].module \in S
    BY <1>1, Held
  <1>3. ASSUME NEW k \in i .. j - 1 PROVE Depends(stack[c][k].module) \cap S # {}
    <2>1. stack[c][k + 1].module \in Depends(stack[c][k].module)
      BY <1>1 DEF Chain
    <2>2. CASE k + 1 = j
      BY <1>2, <2>1, <2>2
    <2>3. CASE k + 1 # j
      <3>1. k + 1 \in i .. j - 1
        BY <1>1, <2>3
      <3> QED
        BY <2>1, <3>1
    <2> QED
      BY <2>2, <2>3
  <1>4. \A m \in S : Depends(m) \cap S # {}
    BY <1>3
  <1> HIDE DEF S
  <1> QED
    BY <1>2, <1>4, NoCycles

\* A step that starts nothing, and forgets nothing that is being started.
LEMMA SameStacks ==
    ASSUME Chain, Starting, Calling, Types,
           UNCHANGED stack, running' \subseteq running,
           \A m \in BeingStarted : m \in enabled \cup raced => m \in enabled' \cup raced',
           \A d \in Client : phase'[d] = "called" => phase[d] = "called" /\ running' = running
    PROVE  Chain' /\ Starting' /\ Calling'
  <1>1. Chain'
    BY DEF Chain
  <1>2. Starting'
    BY Held DEF Starting
  <1>3. Calling'
    BY DEF Calling, Top
  <1> QED
    BY <1>1, <1>2, <1>3

-----------------------------------------------------------------------------
(* The steps of requests and of start_enabled_plugins. *)

\* Who has changed what is enabled goes on to see what to stop.
LEMMA ChangeKeeps ==
    ASSUME LifecycleInv, NEW c \in Client, Change(c) \/ WriteCopy(c)
    PROVE  LifecycleInv'
  <1> USE DEF LifecycleInv
  <1>1. PICK new \in SUBSET Module : SetEnabled(new)
    BY DEF Change, WriteCopy, Types
  <1>2. phase' = [phase EXCEPT ![c] = "read"] /\ phase[c] \in {"idle", "copied"}
    BY DEF Change, WriteCopy, Go, Request
  <1>3. UNCHANGED <<running, lock, job, copy, todo, current, stack>>
    BY DEF Change, WriteCopy
  <1>4. Types'
    BY <1>1, <1>2, <1>3, EnabledOrRaced, PluginAssumption
       DEF Types, Change, WriteCopy, Request, Phases
  <1>5. Locals'
    BY <1>2, <1>3 DEF Locals, HoldsLock, Types
  <1>6. Chain' /\ Starting' /\ Calling'
    BY <1>1, <1>2, <1>3, EnabledOrRaced, SameStacks DEF Types
  <1>7. phase'[c] = "read"
    BY <1>2 DEF Types
  <1>8. StopsToCome'
    BY <1>7 DEF StopsToCome, WillStop
  <1> QED
    BY <1>4, <1>5, <1>6, <1>8

\* What a handler that leaves the enabled plug-ins alone has still to stop.
LEMMA SurveyKeeps ==
    ASSUME LifecycleInv, NEW c \in Client, CopyEnabled(c) \/ ReadEnabled(c) \/ Survey(c)
    PROVE  LifecycleInv'
  <1> USE DEF LifecycleInv
  <1>1. UNCHANGED <<enabled, running, raced, lock, job, current, stack>>
    BY DEF CopyEnabled, ReadEnabled, Survey
  <1>2. Types'
    <2>1. CASE CopyEnabled(c)
      BY <1>1, <2>1, PluginAssumption DEF Types, CopyEnabled, Request, Go, Phases
    <2>2. CASE ReadEnabled(c)
      BY <1>1, <2>2 DEF Types, ReadEnabled, Go, Phases
    <2>3. CASE Survey(c)
      BY <1>1, <2>3 DEF Types, Survey, Go, Phases
    <2> QED
      BY <2>1, <2>2, <2>3
  <1>3. Locals'
    BY <1>1 DEF Locals, HoldsLock, Types, CopyEnabled, ReadEnabled, Survey, Request, Go
  <1>4. Chain' /\ Starting' /\ Calling'
    BY <1>1, SameStacks DEF Types, CopyEnabled, ReadEnabled, Survey, Go
  <1>5. ASSUME NEW m \in running \ (enabled \cup raced), NEW d \in Client, WillStop(d, m)
        PROVE  WillStop(d, m)'
    BY <1>1, <1>5 DEF WillStop, Types, CopyEnabled, ReadEnabled, Survey, Request, Go
  <1>6. StopsToCome'
    BY <1>1, <1>5 DEF StopsToCome
  <1> QED
    BY <1>2, <1>3, <1>4, <1>6

\* The stops, one by one, and what follows them.
LEMMA ReconcileKeeps ==
    ASSUME LifecycleInv, NEW c \in Client,
           StopNext(c) \/ PlanStarts(c) \/ StartNext(c) \/ EndReconcile(c)
    PROVE  LifecycleInv'
  <1> USE DEF LifecycleInv
  <1>1. UNCHANGED <<enabled, running, raced, job, stack>>
    BY DEF StopNext, PlanStarts, StartNext, EndReconcile
  <1>2. Types'
    <2>1. CASE StopNext(c)
      BY <1>1, <2>1 DEF Types, StopNext, Go, Phases
    <2>2. CASE PlanStarts(c)
      BY <1>1, <2>2 DEF Types, PlanStarts, Go, Phases
    <2>3. CASE StartNext(c)
      <3>1. PICK m \in todo[c] :
                /\ todo' = [todo EXCEPT ![c] = @ \ {m}]
                /\ \/ /\ current' = [current EXCEPT ![c] = m]
                      /\ phase' = [phase EXCEPT ![c] = "enter"]
                   \/ UNCHANGED <<current, phase>>
        BY <2>3 DEF StartNext, Go
      <3>2. m \in Module
        BY DEF Types
      <3>3. todo' \in [Client -> SUBSET Module]
        BY <3>1 DEF Types
      <3>4. current' \in [Client -> Module \cup {NoModule}] /\ phase' \in [Client -> Phases]
        BY <3>1, <3>2 DEF Types, Phases
      <3> QED
        BY <1>1, <2>3, <3>3, <3>4 DEF Types, StartNext
    <2>4. CASE EndReconcile(c)
      BY <1>1, <2>4 DEF Types, EndReconcile, Go, Phases
    <2> QED
      BY <2>1, <2>2, <2>3, <2>4
  <1>3. Locals'
    <2>1. CASE StopNext(c)
      <3>1. c # NoClient /\ \A d \in Client : d # c => lock # d /\ ~HoldsLock(d)
        BY <2>1, LockFreeMeans DEF StopNext
      <3>2. phase[c] = "stops" /\ job[c] = "reconcile"
        BY <2>1 DEF StopNext, Locals
      <3>3. PICK m \in todo[c] :
                \/ /\ lock' = c /\ current' = [current EXCEPT ![c] = m]
                   /\ phase' = [phase EXCEPT ![c] = "stopping"]
                \/ UNCHANGED <<lock, current, phase>>
        BY <2>1 DEF StopNext, Go
      <3>4. m \in Module
        BY DEF Types
      <3> QED
        BY <1>1, <3>1, <3>2, <3>3, <3>4 DEF Locals, HoldsLock, Types
    <2>2. CASE PlanStarts(c) \/ StartNext(c) \/ EndReconcile(c)
      BY <1>1, <2>2 DEF Locals, HoldsLock, Types, PlanStarts, StartNext, EndReconcile, Go
    <2> QED
      BY <2>1, <2>2
  <1>4. Chain' /\ Starting' /\ Calling'
    BY <1>1, SameStacks DEF Types, StopNext, PlanStarts, StartNext, EndReconcile, Go
  <1>5. ASSUME NEW m \in running \ (enabled \cup raced), NEW d \in Client, WillStop(d, m)
        PROVE  WillStop(d, m)'
    BY <1>1, <1>5
       DEF WillStop, Types, Locals, StopNext, PlanStarts, StartNext, EndReconcile, Go
  <1>6. StopsToCome'
    BY <1>1, <1>5 DEF StopsToCome
  <1> QED
    BY <1>2, <1>3, <1>4, <1>6

-----------------------------------------------------------------------------
(* The steps of restarts, updates and stops. *)

\* A restart and an update begin with the lock.
LEMMA ReplaceKeeps ==
    ASSUME LifecycleInv, NEW c \in Client, NEW m \in Module, Restart(c, m) \/ Update(c, m)
    PROVE  LifecycleInv'
  <1> USE DEF LifecycleInv
  <1>1. UNCHANGED <<enabled, running, raced, copy, todo, stack>>
    BY DEF Restart, Update
  <1>2. Types'
    <2>1. CASE Restart(c, m)
      BY <1>1, <2>1, PluginAssumption DEF Types, Restart, Request, Go, Phases, Jobs
    <2>2. CASE Update(c, m)
      BY <1>1, <2>2, PluginAssumption DEF Types, Update, Request, Go, Phases, Jobs
    <2> QED
      BY <2>1, <2>2
  <1>3. Locals'
    <2>1. LockFree(c) /\ lock' = c /\ phase[c] = "idle"
      BY DEF Restart, Update, Request
    <2>2. c # NoClient /\ \A d \in Client : d # c => lock # d /\ ~HoldsLock(d)
      BY <2>1, LockFreeMeans
    <2>3. \E p \in {"stopping", "unpacking"} :
              /\ phase' = [phase EXCEPT ![c] = p] /\ current' = [current EXCEPT ![c] = m]
              /\ \E j \in Jobs :
                    job' = [job EXCEPT ![c] = j] /\ (p = "unpacking" => j \in {"update", "install"})
      BY DEF Restart, Update, Go, Jobs
    <2> QED
      BY <1>1, <2>1, <2>2, <2>3 DEF Locals, HoldsLock, Types
  <1>4. Chain' /\ Starting' /\ Calling'
    BY <1>1, SameStacks DEF Types, Restart, Update, Go
  <1>5. ASSUME NEW n \in running \ (enabled \cup raced), NEW d \in Client, WillStop(d, n)
        PROVE  WillStop(d, n)'
    BY <1>1, <1>5 DEF WillStop, Types, Restart, Update, Request, Go
  <1>6. StopsToCome'
    BY <1>1, <1>5 DEF StopsToCome
  <1> QED
    BY <1>2, <1>3, <1>4, <1>6

\* The unpacking of an update has failed, or the old version is to be stopped.
LEMMA EndUnpackKeeps ==
    ASSUME LifecycleInv, NEW c \in Client, EndUnpack(c)
    PROVE  LifecycleInv'
  <1> USE DEF LifecycleInv
  <1>1. /\ UNCHANGED <<running, lock, copy, todo, current, stack, requests>>
        /\ phase[c] = "unpacking" /\ phase' = [phase EXCEPT ![c] = "stopping"]
    BY DEF EndUnpack, Go
  <1>2. current[c] \in Module /\ job[c] = "update"
    BY <1>1 DEF Locals, EndUnpack
  <1>3. \/ UNCHANGED <<job, enabled, raced>>
        \/ job' = [job EXCEPT ![c] = "restart"] /\ SetEnabled(enabled \cup {current[c]})
    BY DEF EndUnpack
  <1>4. /\ enabled' \subseteq Module /\ raced' \subseteq Module
        /\ \A m \in enabled \cup raced : m \in enabled' \cup raced'
    BY <1>2, <1>3, EnabledOrRaced DEF Types
  <1>5. \E j \in {"update", "restart"} : job' = [job EXCEPT ![c] = j]
    BY <1>2, <1>3 DEF Types
  <1>6. Types'
    BY <1>1, <1>4, <1>5 DEF Types, Phases, Jobs
  <1>7. Locals'
    BY <1>1, <1>2, <1>5 DEF Locals, HoldsLock, Types
  <1>8. Chain' /\ Starting' /\ Calling'
    BY <1>1, <1>4, SameStacks DEF Types
  <1>9. ASSUME NEW n \in running \ (enabled' \cup raced'), NEW d \in Client, WillStop(d, n)
        PROVE  WillStop(d, n)'
    BY <1>1, <1>5, <1>9 DEF WillStop, Types
  <1>10. StopsToCome'
    BY <1>1, <1>4, <1>9 DEF StopsToCome
  <1> QED
    BY <1>6, <1>7, <1>8, <1>10

\* The installation of a plug-in that was not enabled ends.
LEMMA EndInstallKeeps ==
    ASSUME LifecycleInv, NEW c \in Client, EndInstall(c)
    PROVE  LifecycleInv'
  <1> USE DEF LifecycleInv
  <1>1. /\ UNCHANGED <<running, copy, todo, stack, requests>>
        /\ phase[c] = "unpacking" /\ phase' = [phase EXCEPT ![c] = "idle"]
        /\ lock' = NoClient /\ job' = [job EXCEPT ![c] = "reconcile"]
        /\ current' = [current EXCEPT ![c] = NoModule]
    BY DEF EndInstall, Unlock, Go
  <1>2. current[c] \in Module /\ lock = c /\ HoldsLock(c) /\ stack[c] = <<>>
    BY <1>1 DEF Locals, HoldsLock, Types
  <1>3. \A d \in Client : d # c => ~HoldsLock(d) /\ stack[d] = <<>>
    BY <1>2, OneStarts
  <1>4. BeingStarted = {}
    BY <1>2, <1>3, LenProperties DEF BeingStarted
  <1>5. /\ enabled' \subseteq Module /\ raced' \subseteq Module
        /\ \A m \in running \cap (enabled \cup raced) : m \in enabled' \cup raced'
    BY <1>2 DEF EndInstall, Types
  <1>6. Types'
    BY <1>1, <1>5 DEF Types, Phases, Jobs
  <1>7. Locals'
    BY <1>1, <1>2, <1>3, PluginAssumption DEF Locals, HoldsLock, Types
  <1>8. Chain' /\ Starting' /\ Calling'
    BY <1>1, <1>4, SameStacks DEF Types
  <1>9. ASSUME NEW n \in running \ (enabled' \cup raced'), NEW d \in Client, WillStop(d, n)
        PROVE  WillStop(d, n)'
    BY <1>1, <1>9 DEF WillStop, Types
  <1>10. StopsToCome'
    BY <1>1, <1>5, <1>9 DEF StopsToCome
  <1> QED
    BY <1>6, <1>7, <1>8, <1>10

\* A plug-in is enabled again, and started from the version before.
LEMMA RollbackKeeps ==
    ASSUME LifecycleInv, NEW c \in Client, phase[c] \in {"stopping", "returned"},
           job[c] = "update", Rollback(c), running' \in {running, running \ {current[c]}},
           UNCHANGED <<copy, todo, stack, requests>>
    PROVE  LifecycleInv'
  <1> USE DEF LifecycleInv
  <1>1. /\ job' = [job EXCEPT ![c] = "rollback"] /\ phase' = [phase EXCEPT ![c] = "enter"]
        /\ UNCHANGED <<lock, current>>
    BY DEF Rollback, Go
  <1>2. lock = c /\ current[c] \in Module /\ stack[c] = <<>>
    BY DEF Locals, HoldsLock
  <1>3. /\ enabled' \subseteq Module /\ raced' \subseteq Module /\ running' \subseteq Module
        /\ \A m \in enabled \cup raced : m \in enabled' \cup raced'
    BY <1>2, EnabledOrRaced DEF Types, Rollback
  <1>4. Types'
    BY <1>1, <1>3 DEF Types, Phases, Jobs
  <1>5. Locals'
    BY <1>1, <1>2 DEF Locals, HoldsLock, Types
  <1>6. \A d \in Client : phase'[d] # "called"
    BY <1>1, <1>2, OneStarts DEF HoldsLock, Types
  <1>7. Chain' /\ Starting' /\ Calling'
    BY <1>3, <1>6, SameStacks
  <1>8. ASSUME NEW n \in running \ (enabled \cup raced), NEW d \in Client, WillStop(d, n)
        PROVE  WillStop(d, n)'
    BY <1>1, <1>8 DEF WillStop, Types
  <1>9. StopsToCome'
    BY <1>3, <1>8 DEF StopsToCome
  <1> QED
    BY <1>4, <1>5, <1>7, <1>9

\* A plug-in has been stopped: if it was to be, nobody has to do so any more.
LEMMA EndStopKeeps ==
    ASSUME LifecycleInv, NEW c \in Client, EndStop(c)
    PROVE  LifecycleInv'
  <1> USE DEF LifecycleInv
  <1>1. /\ UNCHANGED <<copy, todo, stack, requests>>
        /\ phase[c] = "stopping" /\ running' = running \ {current[c]}
    BY DEF EndStop
  <1>2. lock = c /\ current[c] \in Module /\ stack[c] = <<>>
    BY <1>1 DEF Locals, HoldsLock
  <1>3. \A d \in Client : d # c => ~HoldsLock(d) /\ stack[d] = <<>>
    BY <1>2, OneStarts
  <1>4. BeingStarted = {}
    BY <1>2, <1>3 DEF BeingStarted
  <1>5. CASE job[c] = "update" /\ Rollback(c)
    BY <1>1, <1>5, RollbackKeeps
  <1>6. CASE ~(job[c] = "update" /\ Rollback(c))
    <2>1. \/ /\ job[c] = "reconcile" /\ Unlock(c, "stops")
             /\ enabled' = enabled /\ raced' = raced \ {current[c]}
          \/ /\ job[c] # "reconcile" /\ Go(c, "enter") /\ UNCHANGED <<enabled, job, lock, current>>
             /\ raced' = raced \ {current[c]}
          \/ /\ job[c] = "update" /\ Unlock(c, "idle") /\ SetEnabled(enabled \ {current[c]})
      BY <1>6 DEF EndStop, Stopped
    <2>2. /\ enabled' \subseteq Module /\ raced' \subseteq Module
          /\ \A m \in enabled \cup raced : m # current[c] => m \in enabled' \cup raced'
      BY <2>1, EnabledOrRaced DEF Types
    <2>3. \/ /\ lock' = NoClient /\ current' = [current EXCEPT ![c] = NoModule]
             /\ job' = [job EXCEPT ![c] = "reconcile"]
             /\ \/ job[c] = "reconcile" /\ phase' = [phase EXCEPT ![c] = "stops"]
                \/ job[c] = "update" /\ phase' = [phase EXCEPT ![c] = "idle"]
          \/ /\ job[c] # "reconcile" /\ phase' = [phase EXCEPT ![c] = "enter"]
             /\ UNCHANGED <<job, lock, current>>
      BY <2>1 DEF Unlock, Go
    <2>4. Types'
      BY <1>1, <2>2, <2>3 DEF Types, Phases, Jobs
    <2>5. Locals'
      <3>1. c # NoClient /\ NoClient \notin Client
        BY PluginAssumption
      <3>2. \A d \in Client : d # c => ~HoldsLock(d)'
        BY <1>3, <2>3 DEF HoldsLock, Types
      <3>3. HoldsLock(c)' <=> lock' = c
        BY <1>2, <2>3, <3>1 DEF HoldsLock, Types
      <3>4. ASSUME NEW d \in Client PROVE lock' = d <=> HoldsLock(d)'
        BY <1>2, <2>3, <3>1, <3>2, <3>3
      <3> QED
        BY <1>1, <1>2, <2>3, <3>4 DEF Locals, Types
    <2>6. \A d \in Client : phase'[d] # "called"
      BY <1>3, <2>3 DEF HoldsLock, Types
    <2>7. Chain' /\ Starting' /\ Calling'
      BY <1>1, <1>4, <2>6, SameStacks
    <2>8. ASSUME NEW n \in running \ (enabled \cup raced), n # current[c], NEW d \in Client,
                 WillStop(d, n)
          PROVE  WillStop(d, n)'
      BY <1>1, <2>3, <2>8 DEF WillStop, Types
    <2>9. StopsToCome'
      BY <1>1, <2>2, <2>8 DEF StopsToCome
    <2> QED
      BY <2>4, <2>5, <2>7, <2>9
  <1> QED
    BY <1>5, <1>6

-----------------------------------------------------------------------------
(* The steps of a start. *)

LEMMA EnterKeeps ==
    ASSUME LifecycleInv, NEW c \in Client, Enter(c)
    PROVE  LifecycleInv'
  <1> USE DEF LifecycleInv
  <1>1. /\ UNCHANGED <<enabled, running, job, copy, todo, current, requests, raced>>
        /\ phase[c] = "enter" /\ LockFree(c) /\ lock' = c
    BY DEF Enter
  <1>2. c # NoClient /\ \A d \in Client : d # c => lock # d /\ ~HoldsLock(d)
    BY <1>1, LockFreeMeans
  <1>3. current[c] \in Module /\ stack[c] = <<>>
    BY <1>1 DEF Locals
  <1>4. \/ /\ current[c] \in enabled \ running /\ phase' = [phase EXCEPT ![c] = "frames"]
           /\ stack' = [stack EXCEPT ![c] = <<NewFrame(current[c])>>]
        \/ phase' = [phase EXCEPT ![c] = "returned"] /\ stack' = stack
    BY DEF Enter, Startable, Go
  <1>5. /\ NewFrame(current[c]) \in Frame /\ NewFrame(current[c]).module = current[c]
        /\ NewFrame(current[c]).left = Depends(current[c])
    BY <1>3, PluginAssumption DEF NewFrame, Frame, Depends
  <1>6. /\ <<NewFrame(current[c])>> \in Seq(Frame) /\ <<NewFrame(current[c])>> # <<>>
        /\ Len(<<NewFrame(current[c])>>) = 1 /\ <<NewFrame(current[c])>>[1] = NewFrame(current[c])
    BY <1>5
  <1>7. \A d \in Client : \A i \in 1 .. Len(stack'[d]) :
            \/ stack'[d] = stack[d]
            \/ /\ d = c /\ i = 1 /\ Len(stack'[d]) = 1 /\ stack'[d][i] = NewFrame(current[c])
               /\ current[c] \in enabled \ running
    <2>1. \A d \in Client : d # c => stack'[d] = stack[d]
      BY <1>4 DEF Types
    <2>2. CASE stack'[c] = stack[c]
      BY <2>1, <2>2
    <2>3. CASE stack'[c] = <<NewFrame(current[c])>> /\ current[c] \in enabled \ running
      <3>1. \A i \in 1 .. Len(stack'[c]) : i = 1
        BY <1>6, <2>3
      <3> QED
        BY <1>6, <2>1, <2>3, <3>1
    <2> QED
      BY <1>4, <2>2, <2>3 DEF Types
  <1>8. stack' \in [Client -> Seq(Frame)] /\ phase' \in [Client -> Phases]
    BY <1>4, <1>6 DEF Types, Phases
  <1>9. Types'
    BY <1>1, <1>8 DEF Types
  <1>10. Locals'
    BY <1>1, <1>2, <1>3, <1>4, <1>6 DEF Locals, HoldsLock, Types
  <1>11. Chain'
    BY <1>5, <1>7 DEF Chain
  <1>12. Starting'
    BY <1>1, <1>5, <1>7 DEF Starting
  <1>13. Calling'
    BY <1>1, <1>2, <1>4 DEF Calling, HoldsLock, Types
  <1>14. ASSUME NEW n, NEW d \in Client, WillStop(d, n) PROVE WillStop(d, n)'
    BY <1>1, <1>4, <1>14 DEF WillStop, Types
  <1>15. StopsToCome'
    BY <1>1, <1>14 DEF StopsToCome
  <1> QED
    BY <1>9, <1>10, <1>11, <1>12, <1>13, <1>15

\* A dependency is looked at, or a start is begun for it.
LEMMA StartDependencyKeeps ==
    ASSUME LifecycleInv, NEW c \in Client, StartDependency(c)
    PROVE  LifecycleInv'
  <1> USE DEF LifecycleInv
  <1>1. /\ UNCHANGED <<enabled, running, lock, phase, job, copy, todo, current, requests, raced>>
        /\ phase[c] = "frames" /\ stack[c] # <<>>
    BY DEF StartDependency, Locals
  <1> DEFINE n == Len(stack[c])
  <1>2. /\ stack[c] \in Seq(Frame) /\ n \in Nat \ {0} /\ n \in 1 .. n
        /\ \A i \in 1 .. n : stack[c][i] \in Frame
    BY <1>1, Held
  <1>3. PICK d \in stack[c][n].left :
            stack' = [stack EXCEPT ![c] =
                        IF d \in enabled \ running
                          THEN Append([stack[c] EXCEPT ![n].left = @ \ {d}], NewFrame(d))
                          ELSE [stack[c] EXCEPT ![n].left = @ \ {d}]]
    BY DEF StartDependency
  <1> DEFINE looked == [stack[c] EXCEPT ![n].left = @ \ {d}]
  <1>4. d \in Depends(stack[c][n].module) /\ d \in Module
    BY <1>2 DEF Chain, Frame
  <1>5. /\ looked \in Seq(Frame) /\ Len(looked) = n
        /\ \A i \in 1 .. n : /\ looked[i].module = stack[c][i].module
                             /\ looked[i].left \subseteq stack[c][i].left
    BY <1>2 DEF Frame
  <1>6. /\ NewFrame(d) \in Frame /\ NewFrame(d).module = d /\ NewFrame(d).left = Depends(d)
    BY <1>4, PluginAssumption DEF NewFrame, Frame, Depends
  <1> DEFINE t == IF d \in enabled \ running THEN Append(looked, NewFrame(d)) ELSE looked
  <1>7. stack' = [stack EXCEPT ![c] = t] /\ t \in Seq(Frame)
    BY <1>3, <1>5, <1>6
  <1> HIDE DEF looked
  <1>8. /\ Len(t) \in {n, n + 1}
        /\ \A i \in 1 .. n : /\ t[i].module = stack[c][i].module
                             /\ t[i].left \subseteq stack[c][i].left
        /\ Len(t) = n + 1 => /\ t[n + 1].module = d /\ t[n + 1].left = Depends(d)
                             /\ d \in enabled \ running
    BY <1>2, <1>5, <1>6
  <1> HIDE DEF t
  <1>9. stack'[c] = t /\ \A e \in Client : e # c => stack'[e] = stack[e]
    BY <1>7 DEF Types
  <1>10. Types' /\ Locals'
    <2>1. stack' \in [Client -> Seq(Frame)]
      BY <1>7 DEF Types
    <2>2. t # <<>>
      BY <1>2, <1>8
    <2> QED
      BY <1>1, <1>9, <2>1, <2>2 DEF Types, Locals, HoldsLock
  <1>11. Chain'
    <2>1. ASSUME NEW i \in 1 .. Len(t) PROVE t[i].left \subseteq Depends(t[i].module)
      <3>1. CASE i \in 1 .. n
        BY <1>8, <3>1 DEF Chain
      <3>2. CASE i = n + 1
        BY <1>2, <1>8, <3>2
      <3> QED
        BY <1>2, <1>8, <3>1, <3>2
    <2>2. ASSUME NEW i \in 1 .. Len(t) - 1 PROVE t[i + 1].module \in Depends(t[i].module)
      <3>1. CASE i = n
        BY <1>2, <1>4, <1>8, <3>1
      <3>2. CASE i # n
        <4>1. i \in 1 .. n - 1 /\ i \in 1 .. n /\ i + 1 \in 1 .. n
          BY <1>2, <1>8, <3>2
        <4> QED
          BY <1>8, <4>1 DEF Chain
      <3> QED
        BY <3>1, <3>2
    <2> QED
      BY <1>9, <2>1, <2>2 DEF Chain
  <1>12. Starting'
    <2>1. ASSUME NEW i \in 1 .. Len(t) PROVE t[i].module \in (enabled \cup raced) \ running
      BY <1>2, <1>8 DEF Starting
    <2> QED
      BY <1>1, <1>9, <2>1 DEF Starting
  <1>13. Calling'
    BY <1>1, <1>9 DEF Calling, Top
  <1>14. StopsToCome'
    BY <1>1 DEF StopsToCome, WillStop
  <1> QED
    BY <1>10, <1>11, <1>12, <1>13, <1>14

\* A plug-in is called only when what it requires runs.
LEMMA LaunchKeeps ==
    ASSUME LifecycleInv, NEW c \in Client, Launch(c)
    PROVE  LifecycleInv'
  <1> USE DEF LifecycleInv
  <1>1. /\ UNCHANGED <<enabled, running, lock, job, copy, todo, current, stack, requests, raced>>
        /\ phase[c] = "frames" /\ phase' = [phase EXCEPT ![c] = "called"]
        /\ Requires[Top(c)] \subseteq running
    BY DEF Launch, Go
  <1>2. Types'
    BY <1>1 DEF Types, Phases
  <1>3. Locals'
    BY <1>1 DEF Locals, HoldsLock, Types
  <1>4. Chain' /\ Starting'
    BY <1>1 DEF Chain, Starting
  <1>5. Calling'
    BY <1>1 DEF Calling, Types, Top
  <1>6. StopsToCome'
    BY <1>1 DEF StopsToCome, WillStop, Types
  <1> QED
    BY <1>2, <1>3, <1>4, <1>5, <1>6

\* A start that is over leaves the plug-ins that wait for it.
LEMMA PopLeaves ==
    ASSUME LifecycleInv, NEW c \in Client, phase[c] \in {"frames", "called"}, Pop(c),
           UNCHANGED <<lock, job, copy, todo, current, requests>>
    PROVE  /\ \A d \in Client : stack'[d] = <<>> \/ d = c
           /\ stack' \in [Client -> Seq(Frame)] /\ phase' \in [Client -> Phases]
           /\ Locals' /\ Chain'
           /\ \A i \in 1 .. Len(stack'[c]) :
                 /\ stack'[c][i].module = stack[c][i].module /\ i \in 1 .. Len(stack[c])
                 /\ stack'[c][i].module # Top(c)
           /\ \A d \in Client : phase'[d] # "called"
           /\ \A d \in Client, m \in Module : WillStop(d, m) => WillStop(d, m)'
  <1> USE DEF LifecycleInv
  <1>1. lock = c /\ stack[c] # <<>> /\ current[c] \in Module
    BY DEF Locals, HoldsLock
  <1> DEFINE n == Len(stack[c])
  <1> DEFINE t == SubSeq(stack[c], 1, n - 1)
  <1>2. stack[c] \in Seq(Frame) /\ n \in Nat \ {0} /\ n \in 1 .. n
    BY <1>1, Held
  <1>3. /\ t \in Seq(Frame) /\ Len(t) = n - 1
        /\ \A i \in 1 .. n - 1 : t[i] = stack[c][i] /\ i \in 1 .. n
    BY <1>2
  <1>4. /\ stack' = [stack EXCEPT ![c] = t]
        /\ phase' = [phase EXCEPT ![c] = IF n = 1 THEN "returned" ELSE "frames"]
    BY DEF Pop, Go
  <1> HIDE DEF t
  <1>5. stack'[c] = t /\ \A d \in Client : d # c => stack'[d] = stack[d] /\ stack'[d] = <<>>
    BY <1>1, <1>4, OneStarts DEF Types
  <1>6. stack' \in [Client -> Seq(Frame)] /\ phase' \in [Client -> Phases]
    BY <1>3, <1>4 DEF Types, Phases
  <1>7. Locals'
    <2>1. t = <<>> <=> n = 1
      <3>1. t = <<>> <=> Len(t) = 0
        BY <1>3, EmptySeq
      <3> QED
        BY <1>2, <1>3, <3>1
    <2> QED
      BY <1>1, <1>4, <1>5, <2>1 DEF Locals, HoldsLock, Types
  <1>8. Chain'
    <2>1. ASSUME NEW i \in 1 .. Len(t) PROVE t[i].left \subseteq Depends(t[i].module)
      BY <1>2, <1>3 DEF Chain
    <2>2. ASSUME NEW i \in 1 .. Len(t) - 1 PROVE t[i + 1].module \in Depends(t[i].module)
      <3>1. i \in 1 .. n - 1 /\ i + 1 \in 1 .. n - 1
        BY <1>2, <1>3
      <3> QED
        BY <1>3, <3>1 DEF Chain
    <2>3. \A d \in Client : d # c => Len(stack'[d]) = 0
      BY <1>5
    <2> QED
      BY <1>5, <2>1, <2>2, <2>3 DEF Chain
  <1>9. ASSUME NEW i \in 1 .. Len(t) PROVE t[i].module # Top(c) /\ i \in 1 .. n
    <2>1. i \in 1 .. n /\ i < n /\ t[i] = stack[c][i]
      BY <1>2, <1>3
    <2> QED
      BY <1>2, <2>1, NotForItself DEF Top
  <1>10. \A d \in Client : phase'[d] # "called"
    BY <1>1, <1>4, OneStarts DEF HoldsLock, Types
  <1>11. \A d \in Client, m \in Module : WillStop(d, m) => WillStop(d, m)'
    BY <1>4 DEF WillStop, Types
  <1> QED
    BY <1>2, <1>3, <1>5, <1>6, <1>7, <1>8, <1>9, <1>10, <1>11

\* What has been started is enabled, or was disabled too late to be seen running.
LEMMA StartedKeeps ==
    ASSUME LifecycleInv, NEW c \in Client, Started(c)
    PROVE  LifecycleInv' /\ Requires[Top(c)] \subseteq running
  <1> USE DEF LifecycleInv
  <1>1. /\ UNCHANGED <<enabled, lock, job, copy, todo, current, requests, raced>>
        /\ phase[c] = "called" /\ Pop(c) /\ running' = running \cup {Top(c)}
    BY DEF Started
  <1>2. stack[c] # <<>>
    BY <1>1 DEF Locals
  <1>3. Top(c) \in enabled \cup raced /\ Top(c) \in Module
    BY <1>2, Held DEF Starting, Top
  <1>4. Types' /\ Locals' /\ Chain'
    BY <1>1, <1>3, PopLeaves DEF Types
  <1>5. Starting'
    <2>1. \A d \in Client : \A i \in 1 .. Len(stack'[d]) :
              /\ d = c /\ stack'[d][i].module = stack[c][i].module
              /\ i \in 1 .. Len(stack[c]) /\ stack'[d][i].module # Top(c)
      BY <1>1, PopLeaves
    <2> QED
      BY <1>1, <2>1 DEF Starting
  <1>6. Calling'
    BY <1>1, PopLeaves DEF Calling
  <1>7. StopsToCome'
    BY <1>1, <1>3, PopLeaves DEF StopsToCome, Types
  <1> QED
    BY <1>1, <1>4, <1>5, <1>6, <1>7 DEF Calling

\* What cannot be started is disabled, and does not run.
LEMMA StartFailsKeeps ==
    ASSUME LifecycleInv, NEW c \in Client, StartFails(c)
    PROVE  LifecycleInv'
  <1> USE DEF LifecycleInv
  <1>1. /\ UNCHANGED <<running, lock, job, copy, todo, current, requests>>
        /\ phase[c] \in {"frames", "called"} /\ Pop(c)
        /\ enabled' = enabled \ {Top(c)} /\ raced' = raced \ {Top(c)}
    BY DEF StartFails
  <1>2. stack[c] # <<>>
    BY <1>1 DEF Locals
  <1>3. Top(c) \notin running
    BY <1>2, Held DEF Starting, Top
  <1>4. Types' /\ Locals' /\ Chain'
    BY <1>1, PopLeaves DEF Types
  <1>5. Starting'
    <2>1. \A d \in Client : \A i \in 1 .. Len(stack'[d]) :
              /\ d = c /\ stack'[d][i].module = stack[c][i].module
              /\ i \in 1 .. Len(stack[c]) /\ stack'[d][i].module # Top(c)
      BY <1>1, PopLeaves
    <2> QED
      BY <1>1, <2>1 DEF Starting
  <1>6. Calling'
    BY <1>1, PopLeaves DEF Calling
  <1>7. StopsToCome'
    BY <1>1, <1>3, PopLeaves DEF StopsToCome, Types
  <1> QED
    BY <1>4, <1>5, <1>6, <1>7

\* The lock is left by the handler that took it, or kept to go back to the version before.
LEMMA ReturnKeeps ==
    ASSUME LifecycleInv, NEW c \in Client, Return(c)
    PROVE  LifecycleInv'
  <1> USE DEF LifecycleInv
  <1>1. UNCHANGED <<running, copy, todo, stack, requests>> /\ phase[c] = "returned"
    BY DEF Return
  <1>2. CASE job[c] = "update" /\ current[c] \notin running
    BY <1>1, <1>2, RollbackKeeps DEF Return
  <1>3. CASE ~(job[c] = "update" /\ current[c] \notin running)
    <2>1. /\ lock' = NoClient /\ current' = [current EXCEPT ![c] = NoModule]
          /\ job' = [job EXCEPT ![c] = "reconcile"] /\ UNCHANGED <<enabled, raced>>
          /\ \E p \in {"starts", "idle"} : phase' = [phase EXCEPT ![c] = p]
      BY <1>3 DEF Return, Unlock, Go
    <2>2. lock = c /\ stack[c] = <<>> /\ c # NoClient /\ NoClient \notin Client
      BY <1>1, PluginAssumption DEF Locals, HoldsLock
    <2>3. \A d \in Client : d # c => ~HoldsLock(d)
      BY <2>2, OneStarts
    <2>4. Types'
      BY <1>1, <2>1 DEF Types, Phases, Jobs
    <2>5. Locals'
      <3>1. \A d \in Client : ~HoldsLock(d)'
        BY <2>1, <2>3 DEF HoldsLock, Types
      <3> QED
        BY <1>1, <2>1, <2>2, <3>1 DEF Locals, Types
    <2>6. Chain' /\ Starting' /\ Calling'
      BY <1>1, <2>1, SameStacks DEF Types
    <2>7. ASSUME NEW n, NEW d \in Client, WillStop(d, n) PROVE WillStop(d, n)'
      BY <1>1, <2>1, <2>7 DEF WillStop, Types
    <2>8. StopsToCome'
      BY <1>1, <2>1, <2>7 DEF StopsToCome
    <2> QED
      BY <2>4, <2>5, <2>6, <2>8
  <1> QED
    BY <1>2, <1>3

-----------------------------------------------------------------------------
(* Workers. *)

\* A step that has nothing to do with the handlers.
LEMMA LifecycleUnchanged ==
    ASSUME LifecycleInv, UNCHANGED <<enabled, running, lock, local, requests, raced>>
    PROVE  LifecycleInv'
  BY DEF LifecycleInv, local, Types, Locals, HoldsLock, Chain, Starting, Calling, Top,
         StopsToCome, WillStop

\* The worker is started while no thread of the plug-in is left.
LEMMA LaunchOne ==
    ASSUME BusInv, OneWorker, Types, Locals, NEW c \in Client, Launch(c)
    PROVE  BusInv' /\ OneWorker' /\ InTurn
  <1>1. Top(c) \in Module
    BY Held DEF Launch, Locals
  <1> DEFINE u == <<Top(c), 1>>
  <1>2. u \in User /\ Workers(Top(c)) = {}
    BY <1>1, PluginAssumption DEF Launch, NoneLeft
  <1>3. at[u] = "none"
    BY <1>2 DEF Workers
  <1>4. Move(u, "none", "idle") /\ UNCHANGED <<active, queued>>
    BY <1>3 DEF Launch, Move
  <1> HIDE DEF u
  <1>5. BusInv'
    BY <1>2, <1>4, ComesAndGoes
  <1>6. \A m \in Module : Workers(m)' \subseteq Workers(m) \cup {u}
    BY <1>4 DEF Workers, Move, BusInv
  <1>7. u[1] = Top(c)
    BY DEF u
  <1>8. \A m \in Module \ {Top(c)} : u \notin Workers(m)'
    BY <1>7 DEF Workers
  <1>9. OneWorker'
    BY <1>2, <1>6, <1>8 DEF OneWorker
  <1>10. InTurn
    BY <1>4 DEF InTurn, Takes, IsRefused, Move, BusInv
  <1> QED
    BY <1>5, <1>9, <1>10

\* Threads use the bus, and end.
LEMMA WorkersKeep ==
    ASSUME BusInv, OneWorker, WorkerUsesBus \/ WorkerEnds
    PROVE  BusInv' /\ OneWorker' /\ InTurn
  <1>1. CASE WorkerUsesBus
    <2>1. PICK u \in User : BusStep(u)
      BY <1>1 DEF WorkerUsesBus
    <2>2. at[u] # "none" /\ \A v \in User : v # u => at'[v] = at[v]
      BY <2>1 DEF BusInv, BusStep, Ask, Acquire, GiveUp, Finish, Release, Move
    <2>3. \A m \in Module : Workers(m)' \subseteq Workers(m)
      BY <2>2 DEF Workers
    <2> QED
      BY <2>1, <2>3, BusStepKeeps, BusStepInTurn DEF OneWorker
  <1>2. CASE WorkerEnds
    <2>1. PICK u \in User : Move(u, "idle", "none")
      BY <1>2 DEF WorkerEnds
    <2>2. UNCHANGED <<active, queued>>
      BY <1>2 DEF WorkerEnds
    <2>3. \A m \in Module : Workers(m)' \subseteq Workers(m)
      BY <2>1 DEF Workers, Move, BusInv
    <2>4. InTurn
      BY <2>1 DEF InTurn, Takes, IsRefused, Move, BusInv
    <2> QED
      BY <2>1, <2>2, <2>3, <2>4, ComesAndGoes DEF OneWorker
  <1> QED
    BY <1>1, <1>2

LEMMA ThreadsUnchanged ==
    ASSUME BusInv, OneWorker, UNCHANGED busVars
    PROVE  BusInv' /\ OneWorker' /\ InTurn
  <1>1. OneWorker'
    BY DEF OneWorker, Workers, busVars
  <1>2. InTurn
    BY DEF InTurn, Takes, IsRefused, busVars
  <1> QED
    BY <1>1, <1>2, BusUnchanged

-----------------------------------------------------------------------------
(* The theorems. *)

\* A plug-in begins to run when it has been started, after all that it requires.
FirstRequired == \A m \in running' \ running : Requires[m] \subseteq running

\* Every step of a handler.
LEMMA HandlerKeeps ==
    ASSUME IInv, NEW c \in Client, ClientStep(c) \/ NewRequest(c)
    PROVE  IInv' /\ FirstRequired /\ InTurn
  <1> USE DEF IInv, FirstRequired
  <1>1. CASE Change(c) \/ WriteCopy(c)
    <2>1. UNCHANGED <<busVars, running>>
      BY <1>1 DEF Change, WriteCopy
    <2> QED
      BY <1>1, <2>1, ChangeKeeps, ThreadsUnchanged
  <1>2. CASE CopyEnabled(c) \/ ReadEnabled(c) \/ Survey(c)
    <2>1. UNCHANGED <<busVars, running>>
      BY <1>2 DEF CopyEnabled, ReadEnabled, Survey
    <2> QED
      BY <1>2, <2>1, SurveyKeeps, ThreadsUnchanged
  <1>3. CASE StopNext(c) \/ PlanStarts(c) \/ StartNext(c) \/ EndReconcile(c)
    <2>1. UNCHANGED <<busVars, running>>
      BY <1>3 DEF StopNext, PlanStarts, StartNext, EndReconcile
    <2> QED
      BY <1>3, <2>1, ReconcileKeeps, ThreadsUnchanged
  <1>4. ASSUME NEW m \in Module, Restart(c, m) \/ Update(c, m) PROVE IInv' /\ FirstRequired /\ InTurn
    <2>1. UNCHANGED <<busVars, running>>
      BY <1>4 DEF Restart, Update
    <2> QED
      BY <1>4, <2>1, ReplaceKeeps, ThreadsUnchanged
  <1>5. CASE EndUnpack(c)
    <2>1. UNCHANGED <<busVars, running>>
      BY <1>5 DEF EndUnpack
    <2> QED
      BY <1>5, <2>1, EndUnpackKeeps, ThreadsUnchanged
  <1>6. CASE EndInstall(c)
    <2>1. UNCHANGED <<busVars, running>>
      BY <1>6 DEF EndInstall
    <2> QED
      BY <1>6, <2>1, EndInstallKeeps, ThreadsUnchanged
  <1>7. CASE EndStop(c)
    <2>1. UNCHANGED busVars /\ running' \subseteq running
      BY <1>7 DEF EndStop
    <2> QED
      BY <1>7, <2>1, EndStopKeeps, ThreadsUnchanged
  <1>8. CASE Enter(c)
    <2>1. UNCHANGED <<busVars, running>>
      BY <1>8 DEF Enter
    <2> QED
      BY <1>8, <2>1, EnterKeeps, ThreadsUnchanged
  <1>9. CASE StartDependency(c)
    <2>1. UNCHANGED <<busVars, running>>
      BY <1>9 DEF StartDependency
    <2> QED
      BY <1>9, <2>1, StartDependencyKeeps, ThreadsUnchanged
  <1>10. CASE Launch(c)
    <2>1. UNCHANGED running
      BY <1>10 DEF Launch
    <2> QED
      BY <1>10, <2>1, LaunchKeeps, LaunchOne DEF LifecycleInv
  <1>11. CASE Started(c)
    <2>1. UNCHANGED busVars /\ running' = running \cup {Top(c)}
      BY <1>11 DEF Started
    <2> QED
      BY <1>11, <2>1, StartedKeeps, ThreadsUnchanged
  <1>12. CASE StartFails(c)
    <2>1. UNCHANGED <<busVars, running>>
      BY <1>12 DEF StartFails
    <2> QED
      BY <1>12, <2>1, StartFailsKeeps, ThreadsUnchanged
  <1>13. CASE Return(c)
    <2>1. UNCHANGED <<busVars, running>>
      BY <1>13 DEF Return
    <2> QED
      BY <1>13, <2>1, ReturnKeeps, ThreadsUnchanged
  <1> QED
    BY <1>1, <1>2, <1>3, <1>4, <1>5, <1>6, <1>7, <1>8, <1>9, <1>10, <1>11, <1>12, <1>13
       DEF ClientStep, NewRequest

LEMMA StepKeeps ==
    ASSUME IInv, [Next]_vars
    PROVE  IInv' /\ FirstRequired /\ InTurn
  <1> USE DEF IInv, FirstRequired
  <1>1. ASSUME NEW c \in Client, ClientStep(c) \/ NewRequest(c)
        PROVE  IInv' /\ FirstRequired /\ InTurn
    BY <1>1, HandlerKeeps
  <1>2. CASE WorkerUsesBus \/ WorkerEnds
    <2>1. UNCHANGED <<enabled, running, lock, local, requests, raced>>
      BY <1>2 DEF WorkerUsesBus, WorkerEnds
    <2> QED
      BY <1>2, <2>1, LifecycleUnchanged, WorkersKeep
  <1>3. CASE UNCHANGED vars
    BY <1>3, LifecycleUnchanged, ThreadsUnchanged DEF vars
  <1> QED
    BY <1>1, <1>2, <1>3 DEF Next

LEMMA InitHolds == Init => IInv
  <1> SUFFICES ASSUME Init PROVE IInv
    OBVIOUS
  <1>1. BusInv
    <2>1. \A l \in 0 .. 2 : Waiting(l) = {} /\ queued[l] = 0
      BY DEF Init, BusInit, Waiting
    <2>2. queued = [l \in 0 .. 2 |-> Cardinality(Waiting(l))]
      BY <2>1, FS_EmptySet DEF Init, BusInit
    <2> QED
      BY <2>2 DEF Init, BusInit, BusInv, OnBus, Places
  <1>2. OneWorker
    BY DEF Init, BusInit, OneWorker, Workers
  <1>3. Types
    <2>1. <<>> \in Seq(Frame)
      OBVIOUS
    <2> QED
      BY <2>1, PluginAssumption DEF Init, Types, Phases, Jobs
  <1>4. Locals
    BY PluginAssumption DEF Init, Locals, HoldsLock
  <1>5. \A c \in Client : stack[c] = <<>> /\ Len(stack[c]) = 0 /\ phase[c] = "idle"
    BY DEF Init
  <1>6. Chain /\ Starting /\ Calling
    BY <1>5 DEF Chain, Starting, Calling
  <1>7. StopsToCome
    BY DEF Init, StopsToCome
  <1> QED
    BY <1>1, <1>2, <1>3, <1>4, <1>6, <1>7 DEF IInv, LifecycleInv

\* The invariant of the plug-ins and their bus.
THEOREM PluginInvariant == Spec => []IInv
  <1>1. Init => IInv
    BY InitHolds
  <1>2. IInv /\ [Next]_vars => IInv'
    BY StepKeeps
  <1> QED
    BY <1>1, <1>2, PTL DEF Spec

\* The types of the plug-ins and of the bus; the lock is held exactly while a plug-in is
\* updated, stopped or started.
THEOREM TypeCorrect == Spec => []TypeOK
  <1>1. IInv => TypeOK
    BY BusTypes DEF IInv, LifecycleInv, Types, Locals, HoldsLock, TypeOK
  <1> QED
    BY PluginInvariant, <1>1, PTL

\* A plug-in is started only when no thread of it is left (NoneLeft), so no second copy runs.
THEOREM NoSecondCopy == Spec => []OneCopy
  <1>1. IInv => OneCopy
    <2> SUFFICES ASSUME IInv, NEW m \in Module PROVE Cardinality(Workers(m)) <= 1
      BY DEF OneCopy
    <2>1. CASE Workers(m) = {}
      BY <2>1, FS_EmptySet
    <2>2. CASE Workers(m) # {}
      <3>1. PICK u \in Workers(m) : Workers(m) = {u}
        BY <2>2 DEF IInv, OneWorker
      <3>2. Cardinality({u}) = 1
        BY FS_Singleton
      <3> QED
        BY <3>1, <3>2
    <2> QED
      BY <2>1, <2>2
  <1> QED
    BY PluginInvariant, <1>1, PTL

\* When all handlers have finished, what is disabled does not run: whoever disables a plug-in
\* goes through start_enabled_plugins afterwards and stops it, unless it was being started.
\* What a failed installation disabled while it ran is left out.
THEOREM DisabledStops == Spec => []DisabledIsStopped
  <1>1. IInv => DisabledIsStopped
    BY DEF IInv, LifecycleInv, StopsToCome, WillStop, DisabledIsStopped
  <1> QED
    BY PluginInvariant, <1>1, PTL

\* What a plug-in requires runs when it begins to run: the lock keeps it running.
THEOREM DependenciesFirst == Spec => RequiredFirst
  <1>1. IInv /\ [Next]_vars => FirstRequired
    BY StepKeeps
  <1> QED
    BY PluginInvariant, <1>1, PTL DEF Spec, RequiredFirst, FirstRequired

\* The bus is given to one thread at a time, by priority, and refused only when another one
\* is on it or ahead: the count of a queue is the number of its threads.
THEOREM BusGoesInTurn == Spec => BusInTurn
  <1>1. IInv /\ [Next]_vars => InTurn
    BY StepKeeps
  <1> QED
    BY PluginInvariant, <1>1, PTL DEF Spec, BusInTurn, InTurn
=============================================================================

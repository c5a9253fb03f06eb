-------------------------------- MODULE I2CGuard --------------------------------
(***************************************************************************)
(* The bus that the threads of plug-ins share: ospy/i2c_guard.py.          *)
(* i2c_transaction is a monitor with three priorities.  A thread enters    *)
(* the queue of its priority, looks again whenever it is woken (and every  *)
(* 50 ms), and gives up when it still cannot have the bus at its deadline. *)
(* It keeps the bus for a settling time after its transaction.             *)
(*                                                                         *)
(* Abstracted: time.  A deadline may pass at any moment, and what a        *)
(* transaction transfers is left out.                                      *)
(***************************************************************************)
EXTENDS Naturals, FiniteSets

CONSTANTS
    User,         \* the threads
    Level(_)      \* the priority of the transactions of a thread: 0 is high, 2 is low

ASSUME LevelAssumption == IsFiniteSet(User) /\ \A u \in User : Level(u) \in 0 .. 2

VARIABLES
    at,        \* where a thread is: "none" if it is not alive
    active,    \* _I2C_ACTIVE
    queued     \* _I2C_WAITING: how many threads wait with each priority

busVars == <<at, active, queued>>

Places == {"none", "idle", "waiting", "using", "settling"}

BusTypeOK ==
    /\ at \in [User -> Places]
    /\ active \in BOOLEAN
    /\ queued \in [0 .. 2 -> 0 .. Cardinality(User)]

Move(u, from, to) == at[u] = from /\ at' = [at EXCEPT ![u] = to]

Ask(u) ==
    /\ Move(u, "idle", "waiting")
    /\ queued' = [queued EXCEPT ![Level(u)] = @ + 1]
    /\ UNCHANGED active

Leave(u) == queued' = [queued EXCEPT ![Level(u)] = @ - 1]

\* The bus is free, and no thread of a higher priority waits.
FreeFor(u) == ~active /\ \A l \in 0 .. Level(u) - 1 : queued[l] = 0

Acquire(u) ==
    /\ FreeFor(u)
    /\ Move(u, "waiting", "using") /\ active' = TRUE /\ Leave(u)

\* Mutant: a thread that gives up stays in its queue.
GiveUpQueued(u) ==
    /\ ~FreeFor(u)
    /\ Move(u, "waiting", "idle") /\ UNCHANGED <<active, queued>>

\* IOError: I2C bus is busy.
GiveUp(u) ==
    /\ ~FreeFor(u)
    /\ Move(u, "waiting", "idle") /\ Leave(u) /\ UNCHANGED active

\* Mutant: the bus is released before it has settled.
FinishAtOnce(u) == Move(u, "using", "settling") /\ active' = FALSE /\ UNCHANGED queued

\* The transaction is over, or has failed.
Finish(u) == Move(u, "using", "settling") /\ UNCHANGED <<active, queued>>

Release(u) == Move(u, "settling", "idle") /\ active' = FALSE /\ UNCHANGED queued

BusStep(u) == Ask(u) \/ Acquire(u) \/ GiveUp(u) \/ Finish(u) \/ Release(u)

BusInit ==
    /\ at = [u \in User |-> "none"]
    /\ active = FALSE
    /\ queued = [l \in 0 .. 2 |-> 0]

-----------------------------------------------------------------------------
(* Properties. *)

Takes(u) == at[u] = "waiting" /\ at'[u] = "using"
IsRefused(u) == at[u] = "waiting" /\ at'[u] = "idle"
Ahead(v, u) == at[v] = "waiting" /\ Level(v) < Level(u)

\* A thread gets the bus only when the former transaction has settled and no thread of a
\* higher priority waits, and is told that it is busy only if it has to wait for another
\* thread: none that gave up, or that was stopped, keeps others from the bus
\* (i2c_guard.py:35-40).
BusInTurn ==
    [][\A u \in User :
          /\ Takes(u) => \A v \in User \ {u} : at[v] \notin {"using", "settling"} /\ ~Ahead(v, u)
          /\ IsRefused(u) => \E v \in User \ {u} : at[v] \in {"using", "settling"} \/ Ahead(v, u)]_busVars
=============================================================================

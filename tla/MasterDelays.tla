----------------------------- MODULE MasterDelays -----------------------------
(***************************************************************************)
(* The master stations with start and stop offsets: the second half of     *)
(* ospy/scheduler.py (_check_schedule), combined_schedule, and what        *)
(* ospy/log.py keeps of the finished runs (clear_runs).                    *)
(*                                                                         *)
(* A master follows the runs that need it, moved by its offsets.  A        *)
(* negative start offset takes the future from the prediction, a positive  *)
(* stop offset takes the past from the run log, which forgets.  The two    *)
(* masters are decided one after the other from one list of runs, that the *)
(* first may replace.                                                      *)
(*                                                                         *)
(* One unit of time is one round of the scheduler.  Abstracted: the runs   *)
(* the programs predict are a set of runs with fixed times; a restricted   *)
(* log of runs keeps no minimum of entries.  Rain, the relay and disabled  *)
(* stations are in IrrigationControl.                                      *)
(***************************************************************************)
EXTENDS Integers

CONSTANTS
    Runs,        \* runs of the programs, or started by hand
    Start,       \* run -> when the programs start it
    Length,      \* run -> how long it takes
    Needs,       \* run -> the masters that its station or program asks for
    Options,     \* the settings to start with
    Floor,       \* the log keeps a finished run at least this long
    MaxTime,     \* bound on the rounds of the scheduler
    MaxRequests  \* bound on what the users do

Masters == {1, 2}

ASSUME MasterAssumption ==
    /\ Start \in [Runs -> Nat] /\ Length \in [Runs -> Nat]
    /\ Needs \in [Runs -> SUBSET Masters]
    /\ Options \subseteq [manual : BOOLEAN, runLog : BOOLEAN, present : SUBSET Masters,
                          on : [Masters -> Int], off : [Masters -> Int]]
    /\ Floor \in Nat /\ MaxTime \in Nat /\ MaxRequests \in Nat

VARIABLES
    options,     \* mode, offsets and which masters there are
    enabled,     \* scheduler_enabled
    now,
    plan,        \* the runs that the enabled programs give
    log,         \* the run log
    running,     \* the masters that are switched on
    past,        \* history: every run there has been, with its times
    requests     \* counts what the users did

vars == <<options, enabled, now, plan, log, running, past, requests>>

Entries == [run : Runs, origin : Nat, start : Nat, end : Nat, active : BOOLEAN]

TypeOK ==
    /\ options \in Options
    /\ enabled \in BOOLEAN
    /\ now \in Nat
    /\ plan \subseteq Runs
    /\ log \subseteq Entries
    /\ running \subseteq Masters
    /\ past \subseteq {e \in Entries : ~e.active => e.end <= now}
    /\ requests \in Nat

-----------------------------------------------------------------------------
(* The run log. *)

Active(entries) == {e \in entries : e.active}
Finished(entries) == {e \in entries : ~e.active}

\* The entries, with those of stopped closed at time t.
Closed(entries, stopped, t) ==
    (entries \ stopped) \cup {[e EXCEPT !.end = t, !.active = FALSE] : e \in stopped}

\* How long clear_runs keeps a finished run that may still count.
Keep == IF options.off[1] > Floor THEN options.off[1] ELSE Floor

\* clear_runs(False): without the run log it keeps what ended a short time before
\* now, or before the first of the active runs.
Remembered(entries, t) ==
    IF options.runLog THEN entries
    ELSE {e \in entries : \/ e.active
                          \/ t - e.end <= Keep
                          \/ \E a \in Active(entries) : a.start - e.end <= Keep}

-----------------------------------------------------------------------------
(* What the programs predict, and the lists that the masters look at. *)

\* A run in the log is not predicted again, nor is one before it.
Skipped(r, entries) == \E e \in entries : e.run = r \/ Start[r] < e.origin

Predicted(entries) == {r \in plan : enabled /\ ~Skipped(r, entries)}

Occurrence(r) == [run |-> r, origin |-> Start[r], start |-> Start[r],
                  end |-> Start[r] + Length[r], active |-> FALSE]

\* combined_schedule: the log and what is still to come.
Combined(entries, t) ==
    entries \cup {Occurrence(r) : r \in {p \in Predicted(entries) : t <= Start[p]}}

Delayed(m) == options.on[m] # 0 \/ options.off[m] # 0

\* Without offsets a master looks at the list it finds; with offsets it makes one.
ViewFor(m, found, entries, t) ==
    IF ~Delayed(m) THEN found
    ELSE IF options.manual THEN Finished(entries) \cup found
    ELSE Combined(entries, t)

\* The second master finds the list that the first one has made.
View(m, listed, entries, t) ==
    IF m = 1 \/ 1 \notin options.present THEN ViewFor(m, listed, entries, t)
    ELSE ViewFor(m, ViewFor(1, listed, entries, t), entries, t)

InWindow(e, m, t) == e.start + options.on[m] <= t /\ t < e.end + options.off[m]

\* Mutant: the stop offset is left out.
WantedToEnd(m, listed, entries, t) ==
    \E e \in View(m, listed, entries, t) :
        m \in Needs[e.run] /\ (Delayed(m) => e.start + options.on[m] <= t /\ t < e.end)

\* Mutant: a run that needs a master need not have come to its time.
WantedEarly(m, listed, entries, t) ==
    \E e \in View(m, listed, entries, t) :
        m \in Needs[e.run] /\ (Delayed(m) => t < e.end + options.off[m])

Wanted(m, listed, entries, t) ==
    \E e \in View(m, listed, entries, t) :
        m \in Needs[e.run] /\ (Delayed(m) => InWindow(e, m, t))

-----------------------------------------------------------------------------
(* The scheduler and the users. *)

\* A finished entry is written back to the log by one call for each run, and each
\* call forgets; the last one forgets most.
CheckSchedule ==
    LET t == now + 1
        listed == Active(log)
        ended == {e \in listed : e.end <= t}
        closed == IF ended = {} THEN log ELSE Remembered(Closed(log, ended, t), t)
        due == {r \in Predicted(closed) :
                    ~options.manual /\ Start[r] <= t /\ t < Start[r] + Length[r]}
        started == {[Occurrence(r) EXCEPT !.start = t, !.active = TRUE] : r \in due}
        logged == IF due = {} THEN closed ELSE Remembered(closed \cup started, t)
    IN  /\ now < MaxTime
        /\ now' = t
        /\ log' = logged
        /\ past' = Closed(past, ended, t) \cup started
        /\ running' = {m \in options.present : Wanted(m, listed, logged, t)}
        /\ UNCHANGED <<options, enabled, plan, requests>>

Request == requests < MaxRequests /\ requests' = requests + 1

\* finish_run for some entries, from a request.
Stop(entries) ==
    /\ Request
    /\ log' = Remembered(Closed(log, entries, now), now)
    /\ past' = Closed(past, entries, now)
    /\ UNCHANGED <<options, now, plan>>

\* Stop all: log.finish_run(None), stations.clear(); the programs stay off.
StopAll ==
    /\ Stop(Active(log))
    /\ enabled' = (enabled /\ options.manual)
    /\ running' = {}

\* One station is switched off by hand; each run has a station of its own.
StopOne(r) ==
    /\ r \in {e.run : e \in Active(log)}
    /\ Stop({e \in Active(log) : e.run = r})
    /\ UNCHANGED <<enabled, running>>

\* A station is switched on by hand for a time, which only manual mode allows.
StartByHand(r) ==
    LET e == [run |-> r, origin |-> now, start |-> now, end |-> now + Length[r], active |-> TRUE]
    IN  /\ options.manual
        /\ Request
        /\ log' = Remembered(log \cup {e}, now)
        /\ past' = past \cup {e}
        /\ UNCHANGED <<options, enabled, now, plan, running>>

\* A user edits the programs, or switches the scheduler on again.
ChangePlan(r) ==
    /\ Request
    /\ plan' = IF r \in plan THEN plan \ {r} ELSE plan \cup {r}
    /\ UNCHANGED <<options, enabled, now, log, running, past>>

Enable ==
    /\ ~enabled /\ Request
    /\ enabled' = TRUE
    /\ UNCHANGED <<options, now, plan, log, running, past>>

Init ==
    /\ options \in Options
    /\ enabled = TRUE /\ now = 0
    /\ plan = Runs
    /\ log = {} /\ running = {} /\ past = {} /\ requests = 0

Next ==
    \/ CheckSchedule
    \/ StopAll
    \/ \E r \in Runs : StopOne(r) \/ StartByHand(r) \/ ChangePlan(r)
    \/ Enable

Spec == Init /\ [][Next]_vars

-----------------------------------------------------------------------------
(* Properties. *)

\* The runs that are predicted now and have yet to start.
Coming == {Occurrence(r) : r \in {p \in Predicted(log) : ~options.manual /\ now < Start[p]}}

\* As long as a run that has ended may keep a master on, the log still has it
\* (the limits in clear_runs against the stop offsets in _check_schedule).
LagIsLogged ==
    \A m \in options.present, e \in past : now < e.end + options.off[m] => e \in log

\* A round of the scheduler leaves a master on that a run needs, one of an earlier
\* round or one to come: from its start to its end, both moved by the offsets
\* (_check_schedule, combined_schedule).
MasterServes ==
    [][now' # now => \A m \in options.present, e \in past \cup Coming' :
            m \in Needs[e.run] /\ InWindow(e, m, now') => m \in running']_vars

\* And it leaves no master on without such a run, that has been or is to come.
\* Without offsets a master may be one round late.
MasterRests ==
    [][now' # now => \A m \in running' :
            \E e \in past \cup past' \cup Coming' :
                /\ m \in Needs[e.run]
                /\ e.start + options.on[m] <= now'
                /\ now' < e.end + options.off[m] + (IF Delayed(m) THEN 0 ELSE 1)]_vars

=============================================================================

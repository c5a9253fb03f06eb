----------------------------- MODULE SchedulePlan -----------------------------
(***************************************************************************)
(* When runs take place: predicted_schedule and _apply_program_pause of    *)
(* ospy/scheduler.py, with what log.clear_runs leaves them to plan with.   *)
(*                                                                         *)
(* The scheduler keeps no plan.  Every pass computes all runs of two days  *)
(* anew from the programs and the log: it takes what ran as given, leaves  *)
(* out what the log tells to have been dealt with, and gives each other    *)
(* run the first place at which the stations open at once do not use more  *)
(* than max_usage.  What is due is started; the rest is forgotten until    *)
(* the next pass, and the log forgets runs too.  So a plan holds from pass *)
(* to pass only if each one comes to it again.                             *)
(*                                                                         *)
(* Abstracted: the calendar of a program is the start and the length of    *)
(* its runs; rain, the mode, group postponements, the two reads of the log *)
(* and the calls of a pass are left to other modules.  Nothing is switched *)
(* by hand here: such a run asks for no place.                             *)
(***************************************************************************)
EXTENDS Integers, Sequences, FiniteSets, SequencesExt

CONSTANTS
    Scheduled,      \* runs of automatic programs, numbered in order of program and station
    Once,           \* runs that a user may ask for
    Cases,          \* pairs of what the programs ask for and the options
    Levels,         \* water levels in percent
    Minute,         \* the 60 s for which the log keeps what has ended
    MaxTime,        \* bound on the clock
    MaxRequests     \* bound on what users do

Job == Scheduled \cup Once
Never == MaxTime + 1

\* What is asked of a run, and the options that a plan depends on.
Programs == [program : Nat, station : Nat, start : 0..Never, length : Nat, usage : Nat]
Settings == [max_usage : Nat, station_delay : Nat, min_runtime : Nat, program_pause : Nat,
             run_log : BOOLEAN]

ASSUME ConstantsAssumption ==
    /\ IsFiniteSet(Scheduled) /\ IsFiniteSet(Once)
    /\ \A c \in Cases : c.program \in [Job -> Programs] /\ c.options \in Settings
    /\ Scheduled \subseteq Nat /\ Once \subseteq Nat /\ Scheduled \cap Once = {}
    /\ Levels \subseteq Nat /\ 100 \in Levels
    /\ Minute \in Nat /\ MaxTime \in Nat /\ MaxRequests \in Nat

VARIABLES
    now,        \* the clock
    program,    \* run -> program, station, start, length, usage
    options,    \* max_usage, station_delay, min_runtime, program_pause, run_log
    level,      \* level_adjustments.total_adjustment()
    log,        \* log._log['Run']
    begun,      \* history: run -> when it was started, or Never
    ended,      \* history: run -> when it was finished, or Never
    again,      \* history: runs that were started more than once
    disturbed,  \* history: a run was stopped, or the water level has changed
    requests

vars == <<now, program, options, level, log, begun, ended, again, disturbed, requests>>

Records == [job : Job, orig : Nat, start : Nat, end : Nat, active : BOOLEAN]

\* What the log and the histories hold.
TypeOK ==
    /\ now \in 0..MaxTime
    /\ program \in [Job -> Programs] /\ options \in Settings
    /\ level \in Levels /\ disturbed \in BOOLEAN
    /\ log \in Seq(Records)
    /\ begun \in [Job -> 0..Never] /\ ended \in [Job -> 0..Never]
    /\ again \subseteq Job
    /\ requests \in 0..MaxRequests

\* The numbers in I with a smaller key first, then the smaller ones (the concatenation
\* lets TLC compute them once).
Ranked(I, key) == <<>> \o
    [k \in 1..Cardinality(I) |-> CHOOSE i \in I :
        Cardinality({j \in I : key[j] < key[i] \/ (key[j] = key[i] /\ j < i)}) = k - 1]

Arranged(s, at) == [k \in DOMAIN at |-> s[at[k]]]

\* The elements of s at the places in I.
Part(s, I) == Arranged(s, Ranked(I, [i \in I |-> i]))

\* A stable sort.
Sorted(s, key(_)) == Arranged(s, Ranked(DOMAIN s, [i \in DOMAIN s |-> key(s[i])]))

Usage(S) == MapThenSumSet(LAMBDA e : program[e.job].usage, S)

-----------------------------------------------------------------------------
(* The runs of a plan, before they are given a place. *)

\* current_active: what has run, then what is running.
Processed(l) ==
    LET running == {i \in DOMAIN l : l[i].active}
    IN Part(l, DOMAIN l \ running) \o Part(l, running)

\* Programs are left out where the last run that was started began later.
TooOld(j, ran) == j \in Scheduled /\ ran # <<>> /\ Last(ran).orig > program[j].start

Impossible(j) == 0 < options.max_usage /\ options.max_usage < program[j].usage

Length(j) ==
    IF j \in Scheduled THEN (program[j].length * level) \div 100 ELSE program[j].length

\* Runs of one station follow one another: one that would begin before the former
\* ends is moved.
Follow(plan, j) ==
    LET before == {i \in DOMAIN plan : program[plan[i].job].station = program[j].station}
        start == Max({program[j].start} \cup {plan[i].end : i \in before})
    IN Append(plan, [job |-> j, orig |-> program[j].start, start |-> start,
                     end |-> start + Length(j), blocked |-> FALSE])

\* Where a run stands in the lists: what was asked for, then the programs.
Listed(j) == IF j \in Once THEN 0 ELSE program[j].program

\* When a station first comes up there.
Entered(station) ==
    Min({Listed(j) : j \in {k \in Job : program[k].station = station /\ program[k].start < Never}})

\* The runs station by station, the stations in the order in which they came up.
Unplaced(ran) ==
    LET given == {j \in Job : program[j].start < Never /\ ~TooOld(j, ran) /\ ~Impossible(j)}
        listed == Ranked(given, [j \in given |-> Listed(j)])
        byStart == Sorted(listed, LAMBDA j : program[j].start)
        byStation == Sorted(byStart, LAMBDA j : program[j].station)
    IN FoldLeft(Follow, <<>>, Sorted(byStation, LAMBDA j : Entered(program[j].station)))

\* Sorted by start, usage and length.
InOrder(plan) ==
    LET byLength == Sorted(plan, LAMBDA e : e.end - e.start)
        byUsage == Sorted(byLength, LAMBDA e : -program[e.job].usage)
    IN Sorted(byUsage, LAMBDA e : e.start)

\* Mutant: what has run is not told from what is to run.
SkipEarlier(plan, r) == Part(plan, {i \in DOMAIN plan : plan[i].orig >= r.orig})

\* Mutant: with a run, all that were to begin with it are left out.
SkipTogether(plan, r) == Part(plan, {i \in DOMAIN plan : plan[i].orig > r.orig})

\* The run of a record is left out, and what was to begin earlier: but for runs that
\* come after it in the plan.
Skip(plan, r) ==
    LET at == SelectInSeq(plan, LAMBDA e : e.job = r.job)
        kept == {i \in DOMAIN plan : plan[i].orig >= r.orig \/ (0 < at /\ at < i)}
    IN Part(plan, kept \ {at})

ManualFirst(plan) == Sorted(plan, LAMBDA e : IF e.job \in Once THEN 0 ELSE 1)

-----------------------------------------------------------------------------
(* Places.  The code keeps the change of the usage at each point of time;  *)
(* used is the set of runs that these changes come from.                   *)

UsedAt(used, t) == Usage({e \in used : e.start <= t /\ t < e.end})
Points(used) == UNION {{e.start, e.end} : e \in used}
Change(used, t) ==
    Usage({e \in used : e.start = t}) - Usage({e \in used : e.end = t})

\* Since when stations have been open at t; the first period in which they were is
\* not seen.
RunningSince(used, t) ==
    LET points == SetToSortSeq({p \in Points(used) : p < t}, <)
        step(s, p) ==
            LET usage == s.usage + Change(used, p)
            IN [usage |-> usage,
                since |-> IF s.usage = 0 /\ usage > 0 /\ p > s.idle THEN p ELSE s.since,
                idle |-> IF usage = 0 /\ s.usage > 0 THEN p ELSE s.idle]
    IN FoldLeft(step, [usage |-> 0, since |-> t, idle |-> t], points).since

\* Mutant: the guard on min_runtime is missing.
GapUnguarded(used, t) ==
    IF t - RunningSince(used, t) <= options.min_runtime THEN 0 ELSE options.station_delay

Gap(used, t) ==
    IF options.min_runtime > 0 /\ t - RunningSince(used, t) < options.min_runtime
    THEN 0 ELSE options.station_delay

\* Mutant: only the beginning of a place has to be free.
FitsAtFirst(used, e, t) == UsedAt(used, t) + program[e.job].usage <= options.max_usage

\* When e begins if it finds its place at t.
Begin(used, e, t) == IF t = e.start THEN t ELSE t + Gap(used, t)

\* From t on there is room for e.
Fits(used, e, t) ==
    LET within == {p \in Points(used) : t < p /\ p < Begin(used, e, t) + (e.end - e.start)}
    IN \A p \in {t} \cup within :
         UsedAt(used, p) + program[e.job].usage <= options.max_usage

\* The first place of e: its own, or after a point where less is used.
Place(used, e) ==
    LET moved(t) == [e EXCEPT !.start = t, !.end = t + e.end - e.start]
        open == {t \in {e.start} \cup {p \in Points(used) : p > e.start /\ Change(used, p) < 0} :
                   Fits(used, e, t)}
    IN IF options.max_usage = 0 THEN e
       ELSE IF open = {} THEN [e EXCEPT !.blocked = TRUE]
       ELSE moved(Begin(used, e, Min(open)))

Span(e) == [job |-> e.job, start |-> e.start, end |-> e.end]

\* One run is given its place; what is blocked uses nothing.
Add(s, e) ==
    LET p == Place(s.used, e)
    IN [used |-> IF p.blocked THEN s.used ELSE s.used \cup {Span(p)}, plan |-> Append(s.plan, p)]

Placed(l, plan) ==
    FoldLeft(Add, [used |-> {Span(l[i]) : i \in DOMAIN l}, plan |-> <<>>], plan).plan

-----------------------------------------------------------------------------
(* _apply_program_pause: a run of a program is moved, with all that began with it, to
   leave a pause after the program before. *)

LastOf(ran) ==
    LET latest == SelectInSeq(ran, LAMBDA r : \A i \in DOMAIN ran : ran[i].end <= r.end)
    IN IF latest = 0 THEN [program |-> 0, end |-> 0]
       ELSE [program |-> program[ran[latest].job].program, end |-> ran[latest].end]

\* Mutant: a program that is running does not count.
LastFinished(l) == LastOf(Part(l, {i \in DOMAIN l : l[i].job \in Scheduled /\ ~l[i].active}))

LastProgram(l) ==
    LET ran == Processed(l)
    IN LastOf(Part(ran, {i \in DOMAIN ran : ran[i].job \in Scheduled}))

\* The runs of one occurrence of a program: the one at i and what began with it.
Automatic(plan) == {i \in DOMAIN plan : plan[i].job \in Scheduled /\ ~plan[i].blocked}
Name(plan, i) == program[plan[i].job].program
Occurrence(plan, i) ==
    {k \in Automatic(plan) : Name(plan, k) = Name(plan, i) /\ plan[k].orig = plan[i].orig}
First(plan, i) == Min({plan[k].start : k \in Occurrence(plan, i)})
End(plan, i) == Max({plan[k].end : k \in Occurrence(plan, i)})

\* An occurrence after what came last, a pause later if that was another program.
PutOff(plan, s, i) ==
    LET shift == IF s.program \notin {0, Name(plan, i)}
                    /\ First(plan, i) < s.end + options.program_pause
                 THEN s.end + options.program_pause - First(plan, i) ELSE 0
        end == End(plan, i) + shift
        last == s.program = 0 \/ end > s.end
    IN [program |-> IF last THEN Name(plan, i) ELSE s.program,
        end |-> IF last THEN end ELSE s.end,
        shift |-> [k \in DOMAIN plan |-> IF k \in Occurrence(plan, i) THEN shift ELSE s.shift[k]]]

Shifts(l, plan) ==
    LET heads == {Min(Occurrence(plan, i)) : i \in Automatic(plan)}
        byName == Ranked(heads, [i \in heads |-> Name(plan, i)])
        last == LastProgram(l)
        init == [program |-> last.program, end |-> last.end, shift |-> [i \in DOMAIN plan |-> 0]]
    IN FoldLeft(LAMBDA s, i : PutOff(plan, s, i), init,
                Sorted(byName, LAMBDA i : First(plan, i))).shift

Paused(l, plan) ==
    LET moved == Shifts(l, plan)
    IN IF options.program_pause = 0 THEN plan
       ELSE [i \in DOMAIN plan |-> [plan[i] EXCEPT !.start = @ + moved[i], !.end = @ + moved[i]]]

Plan(l) ==
    LET ran == Processed(l)
        left == FoldLeft(Skip, InOrder(Unplaced(ran)), ran)
    IN Sorted(Paused(l, Placed(l, ManualFirst(left))), LAMBDA e : e.start)

-----------------------------------------------------------------------------
(* The log *)

Finish(l, t, S) ==
    [i \in DOMAIN l |-> IF l[i].active /\ l[i].job \in S
                        THEN [l[i] EXCEPT !.end = t, !.active = FALSE] ELSE l[i]]

\* clear_runs: without a log of runs, those are forgotten that ended long before
\* the first active run began.
Kept(l) ==
    LET first == Min({now} \cup {l[i].start : i \in {k \in DOMAIN l : l[k].active}})
        keep == Max({options.station_delay + options.min_runtime, Minute})
    IN IF options.run_log THEN l ELSE Part(l, {i \in DOMAIN l : first - l[i].end <= keep})

Over == {log[i].job : i \in {k \in DOMAIN log : log[k].active /\ log[k].end <= now}}

\* The log, once what is over has been finished in it.
Closed == IF Over = {} THEN log ELSE Kept(Finish(log, now, Over))

Due ==
    LET plan == Plan(Closed)
    IN Part(plan, {i \in DOMAIN plan : ~plan[i].blocked /\ plan[i].start <= now /\ now < plan[i].end})

\* What is due is started, after the runs in closed.
StartRuns(closed, due) ==
    LET started == {due[i].job : i \in DOMAIN due}
        record(e) == [job |-> e.job, orig |-> e.orig, start |-> now, end |-> e.end, active |-> TRUE]
    IN /\ log' = IF due = <<>> THEN closed ELSE Kept(closed \o [i \in DOMAIN due |-> record(due[i])])
       /\ begun' = [j \in Job |-> IF j \in started /\ begun[j] = Never THEN now ELSE begun[j]]
       /\ again' = again \cup {j \in started : begun[j] # Never}

\* One pass of the scheduler: _check_schedule.
Pass ==
    /\ now < MaxTime
    /\ StartRuns(Closed, Due)
    /\ ended' = [j \in Job |-> IF j \in Over /\ ended[j] = Never THEN now ELSE ended[j]]
    /\ now' = now + 1
    /\ UNCHANGED <<program, options, level, disturbed, requests>>

Request == requests < MaxRequests /\ requests' = requests + 1

\* The run of a station is stopped by a user.
StopRun(j) ==
    /\ Request
    /\ \E i \in DOMAIN log : log[i].job = j /\ log[i].active
    /\ log' = Kept(Finish(log, now, {j}))
    /\ ended' = [ended EXCEPT ![j] = Min({@, now})]
    /\ disturbed' = TRUE
    /\ UNCHANGED <<now, program, options, level, begun, again>>

\* run_once.set
RequestOnce(j) ==
    /\ Request
    /\ program[j].start = Never
    /\ program' = [program EXCEPT ![j].start = now]
    /\ UNCHANGED <<now, options, level, log, begun, ended, again, disturbed>>

\* Weather, or a user, changes the water level.
ChangeLevel(percent) ==
    /\ Request
    /\ level' = percent /\ disturbed' = TRUE
    /\ UNCHANGED <<now, program, options, log, begun, ended, again>>

Init ==
    /\ now = 0
    /\ \E c \in Cases : program = c.program /\ options = c.options
    /\ level = 100 /\ log = <<>>
    /\ begun = [j \in Job |-> Never] /\ ended = [j \in Job |-> Never]
    /\ again = {} /\ disturbed = FALSE /\ requests = 0

Next ==
    \/ Pass
    \/ \E j \in Job : StopRun(j)
    \/ \E j \in Once : RequestOnce(j)
    \/ \E percent \in Levels : ChangeLevel(percent)

Spec == Init /\ [][Next]_vars

-----------------------------------------------------------------------------
(* Properties *)

Unasked == \A j \in Once : program[j].start = Never

\* However often the plan is made anew, and whatever users ask for in between, the
\* stations open at once use no more than max_usage (options.py:416).  A pause between
\* programs is added after places were found, and does not look at what a user asked for.
UsageKept ==
    options.max_usage > 0 /\ (options.program_pause = 0 \/ Unasked) =>
        Usage({log[i] : i \in {k \in DOMAIN log : log[k].active}}) <= options.max_usage

\* No occurrence of a program takes place twice (scheduler.py:372).
EachRunOnce == again = {}

\* The plan can rely on its past: the log knows it all, or all of it went to plan, so
\* that what is forgotten is planned where it was.
Retold == options.run_log \/ (~disturbed /\ options.program_pause = 0)

\* Nor does one that the log has forgotten, as long as the plan comes to the same again
\* (log.py:346).
NothingRepeats == Retold => EachRunOnce

\* Every occurrence takes place in the end, however long it had to wait for others, if
\* stations use the same and none runs for so short that it fits into a pause between
\* others.  With run-once it is different: what still waits then is dropped.
EveryRunTakesPlace ==
    Retold /\ Unasked /\ now = MaxTime => \A j \in Scheduled : begun[j] # Never

\* Where one station runs at a time, one that had to wait for another begins a pause
\* after any that ran before, unless that was short (options.py:432, 441).
DelayKept ==
    options.max_usage = 1 =>
        \A i, j \in Job :
            /\ program[i].station # program[j].station
            /\ begun[j] # Never /\ ended[i] <= begun[j] /\ program[j].start < begun[j]
            => \/ begun[j] >= ended[i] + options.station_delay
               \/ ended[i] - begun[i] < options.min_runtime

\* A program begins no earlier than a pause after the end of any other one that began
\* before it, as it really ended (Programs.md:45).
PauseKept ==
    options.program_pause > 0 =>
      \A i, j \in Scheduled :
        /\ program[i].program # program[j].program
        /\ ended[i] # Never /\ begun[j] # Never /\ begun[i] <= begun[j]
        => begun[j] >= ended[i] + options.program_pause
===============================================================================

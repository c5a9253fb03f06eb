---------------------------- MODULE MCSchedulePlan ----------------------------
(* Bounds for the runs on SchedulePlan: programs on three stations and a run that a
   user asks for. *)
EXTENDS SchedulePlan

Run(p, station, start, length) ==
    [program |-> p, station |-> station, start |-> start, length |-> length, usage |-> 1]
OnceRun == Run(0, 9, Never, 2)

\* One program on two stations and one on a third, which begin together or not.  The second
\* has the first station: it is the order of the programs that counts.
TwoPrograms ==
    {<<Run(1, 2, 0, l[1]), Run(1, 3, 0, l[2]), Run(2, 1, start, l[3]), OnceRun>> :
        l \in [1..3 -> 2..3], start \in {0, 1, 4}}

\* A program on one station, and one that begins twice on another.
Repeated ==
    {<<Run(1, 1, 0, l), Run(2, 2, start, 2), Run(2, 2, start + 3, 2), OnceRun>> :
        l \in 2..3, start \in 1..2}

Opt(usage, delay, runtime, pause, runLog) ==
    [max_usage |-> usage, station_delay |-> delay, min_runtime |-> runtime,
     program_pause |-> pause, run_log |-> runLog]

Pairs(programs, choices) == [program : programs, options : choices]

Planned ==
    Pairs(TwoPrograms, {Opt(u, d, 0, p, TRUE) : u \in 1..2, d \in 0..1, p \in {0, 2}})
    \cup Pairs(TwoPrograms, {Opt(u, d, 0, 0, FALSE) : u \in 1..2, d \in 0..1})
    \cup Pairs(Repeated, {Opt(u, d, 0, 0, runLog) : u \in 1..2, d \in 0..1, runLog \in BOOLEAN})

PauseUnlogged == Pairs(TwoPrograms, {Opt(0, 0, 0, 2, FALSE)})
Runtime == Pairs(TwoPrograms, {Opt(1, 1, 1, 0, TRUE)})
===============================================================================

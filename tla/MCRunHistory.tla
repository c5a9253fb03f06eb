----------------------------- MODULE MCRunHistory -----------------------------
(* Windows of the occurrences for the runs on RunHistory. *)
EXTENDS RunHistory

CONSTANTS o1, o2

AtOnce == [u \in Occ |-> 0]

\* One window ends within the run, the others do not.
OneShort == [u \in Occ |-> IF u = o2 THEN 1 ELSE MaxTime + 1]
=============================================================================

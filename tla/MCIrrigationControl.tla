------------------------ MODULE MCIrrigationControl ------------------------
(***************************************************************************)
(* A small installation: three zones that use the master valve, the second *)
(* of which ignores rain, one occurrence of a program on each of the first *)
(* two, a run-once request on the third and one run that can be started by *)
(* hand on any of them.                                                    *)
(***************************************************************************)
EXTENDS IrrigationControl

CONSTANTS s1, s2, s3, m1, m2, o1, o2, r1, k1, c1

MCMasterStation == <<m1, NoStation>>
MCUsesMaster    == <<Zone, {}>>
MCOccStation    == [o \in {o1, o2} |-> IF o = o1 THEN s1 ELSE s2]
MCOccStart      == [o \in {o1, o2} |-> IF o = o1 THEN 0 ELSE 1]
MCOccEnd        == [o \in {o1, o2} |-> 2]
MCOccEndLate    == [o \in {o1, o2} |-> IF o = o1 THEN Forever ELSE 2]
MCNoControl     == [o \in Occ \cup OnceId |-> 0]
MCOnceStation   == [r \in OnceId |-> s3]
MCOnceLength    == [r \in OnceId |-> 1]

\* Two masters: the program of the first occurrence drives the second one for its by-program
\* station, the other zone asks for the first one itself.
MCTwoMasters    == <<m1, m2>>
MCUsesFirst     == <<{s2, s3}, {}>>
MCControlSecond == [o \in Occ \cup OnceId |-> IF o = o1 THEN 2 ELSE 0]
=============================================================================

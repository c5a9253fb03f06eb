---------------------------- MODULE MCMasterDelays ----------------------------
(* Bounds for the runs on MasterDelays: three runs on end and overlapping, and the
   offsets in each combination of signs. *)
EXTENDS MasterDelays, TLC

CONSTANTS r1, r2, r3

MCStart == (r1 :> 2) @@ (r2 :> 4) @@ (r3 :> 6)
MCLength == (r1 :> 2) @@ (r2 :> 1) @@ (r3 :> 2)
MCNeeds == (r1 :> {1, 2}) @@ (r2 :> {1}) @@ (r3 :> {2})

Setting(manual, runLog, present, on, off) ==
    [manual |-> manual, runLog |-> runLog, present |-> present, on |-> on, off |-> off]

\* The second master has offsets if the first one has, and no longer a lag than the
\* log keeps.
Settings ==
    {Setting(manual, runLog, {1, 2}, o[1], o[2]) :
        manual \in BOOLEAN, runLog \in BOOLEAN,
        o \in {<<<<0, 0>>, <<0, 0>>>>, <<<<0, 0>>, <<-1, 1>>>>,
               <<<<-1, 1>>, <<3, 2>>>>, <<<<1, 0>>, <<0, -1>>>>}}
    \cup {Setting(FALSE, FALSE, {2}, <<0, -2>>, <<2, 1>>)}

=============================================================================

----------------------------- MODULE MCServerStop -----------------------------
(* Bounds for the runs on ServerStop: the commands that meet. *)
EXTENDS ServerStop, TLC

CONSTANTS s1, c1, c2

\* A reboot and the restore of a backup: the one that comes second finds stop begun.
MCPower == (c1 :> "reboot") @@ (c2 :> "restore")

=============================================================================

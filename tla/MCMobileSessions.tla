--------------------------- MODULE MCMobileSessions ---------------------------
(* Tokens are told apart by random identifiers: they are alike. *)
EXTENDS MobileSessions, TLC

CONSTANTS d1, t1, t2, t3, t4

Alike == Permutations({t1, t2, t3, t4})
=============================================================================

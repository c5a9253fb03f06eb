---------------------------- MODULE DurableSettings ----------------------------
(***************************************************************************)
(* What the settings on disk promise, whatever files they are kept in: one *)
(* value that a start would find.  A write offers a new value; until it is *)
(* committed a stop of the process leaves the old one, afterwards the new  *)
(* one, and nothing in between.  The promise ends when the store is        *)
(* exposed: a database was damaged, or a write begins without a complete   *)
(* copy of what it replaces.  A commit or a restart renews it.             *)
(***************************************************************************)
CONSTANT Values

VARIABLES
    value,     \* what a start would find
    offer,     \* what the last write was to save
    exposed    \* the promise is suspended

dvars == <<value, offer, exposed>>

\* A write begins.
Offer ==
    /\ offer' \in Values
    /\ UNCHANGED <<value, exposed>>

\* A write takes effect, and renews the promise.
Commit ==
    /\ value' = offer
    /\ exposed' = FALSE
    /\ UNCHANGED offer

\* A start takes what it finds, and renews the promise.
Restart ==
    /\ offer' = value
    /\ exposed' = FALSE
    /\ UNCHANGED value

\* Damage, the beginning of a write without a complete copy (which may at once hide
\* what was there), and all that may happen to what is exposed.
Expose ==
    /\ exposed' = TRUE
    /\ value' \in Values /\ offer' \in Values

Init == value \in Values /\ offer = value /\ exposed = FALSE

Next == Offer \/ Commit \/ Restart \/ Expose

Spec == Init /\ [][Next]_dvars
=============================================================================

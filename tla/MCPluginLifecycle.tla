---------------------------- MODULE MCPluginLifecycle ----------------------------
(* A provider with a high priority on the bus, and a consumer with a low one. *)
EXTENDS PluginLifecycle

CONSTANTS provider, consumer, c1, c2

MCUser == Module \X {1, 2}
MCLevel(u) == IF u[1] = provider THEN 0 ELSE 2
MCRequires == [m \in Module |-> IF m = consumer THEN {provider} ELSE {}]
MCPrefers == [m \in Module |-> {}]
=============================================================================

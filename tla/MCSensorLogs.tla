---------------------------- MODULE MCSensorLogs ----------------------------
(* Bounds for the run on SensorLogs: one sensor, and every fault. *)
EXTENDS SensorLogs

CONSTANT u1

OneSensor == <<u1>>
=============================================================================

---------------------------- MODULE MCOptionsStore ----------------------------
(* Bounds for the run on OptionsStore: three of the storage modes - SQLite first, only
   written along, and not used - and the two callers of a write. *)
EXTENDS OptionsStore

TimerAndSave == {"timer", "save_now"}
ModesInUse == {"compatible", "verification", "sqlite_primary"}
=============================================================================

----------------------------- MODULE MCWatcher -----------------------------
(* Watcher on one file: every path has timers and records of its own. *)
EXTENDS Watcher

CONSTANTS p1
=============================================================================

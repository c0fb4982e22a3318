--------------------------- MODULE MCTriggerGuard ---------------------------
(***************************************************************************)
(* Small instances of TriggerGuard for TLC: one event watcher, one poller, *)
(* and two goroutines for the callbacks of debounce timers.                *)
(***************************************************************************)
EXTENDS TriggerGuard, TLC

CONSTANTS c1, c2

CallbackSymmetry == Permutations({c1, c2})
=============================================================================

----------------------- MODULE MCGlobalCompletion -----------------------
(***************************************************************************)
(* Small instances of GlobalCompletion: two cores, and two tasks that may  *)
(* be spawned at a time.  The share of core 1 decomposes twice, so that a  *)
(* task spawned there, possibly stolen by core 0, spawns again.            *)
(***************************************************************************)
EXTENDS GlobalCompletion

Shares == [c \in Cores |-> IF c = 0 THEN 1 ELSE 2]
=========================================================================

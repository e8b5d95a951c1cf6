------------------------- MODULE MCWorkStealing -------------------------
(***************************************************************************)
(* Small instances of WorkStealing.  srandom(0) gives every core the same  *)
(* permutation of the cores; the one here is not the identity.             *)
(***************************************************************************)
EXTENDS WorkStealing

Rotated == [c \in Cores |-> (c + 1) % NumCores]
=========================================================================

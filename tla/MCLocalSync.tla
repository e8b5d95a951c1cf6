-------------------------- MODULE MCLocalSync --------------------------
(***************************************************************************)
(* LocalSync for TLC: programs that use each object, with two or three     *)
(* workers and one or two remote callers.                                  *)
(***************************************************************************)
EXTENDS LocalSync

\* Objects that a program may use together without blocking itself.
SeparatePrograms == {{"mutex", "list"}, {"pool"}, {"fe"}, {"ce", "list"}}

\* A FullEmpty has the most operations, and the fewest calls.
CallBounds ==
    [p \in SeparatePrograms |-> IF "fe" \in p THEN 4 ELSE IF "mutex" \in p THEN 5 ELSE 7]
===========================================================================

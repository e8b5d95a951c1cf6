---------------------------- MODULE OneSided ----------------------------
(***************************************************************************)
(* What a soNUMA queue pair promises to the thread that owns it: remote    *)
(* reads and writes are executed once each, in the order in which they     *)
(* were posted, and their completions are reported once each, in the same  *)
(* order; at most Capacity operations are posted and not yet reported.     *)
(* The specification knows neither rings nor phase bits.                   *)
(***************************************************************************)
EXTENDS Integers, Sequences

CONSTANTS
    Capacity,          \* how many operations may be outstanding
    Ops,               \* the operations that can be posted
    Apply(_, _),       \* Apply(op, <<ctx, lbuf>>): the memories after op
    Mem0               \* the set of possible initial pairs <<ctx, lbuf>>

VARIABLES
    pending,           \* posted and not executed, oldest first
    unreported,        \* executed and not reported, oldest first
    mem                \* <<ctx, lbuf>>

vars == <<pending, unreported, mem>>

Init ==
    /\ pending = << >>
    /\ unreported = << >>
    /\ mem \in Mem0

\* The thread posts an operation.
Post(op) ==
    /\ Len(pending) + Len(unreported) < Capacity
    /\ pending' = Append(pending, op)
    /\ UNCHANGED <<unreported, mem>>

\* The memory controller executes the oldest posted operation.
Execute ==
    /\ pending # << >>
    /\ mem' = Apply(Head(pending), mem)
    /\ pending' = Tail(pending)
    /\ unreported' = Append(unreported, Head(pending))

\* The thread learns that the oldest executed operation is complete.
Report ==
    /\ unreported # << >>
    /\ unreported' = Tail(unreported)
    /\ UNCHANGED <<pending, mem>>

\* Until its first operation, the thread sets the memories up with plain
\* stores.
Setup ==
    /\ pending = << >> /\ unreported = << >>
    /\ mem' \in Mem0
    /\ UNCHANGED <<pending, unreported>>

Next ==
    \/ \E op \in Ops : Post(op)
    \/ Execute
    \/ Report
    \/ Setup

\* What may happen, and that every posted operation is executed eventually.
Safety == Init /\ [][Next]_vars
Spec == Safety /\ WF_vars(Execute)
=========================================================================

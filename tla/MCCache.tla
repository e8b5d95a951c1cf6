---------------------------- MODULE MCCache ----------------------------
(***************************************************************************)
(* Cache for TLC: ranges that begin and end at, before and after block     *)
(* boundaries, of elements that straddle them.                             *)
(***************************************************************************)
EXTENDS Cache

At2D(c) == [address |-> [core |-> c, at |-> 1], count |-> 1]
Nothing == [address |-> [core |-> Linear, at |-> 2], count |-> 0]
LinearRanges ==
    {[address |-> [core |-> Linear, at |-> p[1]], count |-> p[2]] :
       p \in {q \in (0 .. MemSize - 1) \X (1 .. MemSize) : q[1] + q[2] * SizeT <= MemSize}}

AllRanges == LinearRanges \cup {At2D(0), At2D(1), Nothing}

\* A reset moves between a range in three blocks, an element that straddles a
\* boundary, one that ends at a boundary and an object of another core:
\* neither this core's own objects nor no elements.
RemoteRanges ==
    {[address |-> [core |-> Linear, at |-> p[1]], count |-> p[2]] :
       p \in {<<3, 2>>, <<2, 1>>, <<5, 1>>}} \cup {At2D(1)}
===========================================================================

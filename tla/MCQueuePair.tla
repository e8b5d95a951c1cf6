--------------------------- MODULE MCQueuePair ---------------------------
(***************************************************************************)
(* An instance of QueuePair: two nodes, a ring of two entries, so that the *)
(* cursors wrap and the ring fills, and reads and writes whose effects do  *)
(* not commute.                                                            *)
(***************************************************************************)
EXTENDS QueuePair

MCValues == 0 .. 4
MCInitCtx == [n \in Nodes |-> [w \in 0 .. CtxWords - 1 |-> n + w + 1]]
MCAppData == [w \in 0 .. BufWords - 1 |-> 4]

MCRequests ==
    {[op |-> "r", buf_offset |-> 0, nid |-> 1, offset |-> 0, length |-> 2],
     [op |-> "w", buf_offset |-> 1, nid |-> 1, offset |-> 0, length |-> 0],
     [op |-> "r", buf_offset |-> 0, nid |-> 0, offset |-> 1, length |-> 1]}
=========================================================================

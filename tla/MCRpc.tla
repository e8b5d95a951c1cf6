------------------------------ MODULE MCRpc ------------------------------
(***************************************************************************)
(* Small instances of Rpc: one server thread on node 1, two clients on     *)
(* node 0.                                                                 *)
(***************************************************************************)
EXTENDS Rpc

TwoOnOneNode == {<<0, 0>>, <<0, 1>>}
OneServer == {<<1, 0>>}
Everybody == TwoOnOneNode \union OneServer
CallNode1 == [c \in Clients |-> 1]
=========================================================================

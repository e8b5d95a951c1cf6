-------------------------- MODULE MCBootstrap --------------------------
(***************************************************************************)
(* Bootstrap for TLC, with the domains of softrmc_daemon/servers.txt.      *)
(***************************************************************************)
EXTENDS Bootstrap

\* servers.txt: node k runs in domain k + 1.
ServersTxt == [n \in Nodes |-> n + 1]
===========================================================================

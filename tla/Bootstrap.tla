--------------------------- MODULE Bootstrap ---------------------------
(***************************************************************************)
(* How the daemons build the global address space (ctx_alloc_grant_map and *)
(* ctx_map in softrmc_daemon/rmcd.cpp) with the help of the memory region  *)
(* driver of each node (softrmc_driver).                                   *)
(*                                                                         *)
(* A daemon goes through the nodes in the order of their numbers: it       *)
(* connects to the ones below its own and accepts a connection for each    *)
(* one above.  Over the connection the two exchange grant references: the  *)
(* driver grants the peer's domain access to the local region (GETREF),    *)
(* the reference is sent, the peer's is received and recorded (PUTREF).    *)
(* At the end each region is mapped from its recorded reference.           *)
(*                                                                         *)
(* A socket is named by the node at its other end; each direction is a     *)
(* FIFO of integers.  Grant references are indices in the grant table of   *)
(* the domain that grants, so tables of two nodes use the same numbers.    *)
(***************************************************************************)
EXTENDS Integers, Sequences, FiniteSets

CONSTANTS
    node_cnt,       \* the daemon's first argument
    domid,          \* [Nodes -> domain of the node], from servers.txt
    InOrder,        \* daemons reach a listener in the order of their numbers
    Refusals,       \* where the hypervisor may refuse a grant, see Outcomes
    MaxRefusals,    \* bound: grants refused in a run
    StackValues     \* what the uninitialised info.desc_gref may hold

Nodes == 0 .. node_cnt - 1

\* create_mr_reference: it grants the root page, then the descriptor pages and
\* the region's pages, or is refused the root page, the first page of one of
\* the two loops, or a later one.
Outcomes == {"made", "no root", "no first", "no later"}

ASSUME BootstrapAssumption ==
    /\ node_cnt \in Nat \ {0} /\ InOrder \in BOOLEAN
    /\ Refusals \subseteq Outcomes \ {"made"} /\ MaxRefusals \in Nat
    /\ StackValues \subseteq Nat /\ StackValues # {}
    /\ domid \in [Nodes -> Nat]
    /\ \A n, m \in Nodes : domid[n] = domid[m] => n = m

NoFd == -1          \* sinfo is not initialised: no socket has this number
NoRef == 0
NoRegion == -1
Garbage == -2       \* pages mapped through something that is no descriptor

VARIABLES
    stage,      \* [Nodes -> where the daemon is]
    i,          \* [Nodes -> 0 .. node_cnt], the index of the daemon's loops
    srv_idx,    \* [Nodes -> Nodes], the node that the exchange is with
    fd,         \* [Nodes -> [Nodes -> Nodes \cup {NoFd}]], sinfo[].fd
    pending,    \* [Nodes -> Seq(Nodes)], connections not accepted yet
    wire,       \* [Nodes \X Nodes -> Seq(Nat)], sent and not received
    grants,     \* [Nodes -> Seq([to : domains, root : BOOLEAN])], the node's grant table
    refused,    \* the pairs of nodes for which GETREF made no reference
    desc_gref,  \* [Nodes -> Nat], info.desc_gref
    rdomh,      \* [Nodes -> [Nodes -> entry of the driver]]
    ctx         \* [Nodes -> [Nodes -> node whose memory is mapped there]]

vars == <<stage, i, srv_idx, fd, pending, wire, grants, refused, desc_gref, rdomh, ctx>>

Stages == {"start", "loop", "accepted", "exchange", "granted", "sent", "map", "active",
           "exited", "hung"}

Init ==
    /\ stage = [n \in Nodes |-> "start"]
    /\ i = [n \in Nodes |-> 0] /\ srv_idx = [n \in Nodes |-> 0]
    /\ fd = [n \in Nodes |-> [m \in Nodes |-> NoFd]]
    /\ pending = [n \in Nodes |-> << >>]
    /\ wire = [p \in Nodes \X Nodes |-> << >>]
    /\ grants = [n \in Nodes |-> << >>] /\ refused = {}
    /\ desc_gref \in [Nodes -> StackValues]
    /\ rdomh = [n \in Nodes |-> [m \in Nodes |-> [domid |-> 0, gref |-> NoRef]]]
    /\ ctx = [n \in Nodes |-> [m \in Nodes |-> NoRegion]]

---------------------------------------------------------------------------
Goto(n, s) == stage' = [stage EXCEPT ![n] = s]
Listening(n) == stage[n] # "start"

\* Memory is allocated and registered (MR_ALLOC), servers.txt is read, and the
\* daemon listens.
Listen(n) ==
    /\ stage[n] = "start"
    /\ Goto(n, "loop")
    /\ UNCHANGED <<i, srv_idx, fd, pending, wire, grants, refused, desc_gref, rdomh, ctx>>

\* The loop skips the daemon's own node, and ends with ctx_map.
Advance(n) ==
    LET next == i[n] + 1 IN
    /\ i' = [i EXCEPT ![n] = IF next < node_cnt THEN next ELSE 0]
    /\ Goto(n, IF next < node_cnt THEN "loop" ELSE "map")

Skip(n) ==
    /\ stage[n] = "loop" /\ i[n] = n
    /\ Advance(n)
    /\ UNCHANGED <<srv_idx, fd, pending, wire, grants, refused, desc_gref, rdomh, ctx>>

\* i > this_nid: whoever is first in the listener's queue is taken for node i.
accept(n) ==
    /\ stage[n] = "loop" /\ i[n] > n /\ pending[n] # << >>
    /\ fd' = [fd EXCEPT ![n][i[n]] = Head(pending[n])]
    /\ pending' = [pending EXCEPT ![n] = Tail(@)]
    /\ Goto(n, "accepted")
    /\ UNCHANGED <<i, srv_idx, wire, grants, refused, desc_gref, rdomh, ctx>>

\* The peer's number is the first integer it sends.
recv_nid(n) ==
    LET peer == fd[n][i[n]] IN
    /\ stage[n] = "accepted" /\ wire[<<peer, n>>] # << >>
    /\ srv_idx' = [srv_idx EXCEPT ![n] = Head(wire[<<peer, n>>])]
    /\ wire' = [wire EXCEPT ![<<peer, n>>] = Tail(@)]
    /\ Goto(n, "exchange")
    /\ UNCHANGED <<i, fd, pending, grants, refused, desc_gref, rdomh, ctx>>

\* Nothing in the code orders the daemons; whoever starts them may.
MayReach(n, m) == InOrder => \A k \in m + 1 .. n - 1 : fd[k][m] # NoFd

\* i < this_nid: connect is retried until node i listens; then the number of
\* this node is sent.
connect(n) ==
    LET m == i[n] IN
    /\ stage[n] = "loop" /\ m < n
    /\ Listening(m) /\ MayReach(n, m)
    /\ fd' = [fd EXCEPT ![n][m] = m]
    /\ pending' = [pending EXCEPT ![m] = Append(@, n)]
    /\ wire' = [wire EXCEPT ![<<n, m>>] = Append(@, n)]
    /\ srv_idx' = [srv_idx EXCEPT ![n] = m]
    /\ Goto(n, "exchange")
    /\ UNCHANGED <<i, grants, refused, desc_gref, rdomh, ctx>>

\* As if the driver granted the region to the domain of the node itself.
GranteeSelf(n, m) == domid[n]

\* GETREF's grantee: the domain that servers.txt gives the peer.
Grantee(n, m) == domid[m]

\* As if a refused root page were not noticed.
NewRefUnchecked(n, o) ==
    CASE o = "made" -> Len(grants[n]) + 1 [] o = "no root" -> -1 [] OTHER -> desc_gref[n]

\* info.desc_gref after GETREF: it stays as it was when the region could not be
\* granted, and the ioctl succeeds all the same.
NewRef(n, o) == IF o = "made" THEN Len(grants[n]) + 1 ELSE desc_gref[n]

\* What is left in the grant table.  The clean-up loop, while(--i), spares the
\* first page.
NewGrants(n, o) ==
    IF o \in {"made", "no later"}
      THEN Append(grants[n], [to |-> Grantee(n, srv_idx[n]), root |-> o = "made"])
      ELSE grants[n]

\* GETREF.  When the first page was the one refused, while(--i) starts from -1
\* and does not come back.
getref(n) ==
    \E o \in {"made"} \cup IF Cardinality(refused) < MaxRefusals THEN Refusals ELSE {} :
        /\ stage[n] = "exchange"
        /\ rdomh' = [rdomh EXCEPT ![n][srv_idx[n]].domid = domid[srv_idx[n]]]
        /\ grants' = [grants EXCEPT ![n] = NewGrants(n, o)]
        /\ desc_gref' = [desc_gref EXCEPT ![n] = NewRef(n, o)]
        /\ refused' = IF o = "made" THEN refused ELSE refused \cup {<<n, srv_idx[n]>>}
        /\ Goto(n, IF o = "no first" THEN "hung" ELSE "granted")
        /\ UNCHANGED <<i, srv_idx, fd, pending, wire, ctx>>

\* The reference is sent over sinfo[srv_idx].fd.  A socket that was never set
\* makes send fail: its result is compared as unsigned, and the daemon goes on.
send_ref(n) ==
    LET peer == fd[n][srv_idx[n]] IN
    /\ stage[n] = "granted"
    /\ wire' = IF peer = NoFd THEN wire
               ELSE [wire EXCEPT ![<<n, peer>>] = Append(@, desc_gref[n])]
    /\ Goto(n, "sent")
    /\ UNCHANGED <<i, srv_idx, fd, pending, grants, refused, desc_gref, rdomh, ctx>>

\* As if node_id did not keep its value from one ioctl to the other.
RecordAtZero(n, m) == 0

\* PUTREF's entry: node_id is still that of GETREF.
RecordAt(n, m) == m

\* The peer's reference is received and recorded; recv on a socket that was
\* never set fails for ever.
recv_ref(n) ==
    LET m == srv_idx[n] peer == fd[n][m] IN
    /\ stage[n] = "sent" /\ peer # NoFd
    /\ wire[<<peer, n>>] # << >>
    /\ desc_gref' = [desc_gref EXCEPT ![n] = Head(wire[<<peer, n>>])]
    /\ rdomh' = [rdomh EXCEPT ![n][RecordAt(n, m)].gref = desc_gref'[n]]
    /\ wire' = [wire EXCEPT ![<<peer, n>>] = Tail(@)]
    /\ Advance(n)
    /\ UNCHANGED <<srv_idx, fd, pending, grants, refused, ctx>>

\* What the hypervisor maps for domain d by reference g of domain e: the region
\* of the node in domain e, if g is the root that was granted to d.
Granted(d, e, g) ==
    LET granters == {m \in Nodes : domid[m] = e /\ g \in DOMAIN grants[m] /\ grants[m][g].to = d}
        m == CHOOSE m \in granters : TRUE
    IN IF granters = {} THEN NoRegion ELSE IF grants[m][g].root THEN m ELSE Garbage

\* As if current_entry were the entry of the loop's last turn.
EntryBefore(n, m) == rdomh[n][IF m = 0 THEN m ELSE m - 1]

\* RMAP makes the node's entry the current one.
current_entry(n, m) == rdomh[n][m]

\* ctx_map: RMAP and mmap for every other node; a region that cannot be mapped
\* ends the daemon.
map(n) ==
    LET m == i[n]
        e == current_entry(n, m)
        r == IF m = n THEN n ELSE Granted(domid[n], e.domid, e.gref)
    IN
    /\ stage[n] = "map"
    /\ ctx' = [ctx EXCEPT ![n][m] = r]
    /\ IF r = NoRegion
         THEN Goto(n, "exited") /\ UNCHANGED i
         ELSE /\ i' = [i EXCEPT ![n] = @ + 1]
              /\ Goto(n, IF m + 1 = node_cnt THEN "active" ELSE "map")
    /\ UNCHANGED <<srv_idx, fd, pending, wire, grants, refused, desc_gref, rdomh>>

---------------------------------------------------------------------------
Step(n) ==
    \/ Listen(n) \/ Skip(n) \/ accept(n) \/ recv_nid(n) \/ connect(n)
    \/ getref(n) \/ send_ref(n) \/ recv_ref(n) \/ map(n)

Next == \E n \in Nodes : Step(n)

\* Every daemon runs, and its blocking calls return when they can.
Fairness == \A n \in Nodes : WF_vars(Step(n))

Spec == Init /\ [][Next]_vars /\ Fairness

---------------------------------------------------------------------------
\* The daemons' and drivers' variables keep their types; in particular no
\* error number of the hypervisor travels as a reference.
TypeOK ==
    /\ stage \in [Nodes -> Stages]
    /\ i \in [Nodes -> 0 .. node_cnt] /\ srv_idx \in [Nodes -> Nodes]
    /\ fd \in [Nodes -> [Nodes -> Nodes \cup {NoFd}]]
    /\ pending \in [Nodes -> Seq(Nodes)]
    /\ wire \in [Nodes \X Nodes -> Seq(Nat)]
    /\ grants \in [Nodes -> Seq([to : {domid[n] : n \in Nodes}, root : BOOLEAN])]
    /\ refused \subseteq Nodes \X Nodes /\ desc_gref \in [Nodes -> Nat]
    /\ rdomh \in [Nodes -> [Nodes -> [domid : {domid[n] : n \in Nodes} \cup {0}, gref : Nat]]]
    /\ ctx \in [Nodes -> [Nodes -> Nodes \cup {NoRegion, Garbage}]]

\* A reference that a driver has recorded for a node is the one that this
\* node's driver made for it: two exchanges never cross, although they share
\* the listener and the numbers of all the tables are the same.
RefsPaired ==
    \A n, m \in Nodes :
        LET g == rdomh[n][m].gref IN
        g # NoRef /\ <<m, n>> \notin refused =>
            g \in DOMAIN grants[m] /\ grants[m][g] = [to |-> domid[n], root |-> TRUE]

\* What a daemon maps at a node's place is that node's memory, also when the
\* node was refused the grant and sent a number left over from something else;
\* a daemon gives up only then.
SpaceRight ==
    \A n \in Nodes :
        /\ \A m \in Nodes : ctx[n][m] \in {m, NoRegion}
        /\ stage[n] = "active" => \A m \in Nodes : ctx[n][m] = m
        /\ stage[n] = "exited" => \E m \in Nodes : <<m, n>> \in refused

\* The global address space comes up on every node, unless a grant is refused.
AllActive == <>(refused # {} \/ \A n \in Nodes : stage[n] = "active")
===========================================================================

------------------------ MODULE BootstrapProofs ------------------------
(***************************************************************************)
(* Proofs about Bootstrap, for every number of nodes and every numbering   *)
(* of their domains, whether the daemons reach each other in order or not. *)
(***************************************************************************)
EXTENDS Bootstrap, SequenceTheorems, TLAPS

(***************************************************************************)
(* The inductive invariant                                                 *)
(***************************************************************************)
\* The stages in which i is the index of the loop over the connections.
Connecting == {"start", "loop", "accepted", "exchange", "granted", "sent", "hung"}
Exchanging == {"exchange", "granted", "sent"}

\* The references that node m made for node n; any number if m was refused one.
Refs(m, n) ==
    {g \in Nat : \/ <<m, n>> \in refused
                 \/ g \in DOMAIN grants[m] /\ grants[m][g] = [to |-> domid[n], root |-> TRUE]}

\* The index is that of a node, until all regions are mapped, and of another
\* node while there is a connection to it.
IndexOK(n) ==
    /\ stage[n] \in Connecting \union {"map"} => i[n] < node_cnt
    /\ stage[n] = "accepted" => i[n] > n
    /\ stage[n] \in Exchanging => i[n] # n

\* The socket that node n has for node m.  One of a node below is that node's;
\* one of a node above is that of some node above, which has connected to n.
PeerOK(n, m) ==
    fd[n][m] # NoFd =>
      /\ m # n /\ (m < n => fd[n][m] = m)
      /\ m > n => fd[n][m] > n /\ fd[fd[n][m]][n] = n

\* If it is that of another node, then the exchange uses a socket that has not
\* been set, and the daemon gets no further.
OwnOK(n, m) ==
    fd[n][m] \notin {NoFd, m} =>
      m = i[n] /\ stage[n] \in Connecting \ {"start", "loop"} /\ fd[n][fd[n][m]] = NoFd

\* A daemon sets its sockets in the order of the loop.
SocketsOK(n) ==
    /\ \A m \in Nodes : PeerOK(n, m) /\ OwnOK(n, m)
    /\ stage[n] \in Connecting => \A m \in Nodes : m > i[n] => fd[n][m] = NoFd
    /\ stage[n] \in {"start", "loop"} => fd[n][i[n]] = NoFd
    /\ stage[n] = "accepted" => fd[n][i[n]] # NoFd
    /\ stage[n] \in Exchanging => fd[n][i[n]] # NoFd /\ srv_idx[n] = fd[n][i[n]]

\* Who waits to be accepted has connected once, and has not been accepted.
PendingOK(n) ==
    /\ \A k \in 1 .. Len(pending[n]) :
          /\ pending[n][k] > n /\ fd[pending[n][k]][n] = n
          /\ \A m \in Nodes : fd[n][m] # pending[n][k]
    /\ \A k, l \in 1 .. Len(pending[n]) : pending[n][k] = pending[n][l] => k = l

\* Node n has yet to receive the number of node m, which has connected to it.
Unnamed(m, n) ==
    \/ \E k \in 1 .. Len(pending[n]) : pending[n][k] = m
    \/ stage[n] = "accepted" /\ fd[n][i[n]] = m

\* On the wire from m to n: nothing before they are connected, then the number
\* of m if n has yet to receive it, then references that m made for n.
WireOK(m, n) ==
    /\ fd[m][n] = NoFd => wire[<<m, n>>] = << >>
    /\ Unnamed(m, n) => wire[<<m, n>>] # << >> /\ wire[<<m, n>>][1] = m
    /\ \A k \in 1 .. Len(wire[<<m, n>>]) :
          k > 1 \/ ~Unnamed(m, n) => wire[<<m, n>>][k] \in Refs(m, n)

\* Node n is done with node m.
Exchanged(n, m) == stage[n] \in {"map", "active", "exited"} \/ m < i[n]

\* What the driver of node n has recorded of node m, and what it is to send.
RecordOK(n, m) ==
    /\ rdomh[n][m].gref = NoRef \/ rdomh[n][m].gref \in Refs(m, n)
    /\ n # m /\ Exchanged(n, m) =>
          rdomh[n][m].domid = domid[m] /\ rdomh[n][m].gref \in Refs(m, n)
ToSendOK(n) ==
    /\ stage[n] = "granted" => desc_gref[n] \in Refs(n, srv_idx[n])
    /\ stage[n] \in {"granted", "sent"} => rdomh[n][srv_idx[n]].domid = domid[srv_idx[n]]

IInv ==
    /\ TypeOK
    /\ \A n \in Nodes : IndexOK(n) /\ SocketsOK(n) /\ PendingOK(n) /\ ToSendOK(n)
    /\ \A n, m \in Nodes : WireOK(m, n) /\ RecordOK(n, m)

\* With it, when no clean-up is left unfinished: what is mapped.
MapOK(n) ==
    /\ \A g \in DOMAIN grants[n] : grants[n][g].root = TRUE
    /\ \A m \in Nodes : ctx[n][m] \in {m, NoRegion}
    /\ stage[n] = "map" => \A m \in Nodes : m < i[n] => ctx[n][m] = m
    /\ stage[n] = "active" => \A m \in Nodes : ctx[n][m] = m
    /\ stage[n] = "exited" => \E m \in Nodes : <<m, n>> \in refused
Mapped == \A n \in Nodes : MapOK(n)

(***************************************************************************)
(* Facts about the constants, the sockets and the references               *)
(***************************************************************************)
\* The nodes are the numbers below node_cnt; NoFd is none of them.
LEMMA NodeFacts ==
  /\ node_cnt \in Nat \ {0} /\ NoFd \notin Nodes /\ 0 \in Nodes
  /\ \A n : n \in Nodes <=> n \in Nat /\ n < node_cnt
  BY BootstrapAssumption DEF Nodes, NoFd

\* TypeOK, in parts.
DaemonType ==
    /\ stage \in [Nodes -> Stages]
    /\ i \in [Nodes -> 0 .. node_cnt] /\ srv_idx \in [Nodes -> Nodes]
SocketType ==
    /\ fd \in [Nodes -> [Nodes -> Nodes \cup {NoFd}]]
    /\ pending \in [Nodes -> Seq(Nodes)]
    /\ wire \in [Nodes \X Nodes -> Seq(Nat)]
Grant == [to : {domid[n] : n \in Nodes}, root : BOOLEAN]
GrantType ==
    /\ grants \in [Nodes -> Seq(Grant)]
    /\ refused \subseteq Nodes \X Nodes /\ desc_gref \in [Nodes -> Nat]
Entry == [domid : {domid[n] : n \in Nodes} \cup {0}, gref : Nat]
MapType ==
    /\ rdomh \in [Nodes -> [Nodes -> Entry]]
    /\ ctx \in [Nodes -> [Nodes -> Nodes \cup {NoRegion, Garbage}]]

\* TypeOK is the conjunction of its parts.
LEMMA TypeParts == TypeOK <=> DaemonType /\ SocketType /\ GrantType /\ MapType
  BY DEF TypeOK, DaemonType, SocketType, GrantType, MapType, Grant, Entry

\* The same of the next state.
LEMMA TypePartsNext ==
  ASSUME DaemonType', SocketType', GrantType', MapType' PROVE TypeOK'
  BY DEF TypeOK, DaemonType, SocketType, GrantType, MapType, Grant, Entry

\* Two nodes have two domains.
LEMMA DomidFacts ==
  /\ domid \in [Nodes -> Nat]
  /\ \A n, m \in Nodes : domid[n] = domid[m] => n = m
  BY BootstrapAssumption

\* A step of daemon n leaves what the other nodes keep to themselves.
LEMMA Others ==
  ASSUME TypeOK, NEW n \in Nodes, Step(n), NEW k \in Nodes, k # n
  PROVE  /\ stage'[k] = stage[k] /\ i'[k] = i[k] /\ srv_idx'[k] = srv_idx[k]
         /\ fd'[k] = fd[k] /\ grants'[k] = grants[k] /\ desc_gref'[k] = desc_gref[k]
         /\ rdomh'[k] = rdomh[k] /\ ctx'[k] = ctx[k]
  <1>0. DaemonType /\ SocketType /\ GrantType /\ MapType
    BY TypeParts
  <1>1. stage'[k] = stage[k]
    BY <1>0 DEF Step, Listen, Skip, accept, recv_nid, connect, getref, send_ref, recv_ref, map,
        Advance, Goto, DaemonType
  <1>2. i'[k] = i[k] /\ srv_idx'[k] = srv_idx[k]
    BY <1>0 DEF Step, Listen, Skip, accept, recv_nid, connect, getref, send_ref, recv_ref, map,
        Advance, DaemonType
  <1>3. fd'[k] = fd[k] /\ grants'[k] = grants[k] /\ desc_gref'[k] = desc_gref[k]
    BY <1>0 DEF Step, Listen, Skip, accept, recv_nid, connect, getref, send_ref, recv_ref, map,
        Advance, SocketType, GrantType
  <1>4. rdomh'[k] = rdomh[k] /\ ctx'[k] = ctx[k]
    BY <1>0 DEF Step, Listen, Skip, accept, recv_nid, connect, getref, send_ref, recv_ref, map,
        Advance, MapType
  <1>5. QED
    BY <1>1, <1>2, <1>3, <1>4

\* A socket that has been set stays as it is.
LEMMA FdStays ==
  ASSUME IInv, NEW n \in Nodes, Step(n), NEW a \in Nodes, NEW b \in Nodes, fd[a][b] # NoFd
  PROVE  fd'[a][b] = fd[a][b]
  <1>0. DaemonType /\ SocketType /\ SocketsOK(n)
    BY TypeParts DEF IInv
  <1>1. stage[n] = "loop" => fd[n][i[n]] = NoFd
    BY <1>0 DEF SocketsOK
  <1>2. \/ fd' = fd
        \/ \E x : stage[n] = "loop" /\ fd' = [fd EXCEPT ![n][i[n]] = x]
    BY DEF Step, Listen, Skip, accept, recv_nid, connect, getref, send_ref, recv_ref, map
  <1>3. ASSUME NEW x, stage[n] = "loop", fd' = [fd EXCEPT ![n] = [fd[n] EXCEPT ![i[n]] = x]]
        PROVE  fd'[a][b] = fd[a][b]
    <2>1. CASE a = n
      <3>1. fd'[n] = [fd[n] EXCEPT ![i[n]] = x] /\ fd[n] \in [Nodes -> Nodes \cup {NoFd}]
        BY <1>0, <1>3 DEF SocketType
      <3>2. b # i[n]
        BY <1>1, <1>3, <2>1
      <3>3. QED
        BY <2>1, <3>1, <3>2
    <2>2. CASE a # n
      BY <1>0, <1>3, <2>2 DEF SocketType
    <2>3. QED
      BY <2>1, <2>2
  <1>4. QED
    BY <1>2, <1>3

\* Grants are added at the end of a table, and a refusal is not forgotten.
LEMMA GrantsGrow ==
  ASSUME TypeOK, NEW n \in Nodes, Step(n), NEW m \in Nodes
  PROVE  /\ refused \subseteq refused'
         /\ \A g \in DOMAIN grants[m] : g \in DOMAIN grants'[m] /\ grants'[m][g] = grants[m][g]
  <1>0. GrantType
    BY TypeParts
  <1>1. CASE getref(n)
    <2>1. refused \subseteq refused'
      BY <1>1 DEF getref
    <2>2. \E o \in Outcomes : grants' = [grants EXCEPT ![n] = NewGrants(n, o)]
      BY <1>1, BootstrapAssumption DEF getref, Outcomes
    <2>3. PICK o \in Outcomes : grants' = [grants EXCEPT ![n] = NewGrants(n, o)]
      BY <2>2
    <2>4. grants'[n] = grants[n] \/ \E x : grants'[n] = Append(grants[n], x)
      BY <1>0, <2>3 DEF NewGrants, GrantType
    <2>5. grants[m] \in Seq(Grant) /\ (m # n => grants'[m] = grants[m])
      BY <1>0, <2>3 DEF GrantType
    <2>6. QED
      BY <2>1, <2>4, <2>5, AppendProperties
  <1>2. CASE ~getref(n)
    BY <1>2 DEF Step, Listen, Skip, accept, recv_nid, connect, send_ref, recv_ref, map
  <1>3. QED
    BY <1>1, <1>2

\* So a reference stays one.
LEMMA RefsStay ==
  ASSUME TypeOK, NEW n \in Nodes, Step(n), NEW m \in Nodes, NEW k \in Nodes
  PROVE  Refs(m, k) \subseteq Refs(m, k)'
  <1>1. /\ refused \subseteq refused'
        /\ \A g \in DOMAIN grants[m] : g \in DOMAIN grants'[m] /\ grants'[m][g] = grants[m][g]
    BY GrantsGrow
  <1>2. QED
    BY <1>1 DEF Refs

\* The parts of the invariant that concern node n.
LEMMA AtNode ==
  ASSUME IInv, NEW n \in Nodes
  PROVE  /\ DaemonType /\ SocketType /\ GrantType /\ MapType
         /\ IndexOK(n) /\ SocketsOK(n) /\ PendingOK(n) /\ ToSendOK(n)
  BY TypeParts DEF IInv

\* The index is that of a node as long as it is used as one.
LEMMA IndexIn ==
  ASSUME IInv, NEW n \in Nodes, stage[n] \in Connecting \union {"map"}
  PROVE  i[n] \in Nodes
  BY AtNode, NodeFacts DEF IndexOK, DaemonType

\* The socket that an exchange uses, if it is set, is that of the loop's node.
LEMMA Peer ==
  ASSUME IInv, NEW n \in Nodes, stage[n] \in Exchanging, fd[n][srv_idx[n]] # NoFd
  PROVE  srv_idx[n] = i[n] /\ fd[n][i[n]] = i[n] /\ i[n] # n
  <1>1. i[n] \in Nodes
    BY IndexIn DEF Exchanging, Connecting
  <1>2. SocketsOK(n) /\ IndexOK(n)
    BY AtNode
  <1>3. fd[n][i[n]] # NoFd /\ srv_idx[n] = fd[n][i[n]] /\ i[n] # n
    BY <1>2 DEF SocketsOK, IndexOK
  <1>4. fd[n][i[n]] = i[n]
    BY <1>1, <1>2, <1>3 DEF SocketsOK, OwnOK
  <1>5. QED
    BY <1>3, <1>4

\* The integer that a daemon reads after accept is the number of its peer.
LEMMA Named ==
  ASSUME IInv, NEW n \in Nodes, stage[n] = "accepted"
  PROVE  LET peer == fd[n][i[n]]
         IN  /\ peer \in Nodes /\ peer > n
             /\ wire[<<peer, n>>] # << >> /\ Head(wire[<<peer, n>>]) = peer
             /\ \A k \in 1 .. Len(pending[n]) : pending[n][k] # peer
  <1> DEFINE peer == fd[n][i[n]]
  <1>1. i[n] \in Nodes
    BY IndexIn DEF Connecting
  <1>2. SocketsOK(n) /\ IndexOK(n) /\ PendingOK(n) /\ SocketType
    BY AtNode
  <1>3. peer \in Nodes
    BY <1>1, <1>2 DEF SocketsOK, SocketType
  <1>4. peer > n
    BY <1>1, <1>2 DEF SocketsOK, IndexOK, PeerOK
  <1>5. WireOK(peer, n)
    BY <1>3 DEF IInv
  <1>6. Unnamed(peer, n)
    BY DEF Unnamed
  <1>7. wire[<<peer, n>>] # << >> /\ wire[<<peer, n>>][1] = peer
    BY <1>5, <1>6 DEF WireOK
  <1>8. wire[<<peer, n>>] \in Seq(Nat)
    BY <1>2, <1>3 DEF SocketType
  <1>9. Head(wire[<<peer, n>>]) = peer
    BY <1>7, <1>8
  <1>10. \A k \in 1 .. Len(pending[n]) : pending[n][k] # peer
    BY <1>1, <1>2 DEF PendingOK
  <1>11. QED
    BY <1>3, <1>4, <1>7, <1>9, <1>10

(***************************************************************************)
(* Indices and sockets                                                     *)
(***************************************************************************)
\* Every step of a daemon keeps its index.
LEMMA StepIndex ==
  ASSUME IInv, NEW n \in Nodes, Step(n), NEW k \in Nodes
  PROVE  IndexOK(k)'
  <1>0. DaemonType /\ TypeOK /\ IndexOK(n) /\ IndexOK(k) /\ SocketsOK(n)
    BY AtNode DEF IInv
  <1>a. node_cnt \in Nat \ {0} /\ n \in Nat /\ n < node_cnt /\ i[n] \in Nat
    BY <1>0, NodeFacts DEF DaemonType
  <1>1. CASE k # n
    BY <1>0, <1>1, Others DEF IndexOK
  <1>2. CASE k = n
    <2>1. CASE Listen(n)
      BY <1>0, <2>1, <1>2 DEF Listen, Goto, IndexOK, DaemonType, Connecting, Exchanging
    <2>2. CASE Skip(n)
      BY <1>0, <1>a, <2>2, <1>2 DEF Skip, Advance, Goto, IndexOK, DaemonType, Connecting, Exchanging
    <2>3. CASE accept(n)
      BY <1>0, <2>3, <1>2 DEF accept, Goto, IndexOK, DaemonType, Connecting, Exchanging
    <2>4. CASE recv_nid(n)
      BY <1>0, <1>a, <2>4, <1>2 DEF recv_nid, Goto, IndexOK, DaemonType, Connecting, Exchanging
    <2>5. CASE connect(n)
      BY <1>0, <1>a, <2>5, <1>2 DEF connect, Goto, IndexOK, DaemonType, Connecting, Exchanging
    <2>6. CASE getref(n)
      BY <1>0, <2>6, <1>2 DEF getref, Goto, IndexOK, DaemonType, Connecting, Exchanging
    <2>7. CASE send_ref(n)
      BY <1>0, <2>7, <1>2 DEF send_ref, Goto, IndexOK, DaemonType, Connecting, Exchanging
    <2>8. CASE recv_ref(n)
      BY <1>0, <1>a, <2>8, <1>2 DEF recv_ref, Advance, Goto, IndexOK, DaemonType, Connecting, Exchanging
    <2>9. CASE map(n)
      <3>1. i[n] < node_cnt /\ stage[n] = "map"
        BY <1>0, <2>9 DEF map, IndexOK
      <3>2. \/ stage'[n] \in {"exited", "active"}
            \/ stage'[n] = "map" /\ i'[n] = i[n] + 1 /\ i[n] + 1 # node_cnt
        BY <1>0, <1>a, <2>9 DEF map, Goto, DaemonType
      <3>3. QED
        BY <1>a, <1>2, <3>1, <3>2 DEF IndexOK, Connecting, Exchanging
    <2>10. QED
      BY <2>1, <2>2, <2>3, <2>4, <2>5, <2>6, <2>7, <2>8, <2>9 DEF Step
  <1>3. QED
    BY <1>1, <1>2

\* The first in the queue of a listener: a node above, that has connected and
\* has not been accepted.
LEMMA FirstPending ==
  ASSUME IInv, NEW n \in Nodes, pending[n] # << >>
  PROVE  LET h == Head(pending[n])
         IN  /\ h \in Nodes /\ h > n /\ fd[h][n] = n
             /\ \A m \in Nodes : fd[n][m] # h
             /\ \A k \in 1 .. Len(Tail(pending[n])) : Tail(pending[n])[k] # h
  <1>1. PendingOK(n) /\ pending[n] \in Seq(Nodes)
    BY AtNode DEF SocketType
  <1>2. /\ Len(pending[n]) \in Nat \ {0} /\ Head(pending[n]) = pending[n][1]
        /\ Len(Tail(pending[n])) = Len(pending[n]) - 1
        /\ \A k \in 1 .. Len(pending[n]) - 1 : Tail(pending[n])[k] = pending[n][k + 1]
    BY <1>1
  <1>3. 1 \in 1 .. Len(pending[n]) /\ pending[n][1] \in Nodes
    BY <1>1, <1>2
  <1>4. \A k \in 1 .. Len(Tail(pending[n])) : Tail(pending[n])[k] # pending[n][1]
    BY <1>1, <1>2 DEF PendingOK
  <1>5. QED
    BY <1>1, <1>2, <1>3, <1>4 DEF PendingOK

\* When a daemon takes up a node in its loop, every socket that it has set is
\* that of its node.
LEMMA LoopSockets ==
  ASSUME IInv, NEW n \in Nodes, NEW m \in Nodes, fd[n][m] # NoFd,
         stage[n] \in {"start", "loop", "map", "active", "exited"}
  PROVE  fd[n][m] = m
  BY AtNode DEF SocketsOK, OwnOK, Connecting

\* Every step keeps the direction of the sockets.
LEMMA StepPeer ==
  ASSUME IInv, NEW n \in Nodes, Step(n), NEW k \in Nodes, NEW m \in Nodes
  PROVE  PeerOK(k, m)'
  <1>a. TypeOK /\ SocketType /\ SocketsOK(k)
    BY AtNode DEF IInv
  <1>0. TypeOK /\ SocketType /\ PeerOK(k, m) /\ fd[k][m] \in Nodes \union {NoFd}
    BY <1>a DEF SocketsOK, SocketType
  <1>1. CASE fd[k][m] # NoFd
    <2>1. fd'[k][m] = fd[k][m]
      BY <1>1, FdStays
    <2>2. m > k => fd'[fd[k][m]][k] = k
      BY <1>0, <1>1, FdStays, NodeFacts DEF PeerOK
    <2>3. QED
      BY <1>0, <1>1, <2>1, <2>2 DEF PeerOK
  <1>2. CASE fd[k][m] = NoFd /\ fd'[k][m] # NoFd
    <2>1. k = n
      BY <1>0, <1>2, Others
    <2>2. CASE accept(n)
      <3>1. /\ fd' = [fd EXCEPT ![n] = [fd[n] EXCEPT ![i[n]] = Head(pending[n])]]
            /\ pending[n] # << >> /\ i[n] > n
        BY <2>2 DEF accept
      <3>2. fd'[n] = [fd[n] EXCEPT ![i[n]] = Head(pending[n])]
        BY <1>0, <3>1 DEF SocketType
      <3>3. m = i[n] /\ fd'[n][m] = Head(pending[n])
        BY <1>0, <1>2, <2>1, <3>2 DEF SocketType
      <3>4. Head(pending[n]) \in Nodes /\ Head(pending[n]) > n /\ fd[Head(pending[n])][n] = n
        BY <3>1, FirstPending
      <3>5. fd'[Head(pending[n])][n] = n
        BY <3>4, FdStays, NodeFacts
      <3>6. QED
        BY <2>1, <3>1, <3>3, <3>4, <3>5, NodeFacts DEF PeerOK
    <2>3. CASE connect(n)
      <3>1. fd' = [fd EXCEPT ![n] = [fd[n] EXCEPT ![i[n]] = i[n]]] /\ i[n] < n
        BY <2>3 DEF connect
      <3>2. fd'[n] = [fd[n] EXCEPT ![i[n]] = i[n]]
        BY <1>0, <3>1 DEF SocketType
      <3>3. m = i[n] /\ fd'[n][m] = m
        BY <1>0, <1>2, <2>1, <3>2 DEF SocketType
      <3>4. QED
        BY <2>1, <3>1, <3>3, NodeFacts DEF PeerOK
    <2>4. CASE ~accept(n) /\ ~connect(n)
      BY <1>2, <2>4 DEF Step, Listen, Skip, recv_nid, getref, send_ref, recv_ref, map
    <2>5. QED
      BY <2>2, <2>3, <2>4
  <1>3. CASE fd'[k][m] = NoFd
    BY <1>3 DEF PeerOK
  <1>4. QED
    BY <1>1, <1>2, <1>3

\* Every step of a daemon keeps its sockets in the order of the loop.
LEMMA StepSockets ==
  ASSUME IInv, NEW n \in Nodes, Step(n), NEW k \in Nodes
  PROVE  SocketsOK(k)'
  <1>0. DaemonType /\ SocketType /\ TypeOK /\ SocketsOK(k) /\ SocketsOK(n) /\ IndexOK(n)
    BY AtNode DEF IInv
  <1>a. \A m \in Nodes : PeerOK(k, m)'
    BY StepPeer
  <1>b. node_cnt \in Nat \ {0} /\ n \in Nat /\ i[n] \in Nat /\ NoFd \notin Nodes
        /\ \A m : m \in Nodes <=> m \in Nat /\ m < node_cnt
    BY <1>0, NodeFacts DEF DaemonType
  <1>1. CASE k # n
    <2>1. /\ stage'[k] = stage[k] /\ i'[k] = i[k] /\ srv_idx'[k] = srv_idx[k] /\ fd'[k] = fd[k]
      BY <1>0, <1>1, Others
    <2>2. QED
      BY <1>0, <1>a, <2>1 DEF SocketsOK, OwnOK
  <1>2. CASE k = n
    <2> DEFINE Own == \A m \in Nodes : fd'[n][m] \in {NoFd, m}
    <2>1. CASE Listen(n)
      <3>1. Own /\ UNCHANGED <<fd, i, srv_idx>> /\ stage[n] = "start" /\ stage'[n] = "loop"
        BY <1>0, <2>1, LoopSockets DEF Listen, Goto, DaemonType
      <3>2. QED
        BY <1>0, <1>a, <1>2, <3>1 DEF SocketsOK, OwnOK, Connecting, Exchanging
    <2>2. CASE Skip(n)
      <3>1. Own /\ UNCHANGED <<fd, srv_idx>> /\ stage[n] = "loop"
        BY <1>0, <2>2, LoopSockets DEF Skip
      <3>2. /\ stage'[n] = IF i[n] + 1 < node_cnt THEN "loop" ELSE "map"
            /\ i'[n] = IF i[n] + 1 < node_cnt THEN i[n] + 1 ELSE 0
        BY <1>0, <2>2 DEF Skip, Advance, Goto, DaemonType
      <3>3. \A m \in Nodes : m > i[n] => fd[n][m] = NoFd
        BY <1>0, <3>1 DEF SocketsOK, Connecting
      <3>4. QED
        BY <1>a, <1>b, <1>2, <3>1, <3>2, <3>3 DEF SocketsOK, OwnOK, Connecting, Exchanging
    <2>3. CASE accept(n)
      <3> DEFINE h == Head(pending[n])
      <3>1. /\ fd' = [fd EXCEPT ![n] = [fd[n] EXCEPT ![i[n]] = h]] /\ UNCHANGED <<i, srv_idx>>
            /\ pending[n] # << >> /\ i[n] > n /\ stage[n] = "loop" /\ stage'[n] = "accepted"
        BY <1>0, <2>3 DEF accept, Goto, DaemonType
      <3>2. i[n] \in Nodes
        BY <3>1, IndexIn DEF Connecting
      <3>3. fd'[n] = [fd[n] EXCEPT ![i[n]] = h] /\ fd[n] \in [Nodes -> Nodes \cup {NoFd}]
        BY <1>0, <3>1 DEF SocketType
      <3>4. h \in Nodes /\ (\A m \in Nodes : fd[n][m] # h) /\ h # NoFd
        BY <3>1, <1>b, FirstPending
      <3>5. fd[n][h] = NoFd
        BY <3>1, <3>4, LoopSockets
      <3> HIDE DEF h
      <3>6. fd'[n][i[n]] = h /\ \A m \in Nodes \ {i[n]} : fd'[n][m] = fd[n][m]
        BY <3>2, <3>3
      <3>7. \A m \in Nodes : OwnOK(n, m)'
        <4>1. SUFFICES ASSUME NEW m \in Nodes, fd'[n][m] \notin {NoFd, m}
                       PROVE  m = i[n] /\ fd'[n][fd'[n][m]] = NoFd
          BY <3>1 DEF OwnOK, Connecting
        <4>2. m = i[n]
          BY <3>1, <3>6, <4>1, LoopSockets
        <4>3. QED
          BY <3>4, <3>5, <3>6, <4>1, <4>2
      <3>8. \A m \in Nodes : m > i[n] => fd'[n][m] = NoFd
        BY <1>0, <1>b, <3>1, <3>2, <3>6 DEF SocketsOK, Connecting
      <3>9. QED
        BY <1>a, <1>2, <3>1, <3>4, <3>6, <3>7, <3>8 DEF SocketsOK, Exchanging
    <2>4. CASE recv_nid(n)
      <3>1. /\ UNCHANGED <<fd, i>> /\ stage[n] = "accepted" /\ stage'[n] = "exchange"
            /\ srv_idx'[n] = Head(wire[<<fd[n][i[n]], n>>])
        BY <1>0, <2>4 DEF recv_nid, Goto, DaemonType
      <3>2. srv_idx'[n] = fd[n][i[n]]
        BY <3>1, Named
      <3>3. QED
        BY <1>0, <1>a, <1>2, <3>1, <3>2 DEF SocketsOK, OwnOK, Connecting, Exchanging
    <2>5. CASE connect(n)
      <3>1. /\ fd' = [fd EXCEPT ![n] = [fd[n] EXCEPT ![i[n]] = i[n]]] /\ UNCHANGED i
            /\ stage[n] = "loop" /\ stage'[n] = "exchange" /\ srv_idx'[n] = i[n]
        BY <1>0, <2>5 DEF connect, Goto, DaemonType
      <3>2. i[n] \in Nodes
        BY <3>1, IndexIn DEF Connecting
      <3>3. fd'[n] = [fd[n] EXCEPT ![i[n]] = i[n]] /\ fd[n] \in [Nodes -> Nodes \cup {NoFd}]
        BY <1>0, <3>1 DEF SocketType
      <3>4. fd'[n][i[n]] = i[n] /\ \A m \in Nodes \ {i[n]} : fd'[n][m] = fd[n][m]
        BY <3>2, <3>3
      <3>5. Own
        BY <3>1, <3>4, LoopSockets
      <3>6. \A m \in Nodes : m > i[n] => fd'[n][m] = NoFd
        BY <1>0, <1>b, <3>1, <3>2, <3>4 DEF SocketsOK, Connecting
      <3>7. QED
        BY <1>a, <1>b, <1>2, <3>1, <3>2, <3>4, <3>5, <3>6 DEF SocketsOK, OwnOK, Exchanging
    <2>6. CASE getref(n) \/ send_ref(n)
      <3>1. /\ UNCHANGED <<fd, i, srv_idx>> /\ stage[n] \in Exchanging
            /\ stage'[n] \in {"hung", "granted", "sent"}
        BY <1>0, <2>6 DEF getref, send_ref, Goto, DaemonType, Exchanging
      <3>2. QED
        BY <1>0, <1>a, <1>2, <3>1 DEF SocketsOK, OwnOK, Connecting, Exchanging
    <2>7. CASE recv_ref(n)
      <3>1. UNCHANGED <<fd, srv_idx>> /\ stage[n] = "sent" /\ fd[n][srv_idx[n]] # NoFd
        BY <2>7 DEF recv_ref
      <3>2. /\ stage'[n] = IF i[n] + 1 < node_cnt THEN "loop" ELSE "map"
            /\ i'[n] = IF i[n] + 1 < node_cnt THEN i[n] + 1 ELSE 0
        BY <1>0, <2>7 DEF recv_ref, Advance, Goto, DaemonType
      <3>3. fd[n][i[n]] = i[n]
        BY <3>1, Peer DEF Exchanging
      <3>4. Own
        BY <1>0, <3>1, <3>3 DEF SocketsOK, OwnOK
      <3>5. \A m \in Nodes : m > i[n] => fd[n][m] = NoFd
        BY <1>0, <3>1 DEF SocketsOK, Connecting
      <3>6. QED
        BY <1>a, <1>b, <1>2, <3>1, <3>2, <3>4, <3>5 DEF SocketsOK, OwnOK, Connecting, Exchanging
    <2>8. CASE map(n)
      <3>1. /\ Own /\ UNCHANGED fd /\ stage[n] = "map" /\ stage'[n] \in {"map", "active", "exited"}
        BY <1>0, <2>8, LoopSockets DEF map, Goto, DaemonType
      <3>2. QED
        BY <1>a, <1>2, <3>1 DEF SocketsOK, OwnOK, Connecting, Exchanging
    <2>9. QED
      BY <2>1, <2>2, <2>3, <2>4, <2>5, <2>6, <2>7, <2>8 DEF Step
  <1>3. QED
    BY <1>1, <1>2

(***************************************************************************)
(* The listeners' queues                                                   *)
(***************************************************************************)
\* Node n has not been accepted nor does it wait, when it is about to connect.
LEMMA NotConnected ==
  ASSUME IInv, NEW n \in Nodes, stage[n] = "loop", i[n] < n
  PROVE  /\ i[n] \in Nodes /\ fd[n][i[n]] = NoFd
         /\ \A m \in Nodes : fd[i[n]][m] # n
         /\ \A k \in 1 .. Len(pending[i[n]]) : pending[i[n]][k] # n
  <1>1. i[n] \in Nodes
    BY IndexIn DEF Connecting
  <1>2. fd[n][i[n]] = NoFd
    BY AtNode DEF SocketsOK
  <1>3. SocketsOK(i[n]) /\ PendingOK(i[n])
    BY <1>1, AtNode
  <1>a. i[n] # NoFd /\ n # NoFd /\ i[n] \in Nat /\ n \in Nat
    BY <1>1, NodeFacts
  <1>4. ASSUME NEW m \in Nodes, fd[i[n]][m] = n PROVE FALSE
    <2>1. PeerOK(i[n], m) /\ m \in Nat
      BY <1>3, NodeFacts DEF SocketsOK
    <2>2. CASE m < i[n]
      BY <1>4, <1>a, <2>1, <2>2 DEF PeerOK
    <2>3. CASE m > i[n]
      BY <1>2, <1>4, <1>a, <2>1, <2>3 DEF PeerOK
    <2>4. QED
      BY <1>4, <1>a, <2>1, <2>2, <2>3 DEF PeerOK
  <1>5. ASSUME NEW k \in 1 .. Len(pending[i[n]]), pending[i[n]][k] = n PROVE FALSE
    BY <1>2, <1>3, <1>5, <1>a DEF PendingOK
  <1>6. QED
    BY <1>1, <1>2, <1>4, <1>5

\* Every step keeps the queues: only nodes above, each once, and none of them
\* accepted before.
LEMMA StepPending ==
  ASSUME IInv, NEW n \in Nodes, Step(n), NEW b \in Nodes
  PROVE  PendingOK(b)'
  <1>0. DaemonType /\ SocketType /\ TypeOK /\ PendingOK(b)
    BY AtNode DEF IInv
  <1>a. pending[b] \in Seq(Nodes) /\ Len(pending[b]) \in Nat /\ NoFd \notin Nodes
    BY <1>0, NodeFacts DEF SocketType
  <1>b. \A k \in 1 .. Len(pending[b]) : fd'[pending[b][k]][b] = b
    <2>1. SUFFICES ASSUME NEW k \in 1 .. Len(pending[b]) PROVE fd'[pending[b][k]][b] = b
      OBVIOUS
    <2>2. pending[b][k] \in Nodes /\ fd[pending[b][k]][b] = b
      BY <1>0, <1>a DEF PendingOK
    <2>3. QED
      BY <1>a, <2>2, FdStays
  <1>1. CASE accept(n)
    <2> DEFINE h == Head(pending[n])
               T == Tail(pending[n])
    <2>1. /\ fd' = [fd EXCEPT ![n] = [fd[n] EXCEPT ![i[n]] = h]] /\ pending[n] # << >>
          /\ pending' = [pending EXCEPT ![n] = T]
      BY <1>1 DEF accept
    <2>2. CASE b # n
      <3>1. pending'[b] = pending[b] /\ fd'[b] = fd[b]
        BY <1>0, <2>1, <2>2 DEF SocketType
      <3>2. QED
        BY <1>0, <1>b, <3>1 DEF PendingOK
    <2>3. CASE b = n
      <3>1. pending'[n] = T /\ fd'[n] = [fd[n] EXCEPT ![i[n]] = h]
        BY <1>0, <2>1 DEF SocketType
      <3>2. \A k \in 1 .. Len(T) : T[k] # h
        BY <2>1, FirstPending
      <3>3. /\ Len(T) = Len(pending[n]) - 1
            /\ \A k \in 1 .. Len(T) : k + 1 \in 1 .. Len(pending[n]) /\ T[k] = pending[n][k + 1]
        BY <1>a, <2>1, <2>3
      <3>4. fd[n] \in [Nodes -> Nodes \cup {NoFd}]
        BY <1>0 DEF SocketType
      <3> HIDE DEF T, h
      <3>5. \A m \in Nodes : fd'[n][m] = h \/ fd'[n][m] = fd[n][m]
        BY <3>1, <3>4
      <3>6. ASSUME NEW k \in 1 .. Len(T)
            PROVE  T[k] > n /\ fd'[T[k]][n] = n /\ \A m \in Nodes : fd'[n][m] # T[k]
        BY <1>0, <1>b, <2>3, <3>2, <3>3, <3>5 DEF PendingOK
      <3>7. ASSUME NEW k \in 1 .. Len(T), NEW l \in 1 .. Len(T), T[k] = T[l] PROVE k = l
        <4>1. \A x, y \in 1 .. Len(pending[n]) : pending[n][x] = pending[n][y] => x = y
          BY <1>0, <2>3 DEF PendingOK
        <4>2. k + 1 = l + 1
          BY <3>3, <3>7, <4>1
        <4>3. QED
          BY <4>2
      <3>8. QED
        BY <2>3, <3>1, <3>6, <3>7 DEF PendingOK
    <2>4. QED
      BY <2>2, <2>3
  <1>2. CASE connect(n)
    <2>1. /\ fd' = [fd EXCEPT ![n] = [fd[n] EXCEPT ![i[n]] = i[n]]] /\ stage[n] = "loop" /\ i[n] < n
          /\ pending' = [pending EXCEPT ![i[n]] = Append(@, n)]
      BY <1>2 DEF connect
    <2>2. /\ i[n] \in Nodes /\ fd[n][i[n]] = NoFd
          /\ \A m \in Nodes : fd[i[n]][m] # n
          /\ \A k \in 1 .. Len(pending[i[n]]) : pending[i[n]][k] # n
      BY <2>1, NotConnected
    <2>3. fd'[n] = [fd[n] EXCEPT ![i[n]] = i[n]] /\ fd[n] \in [Nodes -> Nodes \cup {NoFd}]
      BY <1>0, <2>1 DEF SocketType
    <2>4. CASE b = i[n]
      <3> DEFINE q == pending[b]
      <3>1. pending'[b] = Append(q, n) /\ fd'[b] = fd[b]
        BY <1>0, <2>1, <2>2, <2>4, NodeFacts DEF SocketType
      <3>2. /\ Len(Append(q, n)) = Len(q) + 1 /\ Append(q, n)[Len(q) + 1] = n
            /\ \A k \in 1 .. Len(q) : Append(q, n)[k] = q[k]
        BY <1>a
      <3>3. fd'[n][b] = b
        BY <2>2, <2>3, <2>4
      <3>4. q \in Seq(Nodes) /\ Len(q) \in Nat /\ \A k \in 1 .. Len(q) : q[k] # n
        BY <1>a, <2>2, <2>4
      <3>5. \A k \in 1 .. Len(q) : q[k] > b /\ fd'[q[k]][b] = b /\ \A m \in Nodes : fd[b][m] # q[k]
        BY <1>0, <1>b DEF PendingOK
      <3>6. \A k, l \in 1 .. Len(q) : q[k] = q[l] => k = l
        BY <1>0 DEF PendingOK
      <3>7. ASSUME NEW k \in 1 .. Len(Append(q, n))
            PROVE  /\ Append(q, n)[k] > b /\ fd'[Append(q, n)[k]][b] = b
                   /\ \A m \in Nodes : fd'[b][m] # Append(q, n)[k]
        <4>1. CASE k = Len(q) + 1
          BY <2>1, <2>2, <2>4, <3>1, <3>2, <3>3, <4>1
        <4>2. CASE k \in 1 .. Len(q)
          BY <3>1, <3>2, <3>5, <4>2
        <4>3. QED
          BY <3>2, <3>4, <4>1, <4>2
      <3>8. ASSUME NEW k \in 1 .. Len(Append(q, n)), NEW l \in 1 .. Len(Append(q, n)),
                   Append(q, n)[k] = Append(q, n)[l]
            PROVE  k = l
        <4> HIDE DEF q
        <4>1. k \in 1 .. Len(q) \/ k = Len(q) + 1
          BY <3>2, <3>4
        <4>2. l \in 1 .. Len(q) \/ l = Len(q) + 1
          BY <3>2, <3>4
        <4>3. QED
          BY <3>2, <3>4, <3>6, <3>8, <4>1, <4>2
      <3>9. QED
        BY <3>1, <3>7, <3>8 DEF PendingOK
    <2>5. CASE b # i[n]
      <3>1. pending'[b] = pending[b]
        BY <1>0, <2>1, <2>5 DEF SocketType
      <3>2. \A m \in Nodes : fd'[b][m] = fd[b][m] \/ (b = n /\ fd'[b][m] = i[n])
        BY <1>0, <2>1, <2>3 DEF SocketType
      <3>3. b = n => \A k \in 1 .. Len(pending[b]) : pending[b][k] # i[n]
        <4>1. i[n] \in Nat /\ n \in Nat
          BY <2>2, NodeFacts
        <4>2. \A k \in 1 .. Len(pending[b]) : pending[b][k] \in Nat
          BY <1>a, NodeFacts
        <4>3. QED
          BY <1>0, <2>1, <4>1, <4>2 DEF PendingOK
      <3>4. QED
        BY <1>0, <1>b, <3>1, <3>2, <3>3 DEF PendingOK
    <2>6. QED
      BY <2>4, <2>5
  <1>3. CASE ~accept(n) /\ ~connect(n)
    <2>1. UNCHANGED <<pending, fd>>
      BY <1>3 DEF Step, Listen, Skip, recv_nid, getref, send_ref, recv_ref, map
    <2>2. QED
      BY <1>0, <2>1 DEF PendingOK
  <1>4. QED
    BY <1>1, <1>2, <1>3

(***************************************************************************)
(* What is sent and received                                               *)
(***************************************************************************)
\* A step that leaves the queue, the socket and the wait of node b alone leaves
\* alone who is to be named to it.
LEMMA SameUnnamed ==
  ASSUME NEW a, NEW b, pending'[b] = pending[b],
         \/ stage[b] # "accepted" /\ stage'[b] # "accepted"
         \/ stage'[b] = stage[b] /\ i'[b] = i[b] /\ fd'[b] = fd[b]
  PROVE  Unnamed(a, b)' <=> Unnamed(a, b)
  BY DEF Unnamed

\* Appending a reference that node a made for node b.
LEMMA WireAppend ==
  ASSUME TypeOK, NEW n \in Nodes, Step(n), NEW a \in Nodes, NEW b \in Nodes, WireOK(a, b),
         Unnamed(a, b)' <=> Unnamed(a, b), fd'[a][b] # NoFd,
         NEW g \in Refs(a, b), wire'[<<a, b>>] = Append(wire[<<a, b>>], g)
  PROVE  WireOK(a, b)'
  <1> DEFINE w == wire[<<a, b>>]
             v == Append(w, g)
  <1>a. g \in Nat
    BY DEF Refs
  <1>1. w \in Seq(Nat) /\ Len(w) \in Nat
    BY TypeParts DEF SocketType
  <1>2. /\ v # << >> /\ Len(v) = Len(w) + 1 /\ v[Len(w) + 1] = g
        /\ \A k \in 1 .. Len(w) : v[k] = w[k]
    <2> HIDE DEF w
    <2>1. \A k \in 1 .. Len(w) : v[k] = w[k]
      BY <1>1, <1>a, AppendProperties
    <2>2. Len(v) = Len(w) + 1 /\ v # << >>
      BY <1>1, <1>a, AppendProperties, Zenon
    <2>3. v[Len(w) + 1] = g
      BY <1>1, <1>a, AppendProperties
    <2>4. QED
      BY <2>1, <2>2, <2>3
  <1>3. Unnamed(a, b) => w # << >> /\ w[1] = a
    BY DEF WireOK
  <1>4. Unnamed(a, b) => v[1] = a
    BY <1>1, <1>2, <1>3, EmptySeq
  <1>5. \A k \in 1 .. Len(w) : (k > 1 \/ ~Unnamed(a, b)) => w[k] \in Refs(a, b)
    BY DEF WireOK
  <1>6. Refs(a, b) \subseteq Refs(a, b)' /\ wire'[<<a, b>>] = v
    BY RefsStay
  <1> HIDE DEF w, v
  <1>7. \A k \in 1 .. Len(v) : (k > 1 \/ ~Unnamed(a, b)) => v[k] \in Refs(a, b)
    BY <1>1, <1>2, <1>5
  <1>8. QED
    BY <1>2, <1>4, <1>6, <1>7 DEF WireOK

\* Taking the first integer from the wire, when node a has or then has been named.
LEMMA WireTail ==
  ASSUME TypeOK, NEW n \in Nodes, Step(n), NEW a \in Nodes, NEW b \in Nodes, WireOK(a, b),
         wire[<<a, b>>] # << >>, ~Unnamed(a, b)', fd'[a][b] # NoFd,
         wire'[<<a, b>>] = Tail(wire[<<a, b>>])
  PROVE  WireOK(a, b)'
  <1> DEFINE w == wire[<<a, b>>]
             v == Tail(w)
  <1>1. w \in Seq(Nat) /\ Len(w) \in Nat
    BY TypeParts DEF SocketType
  <1>2. /\ Len(v) = Len(w) - 1
        /\ \A k \in 1 .. Len(v) : k + 1 \in 1 .. Len(w) /\ k + 1 > 1 /\ v[k] = w[k + 1]
    BY <1>1
  <1>3. \A k \in 1 .. Len(w) : k > 1 => w[k] \in Refs(a, b)
    BY DEF WireOK
  <1>4. Refs(a, b) \subseteq Refs(a, b)' /\ wire'[<<a, b>>] = v
    BY RefsStay
  <1> HIDE DEF w, v
  <1>5. \A k \in 1 .. Len(v) : v[k] \in Refs(a, b)
    BY <1>2, <1>3
  <1>6. QED
    BY <1>4, <1>5 DEF WireOK

\* A step that changes neither the wire nor who is to be named.
LEMMA WireSame ==
  ASSUME TypeOK, NEW n \in Nodes, Step(n), NEW a \in Nodes, NEW b \in Nodes, WireOK(a, b),
         Unnamed(a, b)' <=> Unnamed(a, b), wire'[<<a, b>>] = wire[<<a, b>>],
         fd[a][b] # NoFd => fd'[a][b] # NoFd
  PROVE  WireOK(a, b)'
  <1>1. Refs(a, b) \subseteq Refs(a, b)'
    BY RefsStay
  <1>2. QED
    BY <1>1 DEF WireOK

\* Every step keeps what is on the wires.
LEMMA StepWire ==
  ASSUME IInv, NEW n \in Nodes, Step(n), NEW a \in Nodes, NEW b \in Nodes
  PROVE  WireOK(a, b)'
  <1>0. DaemonType /\ SocketType /\ TypeOK /\ WireOK(a, b)
    BY AtNode DEF IInv
  <1>a. fd[a][b] # NoFd => fd'[a][b] # NoFd
    BY FdStays
  <1>b. ASSUME b # n PROVE stage'[b] = stage[b] /\ i'[b] = i[b] /\ fd'[b] = fd[b]
    BY <1>0, <1>b, Others
  <1>1. CASE accept(n)
    <2> DEFINE h == Head(pending[n])
               T == Tail(pending[n])
    <2>1. /\ fd' = [fd EXCEPT ![n] = [fd[n] EXCEPT ![i[n]] = h]] /\ pending[n] # << >>
          /\ pending' = [pending EXCEPT ![n] = T] /\ UNCHANGED <<i, wire>>
          /\ stage[n] = "loop" /\ stage'[n] = "accepted"
      BY <1>0, <1>1 DEF accept, Goto, DaemonType
    <2>2. Unnamed(a, b)' <=> Unnamed(a, b)
      <3>1. CASE b # n
        <4>1. pending'[b] = pending[b]
          BY <1>0, <2>1, <3>1 DEF SocketType
        <4>2. QED
          BY <1>b, <3>1, <4>1, SameUnnamed
      <3>2. CASE b = n
        <4>1. i[n] \in Nodes
          BY <2>1, IndexIn DEF Connecting
        <4>2. pending'[n] = T /\ fd'[n][i[n]] = h
          BY <1>0, <2>1, <4>1 DEF SocketType
        <4>3. pending[n] \in Seq(Nodes) /\ Len(pending[n]) \in Nat \ {0}
          BY <1>0, <2>1 DEF SocketType
        <4>4. /\ h = pending[n][1] /\ Len(T) = Len(pending[n]) - 1
              /\ \A k \in 1 .. Len(pending[n]) : k = 1 \/ (k - 1 \in 1 .. Len(T) /\ T[k - 1] = pending[n][k])
              /\ \A k \in 1 .. Len(T) : k + 1 \in 1 .. Len(pending[n]) /\ T[k] = pending[n][k + 1]
          BY <2>1, <4>3
        <4> HIDE DEF T, h
        <4>5. (\E k \in 1 .. Len(pending[n]) : pending[n][k] = a) <=>
                  h = a \/ \E k \in 1 .. Len(T) : T[k] = a
          BY <4>3, <4>4
        <4>6. QED
          BY <2>1, <3>2, <4>2, <4>5 DEF Unnamed
      <3>3. QED
        BY <3>1, <3>2
    <2>3. QED
      BY <1>0, <1>a, <2>1, <2>2, WireSame
  <1>2. CASE recv_nid(n)
    <2> DEFINE peer == fd[n][i[n]]
    <2>1. /\ stage[n] = "accepted" /\ stage'[n] = "exchange" /\ UNCHANGED <<fd, pending, i>>
          /\ wire' = [wire EXCEPT ![<<peer, n>>] = Tail(@)] /\ wire[<<peer, n>>] # << >>
      BY <1>0, <1>2 DEF recv_nid, Goto, DaemonType
    <2>2. /\ peer \in Nodes
          /\ \A k \in 1 .. Len(pending[n]) : pending[n][k] # peer
      BY <2>1, Named
    <2>3. CASE a = peer /\ b = n
      <3>1. ~Unnamed(a, b)'
        BY <2>1, <2>2, <2>3 DEF Unnamed
      <3>2. fd'[a][b] # NoFd
        BY <1>0, <1>a, <2>1, <2>3 DEF WireOK
      <3>3. wire'[<<a, b>>] = Tail(wire[<<a, b>>])
        BY <1>0, <2>1, <2>3 DEF SocketType
      <3>4. QED
        BY <1>0, <2>1, <2>3, <3>1, <3>2, <3>3, WireTail
    <2>4. CASE ~(a = peer /\ b = n)
      <3>1. wire'[<<a, b>>] = wire[<<a, b>>]
        BY <1>0, <2>1, <2>2, <2>4 DEF SocketType
      <3>2. Unnamed(a, b)' <=> Unnamed(a, b)
        <4>1. CASE b # n
          BY <1>b, <2>1, <4>1, SameUnnamed
        <4>2. CASE b = n
          BY <2>1, <2>4, <4>2 DEF Unnamed
        <4>3. QED
          BY <4>1, <4>2
      <3>3. QED
        BY <1>0, <1>a, <3>1, <3>2, WireSame
    <2>5. QED
      BY <2>3, <2>4
  <1>3. CASE connect(n)
    <2>1. /\ stage[n] = "loop" /\ stage'[n] = "exchange" /\ i[n] < n /\ UNCHANGED i
          /\ fd' = [fd EXCEPT ![n] = [fd[n] EXCEPT ![i[n]] = i[n]]]
          /\ pending' = [pending EXCEPT ![i[n]] = Append(@, n)]
          /\ wire' = [wire EXCEPT ![<<n, i[n]>>] = Append(@, n)]
      BY <1>0, <1>3 DEF connect, Goto, DaemonType
    <2>2. i[n] \in Nodes /\ fd[n][i[n]] = NoFd
      BY <2>1, NotConnected
    <2>3. CASE a = n /\ b = i[n]
      <3>a. wire[<<a, b>>] = << >>
        BY <1>0, <2>2, <2>3 DEF WireOK
      <3>b. wire'[<<a, b>>] = Append(wire[<<a, b>>], n)
        BY <1>0, <2>1, <2>3 DEF SocketType
      <3>1. wire'[<<a, b>>] = << n >>
        BY <3>a, <3>b
      <3>2. pending'[b] = Append(pending[b], n) /\ pending[b] \in Seq(Nodes)
        BY <1>0, <2>1, <2>2, <2>3 DEF SocketType
      <3>3. Len(pending[b]) \in Nat /\ Len(pending'[b]) = Len(pending[b]) + 1
            /\ pending'[b][Len(pending[b]) + 1] = n
        BY <3>2
      <3>4. Unnamed(a, b)'
        BY <2>3, <3>3 DEF Unnamed
      <3>5. fd'[a][b] # NoFd
        BY <1>0, <2>1, <2>2, <2>3, NodeFacts DEF SocketType
      <3>6. Len(wire'[<<a, b>>]) = 1 /\ wire'[<<a, b>>][1] = a /\ wire'[<<a, b>>] # << >>
        BY <2>3, <3>1
      <3>7. QED
        BY <3>4, <3>5, <3>6 DEF WireOK
    <2>4. CASE ~(a = n /\ b = i[n])
      <3>1. wire'[<<a, b>>] = wire[<<a, b>>]
        BY <1>0, <2>1, <2>2, <2>4 DEF SocketType
      <3>2. Unnamed(a, b)' <=> Unnamed(a, b)
        <4>1. CASE b # i[n]
          <5>1. pending'[b] = pending[b]
            BY <1>0, <2>1, <4>1 DEF SocketType
          <5>2. CASE b # n
            BY <1>b, <5>1, <5>2, SameUnnamed
          <5>3. CASE b = n
            BY <2>1, <5>1, <5>3, SameUnnamed
          <5>4. QED
            BY <5>2, <5>3
        <4>2. CASE b = i[n]
          <5>1. a # n /\ b # n
            BY <2>1, <2>2, <2>4, <4>2, NodeFacts
          <5>2. pending'[b] = Append(pending[b], n) /\ pending[b] \in Seq(Nodes)
            BY <1>0, <2>1, <2>2, <4>2 DEF SocketType
          <5>3. /\ Len(pending[b]) \in Nat /\ Len(pending'[b]) = Len(pending[b]) + 1
                /\ pending'[b][Len(pending[b]) + 1] = n
                /\ \A k \in 1 .. Len(pending[b]) : pending'[b][k] = pending[b][k]
            BY <5>2
          <5>4. (\E k \in 1 .. Len(pending'[b]) : pending'[b][k] = a)
                   <=> \E k \in 1 .. Len(pending[b]) : pending[b][k] = a
            <6>1. ASSUME NEW k \in 1 .. Len(pending'[b]), pending'[b][k] = a
                  PROVE  \E j \in 1 .. Len(pending[b]) : pending[b][j] = a
              <7>1. k # Len(pending[b]) + 1
                BY <5>1, <5>3, <6>1
              <7>2. k \in 1 .. Len(pending[b])
                BY <5>3, <7>1
              <7>3. QED
                BY <5>3, <6>1, <7>2
            <6>2. ASSUME NEW k \in 1 .. Len(pending[b]), pending[b][k] = a
                  PROVE  \E j \in 1 .. Len(pending'[b]) : pending'[b][j] = a
              <7>1. k \in 1 .. Len(pending'[b])
                BY <5>3
              <7>2. QED
                BY <5>3, <6>2, <7>1
            <6>3. QED
              BY <6>1, <6>2
          <5>5. QED
            BY <1>b, <5>1, <5>4 DEF Unnamed
        <4>3. QED
          BY <4>1, <4>2
      <3>3. QED
        BY <1>0, <1>a, <3>1, <3>2, WireSame
    <2>5. QED
      BY <2>3, <2>4
  <1>4. CASE send_ref(n)
    <2> DEFINE peer == fd[n][srv_idx[n]]
    <2>1. /\ stage[n] = "granted" /\ stage'[n] = "sent" /\ UNCHANGED <<i, fd, pending>>
          /\ wire' = IF peer = NoFd THEN wire
                     ELSE [wire EXCEPT ![<<n, peer>>] = Append(@, desc_gref[n])]
      BY <1>0, <1>4 DEF send_ref, Goto, DaemonType
    <2>2. Unnamed(a, b)' <=> Unnamed(a, b)
      <3>1. CASE b # n
        BY <1>b, <2>1, <3>1, SameUnnamed
      <3>2. CASE b = n
        BY <2>1, <3>2, SameUnnamed
      <3>3. QED
        BY <3>1, <3>2
    <2>3. CASE peer # NoFd /\ a = n /\ b = peer
      <3>1. peer = srv_idx[n] /\ srv_idx[n] \in Nodes
        BY <1>0, <2>1, <2>3, Peer DEF Exchanging, DaemonType
      <3>2. desc_gref[n] \in Refs(a, b)
        BY <2>1, <2>3, <3>1, AtNode DEF ToSendOK
      <3>3. wire'[<<a, b>>] = Append(wire[<<a, b>>], desc_gref[n])
        BY <1>0, <2>1, <2>3 DEF SocketType
      <3>4. fd'[a][b] # NoFd
        BY <2>1, <2>3, <3>1
      <3>5. QED
        BY <1>0, <2>2, <3>2, <3>3, <3>4, WireAppend
    <2>4. CASE ~(peer # NoFd /\ a = n /\ b = peer)
      <3>1. wire'[<<a, b>>] = wire[<<a, b>>]
        BY <1>0, <2>1, <2>4 DEF SocketType
      <3>2. QED
        BY <1>0, <1>a, <2>2, <3>1, WireSame
    <2>5. QED
      BY <2>3, <2>4
  <1>5. CASE recv_ref(n)
    <2> DEFINE peer == fd[n][srv_idx[n]]
    <2>1. /\ stage[n] = "sent" /\ stage'[n] # "accepted" /\ UNCHANGED <<fd, pending>>
          /\ peer # NoFd /\ wire[<<peer, n>>] # << >>
          /\ wire' = [wire EXCEPT ![<<peer, n>>] = Tail(@)]
      BY <1>0, <1>5 DEF recv_ref, Advance, Goto, DaemonType
    <2>2. Unnamed(a, b)' <=> Unnamed(a, b)
      <3>1. CASE b # n
        BY <1>b, <2>1, <3>1, SameUnnamed
      <3>2. CASE b = n
        BY <2>1, <3>2, SameUnnamed
      <3>3. QED
        BY <3>1, <3>2
    <2>3. CASE a = peer /\ b = n
      <3>1. \A k \in 1 .. Len(pending[n]) : pending[n][k] # peer
        BY <1>0, AtNode DEF PendingOK, DaemonType
      <3>2. ~Unnamed(a, b)'
        BY <2>1, <2>3, <3>1 DEF Unnamed
      <3>3. fd'[a][b] # NoFd
        BY <1>0, <1>a, <2>1, <2>3 DEF WireOK
      <3>4. wire'[<<a, b>>] = Tail(wire[<<a, b>>])
        BY <1>0, <2>1, <2>3 DEF SocketType
      <3>5. QED
        BY <1>0, <2>1, <2>3, <3>2, <3>3, <3>4, WireTail
    <2>4. CASE ~(a = peer /\ b = n)
      <3>1. peer = srv_idx[n] /\ srv_idx[n] \in Nodes
        BY <1>0, <2>1, Peer DEF Exchanging, DaemonType
      <3>2. wire'[<<a, b>>] = wire[<<a, b>>]
        BY <1>0, <2>1, <2>4, <3>1 DEF SocketType
      <3>3. QED
        BY <1>0, <1>a, <2>2, <3>2, WireSame
    <2>5. QED
      BY <2>3, <2>4
  <1>6. CASE Listen(n) \/ Skip(n) \/ getref(n) \/ map(n)
    <2>1. UNCHANGED <<fd, pending, wire>> /\ stage[n] # "accepted" /\ stage'[n] # "accepted"
      BY <1>0, <1>6 DEF Listen, Skip, getref, map, Advance, Goto, DaemonType
    <2>2. Unnamed(a, b)' <=> Unnamed(a, b)
      <3>1. CASE b # n
        BY <1>b, <2>1, <3>1, SameUnnamed
      <3>2. CASE b = n
        BY <2>1, <3>2, SameUnnamed
      <3>3. QED
        BY <3>1, <3>2
    <2>3. QED
      BY <1>0, <1>a, <2>1, <2>2, WireSame
  <1>7. QED
    BY <1>1, <1>2, <1>3, <1>4, <1>5, <1>6 DEF Step

(***************************************************************************)
(* What is recorded and what is to be sent                                 *)
(***************************************************************************)
\* What recv_ref receives is a reference of the peer, which is the node of the
\* loop.
LEMMA Received ==
  ASSUME IInv, NEW n \in Nodes, recv_ref(n)
  PROVE  /\ srv_idx[n] \in Nodes /\ srv_idx[n] = i[n] /\ fd[n][srv_idx[n]] = srv_idx[n]
         /\ i[n] # n
         /\ Head(wire[<<srv_idx[n], n>>]) \in Refs(srv_idx[n], n)
  <1> DEFINE m == srv_idx[n]
             w == wire[<<m, n>>]
  <1>0. DaemonType /\ SocketType /\ SocketsOK(n) /\ PendingOK(n)
    BY AtNode
  <1>1. stage[n] = "sent" /\ fd[n][m] # NoFd /\ wire[<<fd[n][m], n>>] # << >>
    BY DEF recv_ref
  <1>2. m \in Nodes /\ m = i[n] /\ fd[n][m] = m /\ i[n] # n
    BY <1>0, <1>1, Peer DEF Exchanging, DaemonType
  <1>3. w \in Seq(Nat) /\ w # << >> /\ WireOK(m, n)
    BY <1>0, <1>1, <1>2 DEF SocketType, IInv
  <1>4. ~Unnamed(m, n)
    BY <1>0, <1>1, <1>2 DEF Unnamed, PendingOK
  <1>5. 1 \in 1 .. Len(w) /\ Head(w) = w[1]
    BY <1>3
  <1>6. QED
    BY <1>2, <1>3, <1>4, <1>5 DEF WireOK

\* What getref makes is a reference for the peer, unless it is refused.
LEMMA Made ==
  ASSUME IInv, NEW n \in Nodes, getref(n)
  PROVE  /\ desc_gref'[n] \in Nat /\ desc_gref'[n] \in Refs(n, srv_idx[n])'
         /\ srv_idx' = srv_idx /\ srv_idx[n] \in Nodes
  <1>0. DaemonType /\ GrantType
    BY AtNode
  <1>1. PICK o \in Outcomes :
          /\ grants' = [grants EXCEPT ![n] = NewGrants(n, o)]
          /\ desc_gref' = [desc_gref EXCEPT ![n] = NewRef(n, o)]
          /\ refused' = IF o = "made" THEN refused ELSE refused \cup {<<n, srv_idx[n]>>}
          /\ srv_idx' = srv_idx
    BY BootstrapAssumption DEF getref, Outcomes
  <1>2. srv_idx[n] \in Nodes /\ grants[n] \in Seq(Grant) /\ desc_gref[n] \in Nat
    BY <1>0 DEF DaemonType, GrantType
  <1>3. CASE o = "made"
    <2> DEFINE x == [to |-> domid[srv_idx[n]], root |-> TRUE]
    <2>1. grants'[n] = Append(grants[n], x) /\ desc_gref'[n] = Len(grants[n]) + 1
      BY <1>0, <1>1, <1>3 DEF NewGrants, NewRef, Grantee, GrantType
    <2>2. x \in Grant
      BY <1>2 DEF Grant
    <2> HIDE DEF x
    <2>3. /\ Len(grants[n]) + 1 \in Nat /\ Len(grants[n]) + 1 \in DOMAIN Append(grants[n], x)
          /\ Append(grants[n], x)[Len(grants[n]) + 1] = x
      BY <1>2, <2>2, AppendProperties
    <2>4. QED
      BY <1>1, <1>2, <2>1, <2>3 DEF Refs, x
  <1>4. CASE o # "made"
    <2>1. desc_gref'[n] = desc_gref[n] /\ <<n, srv_idx'[n]>> \in refused'
      BY <1>0, <1>1, <1>4 DEF NewRef, GrantType
    <2>2. QED
      BY <1>1, <1>2, <2>1 DEF Refs
  <1>5. QED
    BY <1>3, <1>4

\* GETREF sets the domain of the peer's entry, and nothing else.
LEMMA SetDomid ==
  ASSUME IInv, NEW n \in Nodes, getref(n), NEW b \in Nodes
  PROVE  /\ rdomh'[n][b].domid = IF b = srv_idx[n] THEN domid[srv_idx[n]] ELSE rdomh[n][b].domid
         /\ rdomh'[n][b].gref = rdomh[n][b].gref
  <1> DEFINE m == srv_idx[n]
             x == domid[srv_idx[n]]
  <1>0. DaemonType /\ MapType
    BY AtNode
  <1>1. m \in Nodes /\ rdomh[n] \in [Nodes -> Entry] /\ rdomh \in [Nodes -> [Nodes -> Entry]]
    BY <1>0 DEF MapType, DaemonType
  <1>2. rdomh' = [rdomh EXCEPT ![n] = [rdomh[n] EXCEPT ![m] = [rdomh[n][m] EXCEPT !.domid = x]]]
    BY DEF getref
  <1> HIDE DEF x
  <1>3. ASSUME NEW e \in Entry
        PROVE  [e EXCEPT !.domid = x].domid = x /\ [e EXCEPT !.domid = x].gref = e.gref
    BY DEF Entry
  <1>4. /\ [rdomh[n][m] EXCEPT !.domid = x].domid = x
        /\ [rdomh[n][m] EXCEPT !.domid = x].gref = rdomh[n][m].gref
    BY <1>1, <1>3
  <1>5. CASE b = m
    <2>1. rdomh'[n][b] = [rdomh[n][m] EXCEPT !.domid = x]
      BY <1>1, <1>2, <1>5
    <2>2. QED
      BY <1>4, <1>5, <2>1 DEF x
  <1>6. CASE b # m
    <2>1. rdomh'[n][b] = rdomh[n][b]
      BY <1>1, <1>2, <1>6
    <2>2. QED
      BY <1>6, <2>1
  <1>7. QED
    BY <1>5, <1>6

\* PUTREF sets the reference in it.
LEMMA SetGref ==
  ASSUME IInv, NEW n \in Nodes, recv_ref(n), NEW b \in Nodes
  PROVE  /\ rdomh'[n][b].gref = IF b = srv_idx[n] THEN desc_gref'[n] ELSE rdomh[n][b].gref
         /\ rdomh'[n][b].domid = rdomh[n][b].domid
  <1> DEFINE m == srv_idx[n]
             x == desc_gref'[n]
  <1>0. DaemonType /\ MapType
    BY AtNode
  <1>1. m \in Nodes /\ rdomh[n] \in [Nodes -> Entry] /\ rdomh \in [Nodes -> [Nodes -> Entry]]
    BY <1>0 DEF MapType, DaemonType
  <1>2. rdomh' = [rdomh EXCEPT ![n] = [rdomh[n] EXCEPT ![m] = [rdomh[n][m] EXCEPT !.gref = x]]]
    BY DEF recv_ref, RecordAt
  <1> HIDE DEF x
  <1>3. ASSUME NEW e \in Entry
        PROVE  [e EXCEPT !.gref = x].gref = x /\ [e EXCEPT !.gref = x].domid = e.domid
    BY DEF Entry
  <1>4. /\ [rdomh[n][m] EXCEPT !.gref = x].gref = x
        /\ [rdomh[n][m] EXCEPT !.gref = x].domid = rdomh[n][m].domid
    BY <1>1, <1>3
  <1>5. CASE b = m
    <2>1. rdomh'[n][b] = [rdomh[n][m] EXCEPT !.gref = x]
      BY <1>1, <1>2, <1>5
    <2>2. QED
      BY <1>4, <1>5, <2>1 DEF x
  <1>6. CASE b # m
    <2>1. rdomh'[n][b] = rdomh[n][b]
      BY <1>1, <1>2, <1>6
    <2>2. QED
      BY <1>6, <2>1
  <1>7. QED
    BY <1>5, <1>6

\* Every step keeps the records of the drivers.
LEMMA StepRecord ==
  ASSUME IInv, NEW n \in Nodes, Step(n), NEW a \in Nodes, NEW b \in Nodes
  PROVE  RecordOK(a, b)'
  <1>0. DaemonType /\ SocketType /\ MapType /\ TypeOK /\ RecordOK(a, b)
    BY AtNode DEF IInv
  <1>a. Refs(b, a) \subseteq Refs(b, a)'
    BY <1>0, RefsStay
  <1>b. node_cnt \in Nat \ {0} /\ n \in Nat /\ i[n] \in Nat /\ b \in Nat /\ b < node_cnt
    BY <1>0, NodeFacts DEF DaemonType
  <1>1. CASE a # n
    <2>1. rdomh'[a] = rdomh[a] /\ stage'[a] = stage[a] /\ i'[a] = i[a]
      BY <1>0, <1>1, Others
    <2>2. QED
      BY <1>0, <1>a, <2>1 DEF RecordOK, Exchanged
  <1>2. CASE a = n
    <2>1. CASE getref(n)
      <3>1. /\ UNCHANGED i
            /\ stage[n] = "exchange" /\ stage'[n] \in {"hung", "granted"} /\ srv_idx[n] \in Nodes
        BY <1>0, <2>1 DEF getref, Goto, DaemonType
      <3>2. /\ rdomh'[n][b].domid = IF b = srv_idx[n] THEN domid[b] ELSE rdomh[n][b].domid
            /\ rdomh'[n][b].gref = rdomh[n][b].gref
        BY <2>1, <3>1, SetDomid
      <3>3. Exchanged(n, b)' <=> Exchanged(n, b)
        BY <3>1 DEF Exchanged
      <3>4. QED
        BY <1>0, <1>a, <1>2, <3>2, <3>3 DEF RecordOK
    <2>2. CASE recv_ref(n)
      <3> DEFINE m == srv_idx[n]
                 r == Head(wire[<<m, n>>])
      <3>1. /\ m \in Nodes /\ m = i[n] /\ fd[n][m] = m /\ i[n] # n /\ r \in Refs(m, n)
        BY <2>2, Received
      <3>2. /\ desc_gref' = [desc_gref EXCEPT ![n] = Head(wire[<<fd[n][m], n>>])]
            /\ stage[n] = "sent"
        BY <2>2 DEF recv_ref
      <3>3. desc_gref'[n] = r
        BY <3>1, <3>2, AtNode DEF GrantType
      <3>4. /\ rdomh'[n][b].gref = IF b = m THEN r ELSE rdomh[n][b].gref
            /\ rdomh'[n][b].domid = rdomh[n][b].domid
        BY <2>2, <3>3, SetGref
      <3>5. Exchanged(n, b)' => Exchanged(n, b) \/ b = m
        <4>1. \/ i[n] + 1 < node_cnt /\ i'[n] = i[n] + 1 /\ stage'[n] = "loop"
              \/ i[n] + 1 >= node_cnt
          BY <1>0, <1>b, <2>2 DEF recv_ref, Advance, Goto, DaemonType
        <4>2. QED
          BY <1>b, <3>1, <4>1 DEF Exchanged
      <3>6. rdomh[n][m].domid = domid[m]
        BY <3>2, AtNode DEF ToSendOK
      <3>7. QED
        BY <1>0, <1>a, <1>2, <3>1, <3>4, <3>5, <3>6 DEF RecordOK
    <2>3. CASE Skip(n)
      <3>1. rdomh' = rdomh /\ i[n] = n /\ stage[n] = "loop"
        BY <2>3 DEF Skip
      <3>2. Exchanged(n, b)' => Exchanged(n, b) \/ b = n
        <4>1. \/ i[n] + 1 < node_cnt /\ i'[n] = i[n] + 1 /\ stage'[n] = "loop"
              \/ i[n] + 1 >= node_cnt
          BY <1>0, <1>b, <2>3 DEF Skip, Advance, Goto, DaemonType
        <4>2. QED
          BY <1>b, <3>1, <4>1 DEF Exchanged
      <3>3. QED
        BY <1>0, <1>a, <1>2, <3>1, <3>2 DEF RecordOK
    <2>4. CASE map(n)
      <3>1. rdomh' = rdomh /\ stage[n] = "map"
        BY <2>4 DEF map
      <3>2. Exchanged(n, b)
        BY <3>1 DEF Exchanged
      <3>3. QED
        BY <1>0, <1>a, <1>2, <3>1, <3>2 DEF RecordOK
    <2>5. CASE Listen(n) \/ accept(n) \/ recv_nid(n) \/ connect(n) \/ send_ref(n)
      <3>1. /\ rdomh' = rdomh /\ i' = i /\ stage[n] \notin {"map", "active", "exited"}
            /\ stage'[n] \notin {"map", "active", "exited"}
        BY <1>0, <2>5 DEF Listen, accept, recv_nid, connect, send_ref, Goto, DaemonType
      <3>2. QED
        BY <1>0, <1>a, <1>2, <3>1 DEF RecordOK, Exchanged
    <2>6. QED
      BY <2>1, <2>2, <2>3, <2>4, <2>5 DEF Step
  <1>3. QED
    BY <1>1, <1>2

\* Every step keeps what a daemon is to send.
LEMMA StepToSend ==
  ASSUME IInv, NEW n \in Nodes, Step(n), NEW k \in Nodes
  PROVE  ToSendOK(k)'
  <1>0. DaemonType /\ MapType /\ TypeOK /\ ToSendOK(k) /\ srv_idx[k] \in Nodes
    BY AtNode DEF IInv, DaemonType
  <1>a. Refs(k, srv_idx[k]) \subseteq UNION {Refs(k, m)' : m \in {srv_idx[k]}}
    BY <1>0, RefsStay
  <1>1. CASE k # n
    <2>1. /\ stage'[k] = stage[k] /\ srv_idx'[k] = srv_idx[k] /\ desc_gref'[k] = desc_gref[k]
          /\ rdomh'[k] = rdomh[k]
      BY <1>0, <1>1, Others
    <2>2. QED
      BY <1>0, <1>a, <2>1 DEF ToSendOK
  <1>2. CASE k = n
    <2>1. CASE getref(n)
      <3>1. /\ desc_gref'[n] \in Refs(n, srv_idx[n])' /\ srv_idx' = srv_idx /\ srv_idx[n] \in Nodes
        BY <2>1, Made
      <3>2. rdomh'[n][srv_idx[n]].domid = domid[srv_idx[n]]
        BY <2>1, <3>1, SetDomid
      <3>3. QED
        BY <1>2, <3>1, <3>2 DEF ToSendOK
    <2>2. CASE send_ref(n)
      <3>1. stage[n] = "granted" /\ stage'[n] = "sent" /\ UNCHANGED <<rdomh, srv_idx>>
        BY <1>0, <2>2 DEF send_ref, Goto, DaemonType
      <3>2. QED
        BY <1>0, <1>2, <3>1 DEF ToSendOK
    <2>3. CASE ~getref(n) /\ ~send_ref(n)
      <3>1. stage'[n] \notin {"granted", "sent"}
        BY <1>0, <2>3 DEF Step, Listen, Skip, accept, recv_nid, connect, recv_ref, map, Advance, Goto,
            DaemonType
      <3>2. QED
        BY <1>2, <3>1 DEF ToSendOK
    <2>4. QED
      BY <2>1, <2>2, <2>3
  <1>3. QED
    BY <1>1, <1>2

(***************************************************************************)
(* Types                                                                   *)
(***************************************************************************)
\* Every step keeps the types of the daemon's own variables.
LEMMA StepDaemonType == ASSUME IInv, NEW n \in Nodes, Step(n) PROVE DaemonType'
  <1>0. DaemonType /\ IndexOK(n)
    BY AtNode
  <1>a. node_cnt \in Nat \ {0} /\ i[n] \in Nat /\ \A m \in Nodes : m \in Nat /\ m < node_cnt
    BY <1>0, NodeFacts DEF DaemonType
  <1>1. stage' \in [Nodes -> Stages]
    <2>1. \E s \in Stages : stage' = [stage EXCEPT ![n] = s]
      BY DEF Step, Listen, Skip, accept, recv_nid, connect, getref, send_ref, recv_ref, map, Advance,
          Goto, Stages
    <2>2. QED
      BY <1>0, <2>1 DEF DaemonType
  <1>2. i' \in [Nodes -> 0 .. node_cnt]
    <2>1. CASE Skip(n) \/ recv_ref(n)
      <3> DEFINE j == IF i[n] + 1 < node_cnt THEN i[n] + 1 ELSE 0
      <3>a. j \in 0 .. node_cnt
        BY <1>a
      <3>b. i' = [i EXCEPT ![n] = j]
        BY <2>1 DEF Skip, recv_ref, Advance
      <3>1. \E k \in 0 .. node_cnt : i' = [i EXCEPT ![n] = k]
        BY <3>a, <3>b
      <3>2. QED
        BY <1>0, <3>1 DEF DaemonType
    <2>2. CASE map(n)
      <3>1. i[n] < node_cnt /\ (i' = i \/ i' = [i EXCEPT ![n] = i[n] + 1])
        BY <1>0, <2>2 DEF map, IndexOK
      <3>2. i[n] + 1 \in 0 .. node_cnt
        BY <1>a, <3>1
      <3>3. QED
        BY <1>0, <3>1, <3>2 DEF DaemonType
    <2>3. CASE ~Skip(n) /\ ~recv_ref(n) /\ ~map(n)
      BY <1>0, <2>3 DEF Step, Listen, accept, recv_nid, connect, getref, send_ref, DaemonType
    <2>4. QED
      BY <2>1, <2>2, <2>3
  <1>3. srv_idx' \in [Nodes -> Nodes]
    <2>1. CASE recv_nid(n)
      <3>1. stage[n] = "accepted" /\ srv_idx' = [srv_idx EXCEPT ![n] = Head(wire[<<fd[n][i[n]], n>>])]
        BY <2>1 DEF recv_nid
      <3>2. Head(wire[<<fd[n][i[n]], n>>]) \in Nodes
        BY <3>1, Named
      <3>3. QED
        BY <1>0, <3>1, <3>2 DEF DaemonType
    <2>2. CASE connect(n)
      <3>1. stage[n] = "loop" /\ srv_idx' = [srv_idx EXCEPT ![n] = i[n]]
        BY <2>2 DEF connect
      <3>2. i[n] \in Nodes
        BY <3>1, IndexIn DEF Connecting
      <3>3. QED
        BY <1>0, <3>1, <3>2 DEF DaemonType
    <2>3. CASE ~recv_nid(n) /\ ~connect(n)
      BY <1>0, <2>3 DEF Step, Listen, Skip, accept, getref, send_ref, recv_ref, map, DaemonType
    <2>4. QED
      BY <2>1, <2>2, <2>3
  <1>4. QED
    BY <1>1, <1>2, <1>3 DEF DaemonType

\* Every step keeps the types of sockets, queues and wires.
LEMMA StepSocketType == ASSUME IInv, NEW n \in Nodes, Step(n) PROVE SocketType'
  <1>0. DaemonType /\ SocketType /\ GrantType
    BY AtNode
  <1>a. (i[n] \in Nodes /\ n \in Nat) \/ stage[n] \notin Connecting
    BY IndexIn, NodeFacts
  <1>1. fd' \in [Nodes -> [Nodes -> Nodes \cup {NoFd}]]
    <2>1. CASE accept(n) \/ connect(n)
      <3>1. PICK x \in Nodes : fd' = [fd EXCEPT ![n] = [fd[n] EXCEPT ![i[n]] = x]]
        BY <1>a, <2>1, FirstPending DEF accept, connect, Connecting
      <3>2. [fd[n] EXCEPT ![i[n]] = x] \in [Nodes -> Nodes \cup {NoFd}]
        BY <1>0 DEF SocketType
      <3>3. QED
        BY <1>0, <3>1, <3>2 DEF SocketType
    <2>2. CASE ~accept(n) /\ ~connect(n)
      BY <1>0, <2>2 DEF Step, Listen, Skip, recv_nid, getref, send_ref, recv_ref, map, SocketType
    <2>3. QED
      BY <2>1, <2>2
  <1>2. pending' \in [Nodes -> Seq(Nodes)]
    <2>1. CASE accept(n)
      <3>1. pending[n] # << >> /\ pending' = [pending EXCEPT ![n] = Tail(pending[n])]
        BY <2>1 DEF accept
      <3>2. Tail(pending[n]) \in Seq(Nodes)
        BY <1>0, <3>1 DEF SocketType
      <3>3. QED
        BY <1>0, <3>1, <3>2 DEF SocketType
    <2>2. CASE connect(n)
      <3>1. i[n] \in Nodes /\ pending' = [pending EXCEPT ![i[n]] = Append(pending[i[n]], n)]
        BY <1>a, <2>2 DEF connect, Connecting
      <3>2. Append(pending[i[n]], n) \in Seq(Nodes)
        BY <1>0, <3>1 DEF SocketType
      <3>3. QED
        BY <1>0, <3>1, <3>2 DEF SocketType
    <2>3. CASE ~accept(n) /\ ~connect(n)
      BY <1>0, <2>3 DEF Step, Listen, Skip, recv_nid, getref, send_ref, recv_ref, map, SocketType
    <2>4. QED
      BY <2>1, <2>2, <2>3
  <1>3. wire' \in [Nodes \X Nodes -> Seq(Nat)]
    <2>0. wire \in [Nodes \X Nodes -> Seq(Nat)]
      BY <1>0 DEF SocketType
    <2>1. ASSUME NEW p, wire[p] # << >>, wire' = [wire EXCEPT ![p] = Tail(wire[p])]
          PROVE  wire' \in [Nodes \X Nodes -> Seq(Nat)]
      <3>1. p \in Nodes \X Nodes => Tail(wire[p]) \in Seq(Nat)
        BY <2>0, <2>1
      <3>2. QED
        BY <2>0, <2>1, <3>1
    <2>2. ASSUME NEW p, NEW x \in Nat, wire' = [wire EXCEPT ![p] = Append(wire[p], x)]
          PROVE  wire' \in [Nodes \X Nodes -> Seq(Nat)]
      <3>1. p \in Nodes \X Nodes => Append(wire[p], x) \in Seq(Nat)
        BY <2>0, <2>2
      <3>2. QED
        BY <2>0, <2>2, <3>1
    <2>3. CASE recv_nid(n) \/ recv_ref(n)
      BY <2>1, <2>3 DEF recv_nid, recv_ref
    <2>4. CASE connect(n)
      <3>1. n \in Nat /\ wire' = [wire EXCEPT ![<<n, i[n]>>] = Append(@, n)]
        BY <2>4, NodeFacts DEF connect
      <3>2. QED
        BY <2>2, <3>1
    <2>5. CASE send_ref(n)
      <3>1. desc_gref[n] \in Nat
        BY <1>0 DEF GrantType
      <3>2. QED
        BY <1>0, <2>2, <2>5, <3>1 DEF send_ref, SocketType
    <2>6. CASE Listen(n) \/ Skip(n) \/ accept(n) \/ getref(n) \/ map(n)
      BY <1>0, <2>6 DEF Listen, Skip, accept, getref, map, SocketType
    <2>7. QED
      BY <2>3, <2>4, <2>5, <2>6 DEF Step
  <1>4. QED
    BY <1>1, <1>2, <1>3 DEF SocketType

\* Every step keeps the types of the grant tables: no error number becomes a
\* reference.
LEMMA StepGrantType == ASSUME IInv, NEW n \in Nodes, Step(n) PROVE GrantType'
  <1>0. DaemonType /\ GrantType
    BY AtNode
  <1>1. CASE getref(n)
    <2>1. PICK o \in Outcomes :
          /\ grants' = [grants EXCEPT ![n] = NewGrants(n, o)]
          /\ desc_gref' = [desc_gref EXCEPT ![n] = NewRef(n, o)]
          /\ refused' = IF o = "made" THEN refused ELSE refused \cup {<<n, srv_idx[n]>>}
      BY <1>1, BootstrapAssumption DEF getref, Outcomes
    <2>2. srv_idx[n] \in Nodes /\ grants[n] \in Seq(Grant) /\ desc_gref[n] \in Nat
      BY <1>0 DEF DaemonType, GrantType
    <2>3. ASSUME NEW r \in BOOLEAN
          PROVE  [to |-> domid[srv_idx[n]], root |-> r] \in Grant
      BY <2>2 DEF Grant
    <2>4. NewGrants(n, o) \in Seq(Grant)
      <3>1. (o = "made") \in BOOLEAN
        OBVIOUS
      <3>2. [to |-> domid[srv_idx[n]], root |-> o = "made"] \in Grant
        BY <2>3, <3>1
      <3>3. Append(grants[n], [to |-> domid[srv_idx[n]], root |-> o = "made"]) \in Seq(Grant)
        BY <2>2, <3>2, AppendProperties
      <3>4. QED
        BY <2>2, <3>3 DEF NewGrants, Grantee
    <2>5. NewRef(n, o) \in Nat
      BY <2>2 DEF NewRef
    <2>6. QED
      BY <1>0, <2>1, <2>2, <2>4, <2>5 DEF GrantType
  <1>2. CASE recv_ref(n)
    <2>1. Head(wire[<<srv_idx[n], n>>]) \in Nat /\ fd[n][srv_idx[n]] = srv_idx[n]
      BY <1>2, Received DEF Refs
    <2>2. /\ desc_gref' = [desc_gref EXCEPT ![n] = Head(wire[<<srv_idx[n], n>>])]
          /\ UNCHANGED <<grants, refused>>
      BY <1>2, <2>1 DEF recv_ref
    <2>3. QED
      BY <1>0, <2>1, <2>2 DEF GrantType
  <1>3. CASE ~getref(n) /\ ~recv_ref(n)
    BY <1>0, <1>3 DEF Step, Listen, Skip, accept, recv_nid, connect, send_ref, map, GrantType
  <1>4. QED
    BY <1>1, <1>2, <1>3

\* What is mapped is a region of a node, or none, or garbage.
LEMMA GrantedType == ASSUME NEW d, NEW e, NEW g PROVE Granted(d, e, g) \in Nodes \cup {NoRegion, Garbage}
  BY DEF Granted

\* Every step keeps the types of the driver's entries and of the context.
LEMMA StepMapType == ASSUME IInv, NEW n \in Nodes, Step(n) PROVE MapType'
  <1>0. DaemonType /\ GrantType /\ MapType /\ SocketType
    BY AtNode
  <1>1. CASE getref(n)
    <2> DEFINE m == srv_idx[n]
    <2>1. /\ rdomh' = [rdomh EXCEPT ![n] = [rdomh[n] EXCEPT ![m] = [rdomh[n][m] EXCEPT !.domid = domid[m]]]]
          /\ ctx' = ctx
      BY <1>1 DEF getref
    <2>2. m \in Nodes /\ rdomh[n] \in [Nodes -> Entry]
      BY <1>0 DEF DaemonType, MapType
    <2>3. ASSUME NEW e \in Entry PROVE [e EXCEPT !.domid = domid[m]] \in Entry
      BY <2>2 DEF Entry
    <2>4. [rdomh[n][m] EXCEPT !.domid = domid[m]] \in Entry
      BY <2>2, <2>3
    <2>5. QED
      BY <1>0, <2>1, <2>2, <2>4 DEF MapType
  <1>2. CASE recv_ref(n)
    <2> DEFINE m == srv_idx[n]
               r == Head(wire[<<m, n>>])
    <2>1. r \in Nat /\ fd[n][m] = m /\ m \in Nodes
      BY <1>2, Received DEF Refs
    <2>2. /\ desc_gref' = [desc_gref EXCEPT ![n] = r] /\ ctx' = ctx
          /\ rdomh' = [rdomh EXCEPT ![n] = [rdomh[n] EXCEPT ![m] = [rdomh[n][m] EXCEPT !.gref = desc_gref'[n]]]]
      BY <1>2, <2>1 DEF recv_ref, RecordAt
    <2>3. desc_gref'[n] = r
      BY <1>0, <2>2 DEF GrantType
    <2> HIDE DEF r
    <2>4. ASSUME NEW e \in Entry PROVE [e EXCEPT !.gref = r] \in Entry
      BY <2>1 DEF Entry
    <2>5. rdomh[n] \in [Nodes -> Entry] /\ [rdomh[n][m] EXCEPT !.gref = r] \in Entry
      BY <1>0, <2>1, <2>4 DEF MapType
    <2>6. QED
      BY <1>0, <2>1, <2>2, <2>3, <2>5 DEF MapType
  <1>3. CASE map(n)
    <2>1. PICK x \in Nodes \cup {NoRegion, Garbage} :
            ctx' = [ctx EXCEPT ![n] = [ctx[n] EXCEPT ![i[n]] = x]] /\ rdomh' = rdomh
      BY <1>3, GrantedType DEF map
    <2>2. [ctx[n] EXCEPT ![i[n]] = x] \in [Nodes -> Nodes \cup {NoRegion, Garbage}]
      BY <1>0 DEF MapType
    <2>3. QED
      BY <1>0, <2>1, <2>2 DEF MapType
  <1>4. CASE ~getref(n) /\ ~recv_ref(n) /\ ~map(n)
    BY <1>0, <1>4 DEF Step, Listen, Skip, accept, recv_nid, connect, send_ref, MapType
  <1>5. QED
    BY <1>1, <1>2, <1>3, <1>4

(***************************************************************************)
(* The invariant and what follows from it                                  *)
(***************************************************************************)
\* It holds when no daemon has started.
LEMMA InitIInv == Init => IInv
  <1> SUFFICES ASSUME Init PROVE IInv
    OBVIOUS
  <1>a. /\ node_cnt \in Nat \ {0} /\ 0 \in Nodes /\ 0 \in 0 .. node_cnt /\ StackValues \subseteq Nat
        /\ \A n \in Nodes : n \in Nat /\ n < node_cnt
    BY NodeFacts, BootstrapAssumption
  <1>b. << >> \in Seq(Nodes) /\ << >> \in Seq(Nat) /\ << >> \in Seq(Grant)
    OBVIOUS
  <1>1. DaemonType /\ SocketType
    BY <1>a, <1>b DEF Init, DaemonType, SocketType, Stages
  <1>2. GrantType
    BY <1>a, <1>b DEF Init, GrantType
  <1>3. MapType
    <2>1. [domid |-> 0, gref |-> NoRef] \in Entry
      BY DEF Entry, NoRef
    <2>2. QED
      BY <2>1 DEF Init, MapType
  <1>4. TypeOK
    BY <1>1, <1>2, <1>3, TypeParts
  <1>5. ASSUME NEW n \in Nodes PROVE IndexOK(n) /\ SocketsOK(n) /\ PendingOK(n) /\ ToSendOK(n)
    <2>1. /\ stage[n] = "start" /\ i[n] = 0 /\ pending[n] = << >> /\ Len(pending[n]) = 0
          /\ \A m \in Nodes : fd[n][m] = NoFd
      BY DEF Init
    <2>2. IndexOK(n) /\ ToSendOK(n)
      BY <1>a, <2>1 DEF IndexOK, ToSendOK, Exchanging
    <2>3. SocketsOK(n)
      BY <1>a, <2>1 DEF SocketsOK, PeerOK, OwnOK, Exchanging
    <2>4. PendingOK(n)
      BY <2>1 DEF PendingOK
    <2>5. QED
      BY <2>2, <2>3, <2>4
  <1>6. ASSUME NEW n \in Nodes, NEW m \in Nodes PROVE WireOK(m, n) /\ RecordOK(n, m)
    <2>1. /\ wire[<<m, n>>] = << >> /\ Len(wire[<<m, n>>]) = 0 /\ Len(pending[n]) = 0
          /\ stage[n] = "start" /\ i[n] = 0 /\ rdomh[n][m].gref = NoRef /\ m \in Nat
      BY <1>a DEF Init
    <2>2. WireOK(m, n)
      BY <2>1 DEF WireOK, Unnamed
    <2>3. RecordOK(n, m)
      BY <2>1 DEF RecordOK, Exchanged
    <2>4. QED
      BY <2>2, <2>3
  <1>7. QED
    BY <1>4, <1>5, <1>6 DEF IInv

\* Every step keeps it.
LEMMA NextIInv == IInv /\ [Next]_vars => IInv'
  <1> SUFFICES ASSUME IInv, [Next]_vars PROVE IInv'
    OBVIOUS
  <1>1. ASSUME NEW n \in Nodes, Step(n) PROVE IInv'
    <2>1. TypeOK'
      BY <1>1, StepDaemonType, StepSocketType, StepGrantType, StepMapType, TypePartsNext
    <2>2. \A k \in Nodes : IndexOK(k)' /\ SocketsOK(k)' /\ PendingOK(k)' /\ ToSendOK(k)'
      BY <1>1, StepIndex, StepSockets, StepPending, StepToSend
    <2>3. \A k, m \in Nodes : WireOK(m, k)' /\ RecordOK(k, m)'
      BY <1>1, StepWire, StepRecord
    <2>4. QED
      BY <2>1, <2>2, <2>3 DEF IInv
  <1>2. CASE UNCHANGED vars
    <2>1. TypeOK'
      BY <1>2 DEF vars, IInv, TypeOK
    <2>2. ASSUME NEW k \in Nodes PROVE IndexOK(k)' /\ SocketsOK(k)' /\ PendingOK(k)' /\ ToSendOK(k)'
      <3>1. IndexOK(k) /\ SocketsOK(k) /\ PendingOK(k) /\ ToSendOK(k)
        BY DEF IInv
      <3>2. IndexOK(k)' /\ SocketsOK(k)'
        BY <1>2, <3>1 DEF vars, IndexOK, SocketsOK, PeerOK, OwnOK
      <3>3. PendingOK(k)' /\ ToSendOK(k)'
        BY <1>2, <3>1 DEF vars, PendingOK, ToSendOK, Refs
      <3>4. QED
        BY <3>2, <3>3
    <2>3. ASSUME NEW k \in Nodes, NEW m \in Nodes PROVE WireOK(m, k)' /\ RecordOK(k, m)'
      <3>1. WireOK(m, k) /\ RecordOK(k, m)
        BY DEF IInv
      <3>2. WireOK(m, k)'
        BY <1>2, <3>1 DEF vars, WireOK, Unnamed, Refs
      <3>3. RecordOK(k, m)'
        BY <1>2, <3>1 DEF vars, RecordOK, Exchanged, Refs
      <3>4. QED
        BY <3>2, <3>3
    <2>4. QED
      BY <2>1, <2>2, <2>3 DEF IInv
  <1>3. QED
    BY <1>1, <1>2 DEF Next

\* So indices, sockets, queues, wires and records agree in every state of the
\* bootstrap.
THEOREM BootstrapInvariant == Spec => []IInv
  BY InitIInv, NextIInv, PTL DEF Spec

\* TypeOK, for every number of nodes: in particular what recv_nid receives is
\* the number of a node, and what travels as a reference is never the error
\* number of a refused grant.
THEOREM TypeCorrect == Spec => []TypeOK
  <1>1. IInv => TypeOK
    BY DEF IInv
  <1>2. QED
    BY <1>1, BootstrapInvariant, PTL

\* RefsPaired, for every number of nodes and in whatever order the daemons
\* reach each other's listeners: a recorded reference is one that the node it
\* is recorded for has made for the recorder.
THEOREM ReferencesPaired == Spec => []RefsPaired
  <1>1. IInv => RefsPaired
    <2> SUFFICES ASSUME IInv, NEW n \in Nodes, NEW m \in Nodes,
                        rdomh[n][m].gref # NoRef, <<m, n>> \notin refused
                 PROVE  /\ rdomh[n][m].gref \in DOMAIN grants[m]
                        /\ grants[m][rdomh[n][m].gref] = [to |-> domid[n], root |-> TRUE]
      BY DEF RefsPaired
    <2>1. rdomh[n][m].gref \in Refs(m, n)
      BY DEF IInv, RecordOK
    <2>2. QED
      BY <2>1 DEF Refs
  <1>2. QED
    BY <1>1, BootstrapInvariant, PTL

(***************************************************************************)
(* The address space                                                       *)
(***************************************************************************)
\* Mapping by what is recorded of node m gives the region of m, or nothing if m
\* was refused a grant.
LEMMA GrantedRight ==
  ASSUME IInv, Mapped, NEW n \in Nodes, NEW m \in Nodes, NEW g \in Refs(m, n)
  PROVE  \/ Granted(domid[n], domid[m], g) = m
         \/ Granted(domid[n], domid[m], g) = NoRegion /\ <<m, n>> \in refused
  <1> DEFINE granters == {k \in Nodes : domid[k] = domid[m] /\ g \in DOMAIN grants[k]
                                          /\ grants[k][g].to = domid[n]}
             c == CHOOSE k \in granters : TRUE
  <1>1. granters \subseteq {m}
    BY DomidFacts
  <1>2. Granted(domid[n], domid[m], g) =
          IF granters = {} THEN NoRegion ELSE IF grants[c][g].root THEN c ELSE Garbage
    BY DEF Granted
  <1>3. CASE granters = {}
    <2>1. <<m, n>> \in refused
      BY <1>3 DEF Refs
    <2>2. QED
      BY <1>2, <1>3, <2>1
  <1>4. CASE granters # {}
    <2>1. c = m /\ m \in granters
      BY <1>1, <1>4
    <2>2. g \in DOMAIN grants[m]
      BY <2>1
    <2>3. grants[m][g].root = TRUE
      BY <2>2 DEF Mapped, MapOK
    <2>4. QED
      BY <1>2, <1>4, <2>1, <2>3
  <1>5. QED
    BY <1>3, <1>4

\* The hypervisor refuses no page after the first of a region, so that no grant
\* is left behind by create_mr_reference.
CleanedUp == "no later" \notin Refusals

\* Every step keeps the address space, if no clean-up is left unfinished.
LEMMA StepMapped ==
  ASSUME CleanedUp, IInv, Mapped, NEW n \in Nodes, Step(n), NEW k \in Nodes
  PROVE  MapOK(k)'
  <1>0. DaemonType /\ GrantType /\ MapType /\ TypeOK /\ MapOK(k) /\ IndexOK(n)
    BY AtNode DEF IInv, Mapped
  <1>a. refused \subseteq refused'
    BY <1>0, GrantsGrow
  <1>b. node_cnt \in Nat \ {0} /\ i[n] \in Nat /\ \A m \in Nodes : m \in Nat /\ m < node_cnt
    BY <1>0, NodeFacts DEF DaemonType
  <1>1. \A g \in DOMAIN grants'[k] : grants'[k][g].root = TRUE
    <2>1. CASE getref(n)
      <3>1. PICK o \in {"made"} \cup Refusals : grants' = [grants EXCEPT ![n] = NewGrants(n, o)]
        BY <2>1 DEF getref
      <3>2. o # "no later"
        BY <3>1 DEF CleanedUp
      <3> DEFINE x == [to |-> domid[srv_idx[n]], root |-> TRUE]
      <3>3. grants'[n] = grants[n] \/ grants'[n] = Append(grants[n], x)
        BY <1>0, <3>1, <3>2 DEF NewGrants, Grantee, GrantType
      <3>a. grants[n] \in Seq(Grant) /\ srv_idx[n] \in Nodes
        BY <1>0 DEF GrantType, DaemonType
      <3>4. grants[n] \in Seq(Grant) /\ Len(grants[n]) \in Nat /\ x.root = TRUE /\ x \in Grant
        <4>1. x \in Grant /\ x.root = TRUE
          BY <3>a DEF Grant
        <4>2. QED
          BY <3>a, <4>1
      <3> HIDE DEF x
      <3>5. CASE k # n
        BY <1>0, <3>1, <3>5 DEF MapOK, GrantType
      <3>6. CASE k = n /\ grants'[n] = Append(grants[n], x)
        <4>1. /\ DOMAIN Append(grants[n], x) = 1 .. Len(grants[n]) + 1
              /\ DOMAIN grants[n] = 1 .. Len(grants[n])
              /\ Append(grants[n], x)[Len(grants[n]) + 1] = x
              /\ \A j \in 1 .. Len(grants[n]) : Append(grants[n], x)[j] = grants[n][j]
          BY <3>4, AppendProperties
        <4>2. \A g \in 1 .. Len(grants[n]) : grants[n][g].root = TRUE
          BY <1>0, <3>6, <4>1 DEF MapOK
        <4>3. \A g \in 1 .. Len(grants[n]) + 1 : Append(grants[n], x)[g].root = TRUE
          BY <3>4, <4>1, <4>2
        <4>4. QED
          BY <3>6, <4>1, <4>3
      <3>7. QED
        BY <1>0, <3>3, <3>5, <3>6 DEF MapOK
    <2>2. CASE ~getref(n)
      <3>1. grants' = grants
        BY <2>2 DEF Step, Listen, Skip, accept, recv_nid, connect, send_ref, recv_ref, map
      <3>2. QED
        BY <1>0, <3>1 DEF MapOK
    <2>3. QED
      BY <2>1, <2>2
  <1>2. CASE k # n
    <2>1. stage'[k] = stage[k] /\ i'[k] = i[k] /\ ctx'[k] = ctx[k]
      BY <1>0, <1>2, Others
    <2>2. QED
      BY <1>0, <1>a, <1>1, <2>1 DEF MapOK
  <1>3. CASE k = n /\ map(n)
    <2> DEFINE m == i[n]
               r == IF m = n THEN n ELSE Granted(domid[n], rdomh[n][m].domid, rdomh[n][m].gref)
    <2>1. /\ stage[n] = "map" /\ ctx' = [ctx EXCEPT ![n] = [ctx[n] EXCEPT ![m] = r]]
          /\ IF r = NoRegion
               THEN stage'[n] = "exited"
               ELSE i'[n] = m + 1 /\ stage'[n] = (IF m + 1 = node_cnt THEN "active" ELSE "map")
          /\ refused' = refused
      BY <1>0, <1>3 DEF map, Goto, current_entry, DaemonType
    <2>2. m \in Nodes
      BY <2>1, IndexIn
    <2>3. r = m \/ (r = NoRegion /\ <<m, n>> \in refused)
      <3>1. CASE m = n
        BY <3>1
      <3>2. CASE m # n
        <4>1. RecordOK(n, m) /\ Exchanged(n, m)
          BY <2>1, <2>2 DEF IInv, Exchanged
        <4>2. rdomh[n][m].domid = domid[m] /\ rdomh[n][m].gref \in Refs(m, n)
          BY <3>2, <4>1 DEF RecordOK
        <4>3. QED
          BY <2>2, <3>2, <4>2, GrantedRight
      <3>3. QED
        BY <3>1, <3>2
    <2>4. m # NoRegion
      BY <2>2, NodeFacts DEF NoRegion
    <2> HIDE DEF r
    <2>5. ctx'[n] = [ctx[n] EXCEPT ![m] = r] /\ ctx[n] \in [Nodes -> Nodes \cup {NoRegion, Garbage}]
      BY <1>0, <2>1 DEF MapType
    <2>6. ctx'[n][m] = r /\ \A j \in Nodes \ {m} : ctx'[n][j] = ctx[n][j]
      BY <2>2, <2>5
    <2>7. (\A j \in Nodes : ctx[n][j] \in {j, NoRegion}) /\ \A j \in Nodes : j < m => ctx[n][j] = j
      BY <1>0, <1>3, <2>1 DEF MapOK
    <2>8. \A j \in Nodes : ctx'[n][j] \in {j, NoRegion}
      BY <2>3, <2>6, <2>7
    <2>9. CASE r = NoRegion
      BY <1>1, <1>3, <2>1, <2>2, <2>3, <2>4, <2>8, <2>9 DEF MapOK
    <2>10. CASE r # NoRegion
      <3>1. ctx'[n][m] = m
        BY <2>3, <2>6, <2>10
      <3>2. \A j \in Nodes : j < m + 1 => ctx'[n][j] = j
        BY <1>b, <2>6, <2>7, <3>1
      <3>3. m + 1 = node_cnt => \A j \in Nodes : ctx'[n][j] = j
        BY <1>b, <3>2
      <3>4. QED
        BY <1>1, <1>3, <2>1, <2>8, <2>10, <3>2, <3>3 DEF MapOK
    <2>11. QED
      BY <2>9, <2>10
  <1>4. CASE k = n /\ ~map(n)
    <2>1. ctx' = ctx /\ stage[n] \notin {"map", "active", "exited"}
          /\ stage'[n] \notin {"active", "exited"} /\ (stage'[n] = "map" => i'[n] = 0)
      BY <1>0, <1>b, <1>4 DEF Step, Listen, Skip, accept, recv_nid, connect, getref, send_ref, recv_ref,
          Advance, Goto, DaemonType
    <2>2. stage'[n] = "map" => \A m \in Nodes : ~(m < i'[n])
      BY <1>b, <2>1
    <2>3. QED
      BY <1>0, <1>1, <1>4, <2>1, <2>2 DEF MapOK
  <1>5. QED
    BY <1>2, <1>3, <1>4

\* SpaceRight, for every number of nodes, as long as no grant is refused after
\* the first page of a region: what a daemon maps at a node's place is that
\* node's memory, and it gives up only when that node was refused a grant.
THEOREM AddressSpaceRight ==
  ASSUME CleanedUp
  PROVE  Spec => []SpaceRight
  <1>1. Init => Mapped
    BY DEF Init, Mapped, MapOK
  <1>2. IInv /\ Mapped /\ [Next]_vars => Mapped'
    <2> SUFFICES ASSUME IInv, Mapped, [Next]_vars PROVE Mapped'
      OBVIOUS
    <2>1. CASE Next
      BY <2>1, StepMapped DEF Next, Mapped
    <2>2. CASE UNCHANGED vars
      BY <2>2 DEF vars, Mapped, MapOK
    <2>3. QED
      BY <2>1, <2>2
  <1>3. Mapped => SpaceRight
    BY DEF Mapped, MapOK, SpaceRight
  <1>4. QED
    BY <1>1, <1>2, <1>3, InitIInv, NextIInv, PTL DEF Spec
=========================================================================

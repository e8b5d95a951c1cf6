---------------------------- MODULE RpcProofs ----------------------------
(***************************************************************************)
(* Proofs about Rpc, for every number of nodes, clients, servers and       *)
(* entries.  Types hold for every deployment.  The occupancy of the cores  *)
(* is exact, and no completion of a server is written over, where the      *)
(* nodes that serve do not call, the stores of a call are seen together,   *)
(* and a core is given no more requests than its completion queue holds    *)
(* (Inv), whether or not its threads have registered and its assertions    *)
(* are compiled in.  Where besides every client calls a node that serves,  *)
(* the serving cores have registered before the calls begin, and the       *)
(* daemons are no debugging builds, until a case is met that is not        *)
(* handled every call has one trace and the right answer, the SRQ and its  *)
(* users agree, none of the assertions that are left fails, and no         *)
(* completion at all is written over (Calm).                               *)
(***************************************************************************)
EXTENDS Rpc, FiniteSetTheorems, NaturalsInduction, TLAPS

(***************************************************************************)
(* Types.                                                                  *)
(***************************************************************************)
Bits == {0, 1}
PCs == {"reg_wq", "reg_cq", "idle", "send_late", "poll", "recv", "recv_late", "send"}

WqEntries ==
    [op : {"none", "s", "g"}, SR : Bits, valid : Bits, nid : Nodes, buf : Payloads,
     slot_idx : SrqSlots, qp_num_at_receiver : Int,
     send_qp_terminate : BOOLEAN, dispatch_on_recv : BOOLEAN]
CqEntries ==
    [SR : Bits, sending_nid : Nodes, sending_qp : Int, slot_idx : SrqSlots, is_nack : BOOLEAN]
SrqEntries == [valid : BOOLEAN, sending_nid : Nodes, sending_qp : Int]

WqType == [q : [Slots -> WqEntries], head : Slots, SR : Bits]
WqPosType == [tail : Slots, SR : Bits]
CqType == [q : [Slots -> CqEntries], tail : Slots, SR : Bits]
CqPosType == [head : Slots, SR : Bits]
SrqType ==
    [q : [SrqSlots -> SrqEntries], head : SrqSlots, tail : SrqSlots,
     dispatch_slot : SrqSlots, full : BOOLEAN]
ThreadType ==
    [pc : PCs, id : 0 .. CallIds - 1, nid : Nodes, qp : Int, slot : SrqSlots, arg : Payloads]
NetType == [Nodes -> [Nodes -> Seq(MessageType)]]

Shape ==
    /\ wq \in [QPs -> WqType]
    /\ wq_pos \in [QPs -> WqPosType]
    /\ cq \in [QPs -> CqType]
    /\ cq_pos \in [QPs -> CqPosType]
    /\ srq \in [Nodes -> SrqType]
    /\ recv_slots \in [Nodes -> [SrqSlots -> Payloads]]
    /\ rpcs_per_core \in [QPs -> Int]
    /\ net \in NetType
    /\ up \in [Nodes -> BOOLEAN]
    /\ thread \in [QPs -> ThreadType]
    /\ mishap \in BOOLEAN

\* Shape says at least as much as TypeOK.
LEMMA ShapeTypeOK == Shape => TypeOK
<1> SUFFICES ASSUME Shape PROVE TypeOK
  OBVIOUS
<1>1. ASSUME NEW q \in QPs
      PROVE  /\ wq[q].head \in Slots /\ wq[q].SR \in {0, 1}
             /\ \A i \in Slots : wq[q].q[i].slot_idx \in SrqSlots /\ wq[q].q[i].buf \in Payloads
             /\ wq_pos[q].tail \in Slots /\ wq_pos[q].SR \in {0, 1}
  BY DEF Shape, WqType, WqPosType, WqEntries, Bits
<1>2. ASSUME NEW q \in QPs
      PROVE  /\ cq[q].tail \in Slots /\ cq[q].SR \in {0, 1}
             /\ \A i \in Slots : cq[q].q[i].slot_idx \in SrqSlots
             /\ cq_pos[q].head \in Slots /\ cq_pos[q].SR \in {0, 1}
             /\ rpcs_per_core[q] \in Int
             /\ thread[q].pc \in PCs
             /\ thread[q].arg \in Payloads
  BY DEF Shape, CqType, CqPosType, CqEntries, ThreadType, Bits
<1>3. ASSUME NEW n \in Nodes
      PROVE  /\ srq[n].head \in SrqSlots /\ srq[n].tail \in SrqSlots
             /\ srq[n].dispatch_slot \in SrqSlots /\ srq[n].full \in BOOLEAN
             /\ recv_slots[n] \in [SrqSlots -> Payloads]
             /\ \A m \in Nodes : net[m][n] \in Seq(MessageType)
  BY DEF Shape, SrqType, NetType
<1>4. QED
  BY <1>1, <1>2, <1>3 DEF TypeOK, Shape, PCs

\* Zero is a slot of every ring, a node, a call and a bit.
LEMMA Zeros ==
    /\ 0 \in Slots /\ 0 \in SrqSlots /\ 0 \in Nodes /\ 0 \in 0 .. CallIds - 1
    /\ NoPayload \in Payloads
BY RpcAssumption DEF Slots, SrqSlots, Nodes, NoPayload, Payloads

\* The size of the rings and the threshold.
LEMMA Bounds == REQ_THRESHOLD \in Nat /\ MAX_NUM_WQ \in 1 .. 255
BY RpcAssumption

\* Advancing a cursor keeps it a cursor.
LEMMA AdvanceType ==
    ASSUME NEW i \in Slots, NEW s \in Bits
    PROVE  Advance(i) \in Slots /\ Phase(i, s) \in Bits
BY RpcAssumption DEF Slots, Bits, Advance, Phase

\* The next SRQ slot is an SRQ slot.
LEMMA Next1Type == ASSUME NEW i \in SrqSlots PROVE Next1(i) \in SrqSlots
BY RpcAssumption DEF SrqSlots, Next1

\* A queue pair's node and number.
LEMMA QPType == ASSUME NEW q \in QPs PROVE q[1] \in Nodes /\ q[2] \in Nat /\ q = <<q[1], q[2]>>
BY RpcAssumption

(***************************************************************************)
(* The shared receive queue.                                               *)
(***************************************************************************)

\* A set of naturals that is not empty has a least element.
LEMMA NatMin ==
  ASSUME NEW T, T \subseteq Nat, T # {}
  PROVE  \E x \in T : \A y \in T : x <= y
  <1> DEFINE R == OpToRel(<, Nat)
  <1>1. IsWellFoundedOn(R, Nat)
    BY NatLessThanWellFounded
  <1>2. \A y, x \in Nat : <<y, x>> \in R <=> y < x
    BY DEF OpToRel
  <1> HIDE DEF R
  <1>3. PICK x \in T : \A y \in T : ~ (<<y, x>> \in R)
    BY <1>1, WFMin
  <1>4. ASSUME NEW y \in T PROVE x <= y
    <2>1. x \in Nat /\ y \in Nat
      OBVIOUS
    <2>2. ~(y < x)
      BY <1>2, <1>3, <2>1
    <2>3. QED
      BY <2>1, <2>2
  <1>5. QED
    BY <1>4

\* Wrapping around, in the range of the indices that occur.
LEMMA Wrap ==
    ASSUME NEW m \in Nat \ {0}, NEW x \in 0 .. 2 * m - 1
    PROVE  x % m = IF x < m THEN x ELSE x - m
<1>1. x < m => x % m = x
  OBVIOUS
<1>2. x >= m => x % m = x - m
  OBVIOUS
<1> QED BY <1>1, <1>2

\* advance_srq_tail_multiple stops: at the latest when it has come to the head.
LEMMA TailStops ==
    ASSUME NEW s \in SrqType
    PROVE  /\ TailSteps(s) \in 0 .. MAX_NUM_SRQ_SLOTS - 1
           /\ (s.tail + TailSteps(s)) % MAX_NUM_SRQ_SLOTS \in SrqSlots
<1> DEFINE M == MAX_NUM_SRQ_SLOTS
           at(k) == (s.tail + k) % M
           Stop(d) == s.q[at(d)].valid \/ at(d) = s.head
           T == {d \in 0 .. M - 1 : Stop(d)}
<1>1. M \in Nat \ {0} /\ s.tail \in 0 .. M - 1 /\ s.head \in 0 .. M - 1
  BY RpcAssumption DEF SrqType, SrqSlots
<1>2. T # {}
  <2> DEFINE d == IF s.tail <= s.head THEN s.head - s.tail ELSE s.head - s.tail + M
  <2>1. d \in 0 .. M - 1 /\ s.tail + d \in 0 .. 2 * M - 1
        /\ s.tail + d = IF s.tail <= s.head THEN s.head ELSE s.head + M
    BY <1>1
  <2> HIDE DEF d
  <2>2. at(d) = s.head
    <3>1. \A x \in 0 .. 2 * M - 1 : x % M = IF x < M THEN x ELSE x - M
      BY <1>1, Wrap
    <3>2. QED
      BY <1>1, <2>1, <3>1
  <2>3. QED
    BY <2>1, <2>2
<1>3. PICK d \in T : \A e \in T : d <= e
  <2>1. T \subseteq Nat
    BY <1>1
  <2>2. QED
    BY <1>2, <2>1, NatMin
<1>4. \A k \in 0 .. d - 1 : ~Stop(k)
  BY <1>1, <1>3
<1>5. TailSteps(s) \in 0 .. M - 1
  BY <1>3, <1>4 DEF TailSteps
<1>6. QED
  BY <1>1, <1>5 DEF SrqSlots

\* The operations of the SRQ keep its type.
LEMMA SrqOperations ==
    ASSUME NEW s \in SrqType
    PROVE  /\ \A e \in SrqEntries : enqueue_in_srq(s, e) \in SrqType
           /\ advance_dispatch_slot(s) \in SrqType
           /\ \A idx \in SrqSlots : reset_srq_entry_invalid(s, idx) \in SrqType
<1>1. ASSUME NEW e \in SrqEntries PROVE enqueue_in_srq(s, e) \in SrqType
  <2>1. Next1(s.head) \in SrqSlots
    BY Next1Type DEF SrqType
  <2>2. QED
    BY <2>1 DEF enqueue_in_srq, SrqType
<1>2. advance_dispatch_slot(s) \in SrqType
  <2>1. Next1(s.dispatch_slot) \in SrqSlots
    BY Next1Type DEF SrqType
  <2>2. QED
    BY <2>1 DEF advance_dispatch_slot, SrqType
<1>3. ASSUME NEW idx \in SrqSlots PROVE reset_srq_entry_invalid(s, idx) \in SrqType
  <2> DEFINE r == [s EXCEPT !.q[idx].valid = FALSE]
  <2>1. r \in SrqType
    BY DEF SrqType, SrqEntries
  <2> HIDE DEF r
  <2>2. (r.tail + TailSteps(r)) % MAX_NUM_SRQ_SLOTS \in SrqSlots
    BY <2>1, TailStops
  <2>3. advance_srq_tail_multiple(r) \in SrqType
    BY <2>1, <2>2 DEF advance_srq_tail_multiple, SrqType
  <2>4. QED
    BY <2>3 DEF reset_srq_entry_invalid, r
<1>4. QED
  BY <1>1, <1>2, <1>3

\* get_avail_core names a core of the node, if it names one, that is at or
\* below the threshold.
LEMMA AvailCore ==
    ASSUME NEW n \in Nodes, get_avail_core(n) # -1
    PROVE  /\ <<n, get_avail_core(n)>> \in QPs
           /\ rpcs_per_core[<<n, get_avail_core(n)>>] <= REQ_THRESHOLD
<1> DEFINE free == {i \in Cores(n) : rpcs_per_core[<<n, i>>] <= REQ_THRESHOLD}
           i == CHOOSE i \in free : \A j \in free : i <= j
<1>1. free # {} /\ get_avail_core(n) = i
  BY DEF get_avail_core
<1>2. \A k \in Cores(n) : <<n, k>> \in QPs /\ k \in Nat
  BY QPType DEF Cores
<1>3. \E k \in free : \A j \in free : k <= j
  BY <1>1, <1>2, NatMin
<1>4. i \in free
  BY <1>3
<1>5. QED
  BY <1>1, <1>2, <1>4

(***************************************************************************)
(* Types are kept.                                                         *)
(***************************************************************************)

\* The state the daemons start in.
LEMMA InitShape == Init => Shape
<1> SUFFICES ASSUME Init PROVE Shape
  OBVIOUS
<1>1. ZeroWqEntry \in WqEntries /\ ZeroCqEntry \in CqEntries /\ ZeroSrqEntry \in SrqEntries
  BY Zeros DEF ZeroWqEntry, ZeroCqEntry, ZeroSrqEntry, WqEntries, CqEntries, SrqEntries, Bits
<1>2. \A q \in QPs : Thread(IF q \in Registered THEN Ready(q) ELSE "reg_wq") \in ThreadType
  BY Zeros DEF Thread, Ready, ThreadType, PCs
<1>3. srq_init \in SrqType
  BY <1>1, Zeros DEF srq_init, SrqType
<1>4. << >> \in Seq(MessageType)
  OBVIOUS
<1>5. /\ wq \in [QPs -> WqType] /\ wq_pos \in [QPs -> WqPosType]
      /\ cq \in [QPs -> CqType] /\ cq_pos \in [QPs -> CqPosType]
  BY <1>1, Zeros DEF Init, WqType, WqPosType, CqType, CqPosType, Bits
<1>6. net \in NetType
  BY <1>4 DEF Init, NetType
<1>7. recv_slots \in [Nodes -> [SrqSlots -> Payloads]] /\ srq \in [Nodes -> SrqType]
  BY <1>3, Zeros DEF Init
<1>8. thread \in [QPs -> ThreadType]
  BY <1>2 DEF Init
<1>9. rpcs_per_core \in [QPs -> Int] /\ up \in [Nodes -> BOOLEAN] /\ mishap \in BOOLEAN
  <2>1. rpcs_per_core \in [QPs -> Int]
    BY DEF Init
  <2>2. up \in [Nodes -> BOOLEAN]
    BY DEF Init
  <2>3. mishap \in BOOLEAN
    BY DEF Init
  <2>4. QED
    BY <2>1, <2>2, <2>3
<1>10. QED
  BY <1>5, <1>6, <1>7, <1>8, <1>9 DEF Shape

\* What a queue pair holds.
LEMMA QPShape ==
    ASSUME Shape, NEW q \in QPs
    PROVE  /\ wq[q] \in WqType /\ wq_pos[q] \in WqPosType
           /\ cq[q] \in CqType /\ cq_pos[q] \in CqPosType /\ thread[q] \in ThreadType
           /\ wq[q].head \in Slots /\ wq[q].SR \in Bits /\ wq[q].q \in [Slots -> WqEntries]
           /\ WqSlot(q) \in WqEntries /\ Current(q) \in WqEntries
           /\ cq[q].tail \in Slots /\ cq[q].SR \in Bits /\ cq[q].q \in [Slots -> CqEntries]
           /\ CqSlot(q) \in CqEntries /\ cq[q].q[cq[q].tail] \in CqEntries
           /\ wq_pos[q].tail \in Slots /\ wq_pos[q].SR \in Bits
           /\ cq_pos[q].head \in Slots /\ cq_pos[q].SR \in Bits
           /\ rpcs_per_core[q] \in Int
BY DEF Shape, WqType, WqPosType, CqType, CqPosType, WqSlot, Current, CqSlot

\* The stores of rmc_send and rmc_recv up to SR.
LEMMA PublishType ==
    ASSUME Shape, NEW q \in QPs, NEW e \in WqEntries, Publish(q, e)
    PROVE  /\ wq' \in [QPs -> WqType]
           /\ \A p \in QPs \ {q} : wq'[p] = wq[p]
           /\ wq'[q] =
                [q |-> [wq[q].q EXCEPT ![wq[q].head] = [e EXCEPT !.valid = 1, !.SR = wq[q].SR]],
                 head |-> wq[q].head, SR |-> wq[q].SR]
<1>1. [e EXCEPT !.valid = 1, !.SR = wq[q].SR] \in WqEntries
  BY QPShape DEF WqEntries, Bits
<1> DEFINE f == [e EXCEPT !.valid = 1, !.SR = wq[q].SR]
<1> HIDE DEF f
<1>2. wq' = [wq EXCEPT ![q].q[wq[q].head] = f]
  BY DEF Publish, f
<1>3. wq'[q] = [q |-> [wq[q].q EXCEPT ![wq[q].head] = f], head |-> wq[q].head, SR |-> wq[q].SR]
  BY <1>2, QPShape DEF Shape, WqType
<1>4. wq'[q] \in WqType
  BY <1>1, <1>3, QPShape DEF WqType, f
<1>5. QED
  BY <1>2, <1>3, <1>4 DEF Shape, f

\* The later stores, and the move of the head.
LEMMA FinishType ==
    ASSUME Shape, NEW q \in QPs, NEW e \in WqEntries, Finish(q, e)
    PROVE  /\ wq' \in [QPs -> WqType]
           /\ \A p \in QPs \ {q} : wq'[p] = wq[p]
           /\ wq'[q] =
                [q |-> [wq[q].q EXCEPT ![wq[q].head] = e],
                 head |-> Advance(wq[q].head), SR |-> Phase(wq[q].head, wq[q].SR)]
<1>1. Advance(wq[q].head) \in Slots /\ Phase(wq[q].head, wq[q].SR) \in Bits
  BY QPShape, AdvanceType
<1>2. QED
  BY <1>1, QPShape DEF Finish, Shape, WqType

\* The daemon is done with an entry.
LEMMA EntryDoneType ==
    ASSUME Shape, NEW q \in QPs, EntryDone(q)
    PROVE  /\ wq' \in [QPs -> WqType] /\ wq_pos' \in [QPs -> WqPosType]
           /\ \A p \in QPs \ {q} : wq'[p] = wq[p] /\ wq_pos'[p] = wq_pos[p]
           /\ wq'[q] = [q |-> [wq[q].q EXCEPT ![wq_pos[q].tail] = [Current(q) EXCEPT !.valid = 0]],
                        head |-> wq[q].head, SR |-> wq[q].SR]
           /\ wq_pos'[q] = [tail |-> Advance(wq_pos[q].tail),
                            SR |-> Phase(wq_pos[q].tail, wq_pos[q].SR)]
<1> DEFINE i == wq_pos[q].tail
           f == [Current(q) EXCEPT !.valid = 0]
<1>1. Advance(i) \in Slots /\ Phase(i, wq_pos[q].SR) \in Bits
  BY QPShape, AdvanceType
<1>2. f \in WqEntries
  BY QPShape DEF WqEntries, Bits
<1>3. wq' = [wq EXCEPT ![q].q[i].valid = 0]
      /\ wq_pos' = [wq_pos EXCEPT ![q] = [tail |-> Advance(i), SR |-> Phase(i, wq_pos[q].SR)]]
  BY DEF EntryDone, Shape
<1>4. wq[q] \in WqType /\ wq[q].q \in [Slots -> WqEntries] /\ i \in Slots
      /\ Current(q) = wq[q].q[i]
  BY QPShape DEF Current
<1> HIDE DEF i
<1>5. wq'[q] = [q |-> [wq[q].q EXCEPT ![i] = f], head |-> wq[q].head, SR |-> wq[q].SR]
  BY <1>3, <1>4 DEF Shape, WqType
<1> HIDE DEF f
<1>6. wq'[q] \in WqType
  BY <1>2, <1>4, <1>5 DEF WqType
<1>7. wq' \in [QPs -> WqType] /\ wq_pos' \in [QPs -> WqPosType]
  BY <1>1, <1>3, <1>6 DEF Shape, WqPosType
<1>8. QED
  BY <1>3, <1>5, <1>7 DEF Shape, i, f

\* The daemon writes a completion.
LEMMA DeliverType ==
    ASSUME Shape, NEW q, NEW e, q \in QPs => e \in CqEntries, DeliverTo(q, e)
    PROVE  /\ cq' \in [QPs -> CqType] /\ cq_pos' \in [QPs -> CqPosType]
           /\ \A p \in QPs \ {q} : cq'[p] = cq[p] /\ cq_pos'[p] = cq_pos[p]
           /\ q \in QPs =>
                /\ cq'[q] = [q |-> [cq[q].q EXCEPT ![cq_pos[q].head] = [e EXCEPT !.SR = cq_pos[q].SR]],
                             tail |-> cq[q].tail, SR |-> cq[q].SR]
                /\ cq_pos'[q] = [head |-> Advance(cq_pos[q].head),
                                 SR |-> Phase(cq_pos[q].head, cq_pos[q].SR)]
<1>1. CASE q \notin QPs
  BY <1>1 DEF DeliverTo, Shape
<1>2. CASE q \in QPs
  <2> DEFINE h == cq_pos[q].head
             f == [e EXCEPT !.SR = cq_pos[q].SR]
  <2>1. Advance(h) \in Slots /\ Phase(h, cq_pos[q].SR) \in Bits
    BY <1>2, QPShape, AdvanceType
  <2>2. f \in CqEntries
    BY <1>2, QPShape DEF CqEntries
  <2>3. cq' = [cq EXCEPT ![q].q[h] = f]
        /\ cq_pos' = [cq_pos EXCEPT ![q] = [head |-> Advance(h), SR |-> Phase(h, cq_pos[q].SR)]]
    BY DEF DeliverTo
  <2>4. cq_pos[q] \in CqPosType /\ cq[q] \in CqType /\ cq[q].q \in [Slots -> CqEntries] /\ h \in Slots
    BY <1>2, QPShape
  <2> HIDE DEF f, h
  <2>5. cq'[q] = [q |-> [cq[q].q EXCEPT ![h] = f], tail |-> cq[q].tail, SR |-> cq[q].SR]
    BY <1>2, <2>3, <2>4 DEF Shape, CqType
  <2>6. cq'[q] \in CqType
    BY <2>2, <2>4, <2>5 DEF CqType
  <2>7. cq' \in [QPs -> CqType] /\ cq_pos' \in [QPs -> CqPosType]
    BY <1>2, <2>1, <2>3, <2>6 DEF Shape, CqPosType
  <2>8. QED
    BY <1>2, <2>3, <2>5, <2>7 DEF Shape, f, h
<1>3. QED
  BY <1>1, <1>2

\* A call leaves the daemons alone.
LEMMA CallShape ==
    ASSUME Shape, wq' \in [QPs -> WqType], cq' \in [QPs -> CqType],
           thread' \in [QPs -> ThreadType], UNCHANGED daemonVars
    PROVE  Shape'
BY DEF Shape, daemonVars

\* The payloads a thread sends.
LEMMA PayloadTypes ==
    /\ \A c \in Clients : \A k \in 0 .. CallIds - 1 : Request(c, k) \in Payloads
    /\ \A p \in Payloads : Response(p) \in Payloads
BY DEF Request, Response, Payloads

\* rmc_send and rmc_recv keep the types.
LEMMA SendsShape ==
    ASSUME Shape, NEW q \in QPs,
           \/ q \in Clients /\ rmc_send_request(q)
           \/ rmc_send_response(q)
           \/ rmc_recv(q)
    PROVE  Shape'
<1>1. /\ WqSlot(q) \in WqEntries /\ thread[q] \in ThreadType
      /\ thread[q].id \in 0 .. CallIds - 1 /\ thread[q].nid \in Nodes /\ thread[q].arg \in Payloads
  BY QPShape DEF ThreadType
<1>2. PICK e \in WqEntries : Publish(q, e)
  <2>1. CASE q \in Clients /\ rmc_send_request(q)
    <3>1. ServerNode[q] \in Nodes /\ Request(q, thread[q].id) \in Payloads
      <4>1. q \in Clients
        BY <2>1
      <4>2. ServerNode \in [Clients -> Nodes]
        BY RpcAssumption
      <4>3. Request(q, thread[q].id) \in Payloads
        BY <1>1, <4>1, PayloadTypes, Zenon
      <4>4. QED
        BY <4>1, <4>2, <4>3, Zenon
    <3>2. [WqSlot(q) EXCEPT !.op = "s", !.nid = ServerNode[q], !.buf = Request(q, thread[q].id)]
             \in WqEntries
      BY <1>1, <3>1 DEF WqEntries
    <3>3. QED
      BY <2>1, <3>2 DEF rmc_send_request
  <2>2. CASE rmc_send_response(q)
    <3>1. Response(thread[q].arg) \in Payloads
      BY <1>1, PayloadTypes
    <3>2. [WqSlot(q) EXCEPT !.op = "s", !.nid = thread[q].nid, !.buf = Response(thread[q].arg)]
             \in WqEntries
      BY <1>1, <3>1 DEF WqEntries
    <3>3. QED
      BY <2>2, <3>2 DEF rmc_send_response
  <2>3. CASE rmc_recv(q)
    <3>1. [WqSlot(q) EXCEPT !.op = "g", !.nid = thread[q].nid] \in WqEntries
      BY <1>1 DEF WqEntries
    <3>2. QED
      BY <2>3, <3>1 DEF rmc_recv
  <2>4. QED
    BY <2>1, <2>2, <2>3
<1>3. wq' \in [QPs -> WqType]
  BY <1>2, PublishType, Zenon
<1>4. thread' \in [QPs -> ThreadType]
  <2>1. Goto(q, "send_late") \/ Goto(q, "recv_late")
    BY DEF rmc_send_request, rmc_send_response, rmc_recv
  <2>2. [thread[q] EXCEPT !.pc = "send_late"] \in ThreadType
        /\ [thread[q] EXCEPT !.pc = "recv_late"] \in ThreadType
    BY <1>1 DEF ThreadType, PCs
  <2>3. QED
    BY <2>1, <2>2 DEF Goto, Shape
<1>5. UNCHANGED <<cq, daemonVars>>
  BY DEF rmc_send_request, rmc_send_response, rmc_recv
<1>6. QED
  BY <1>3, <1>4, <1>5, CallShape DEF Shape

\* The later stores keep the types.
LEMMA LateShape ==
    ASSUME Shape, NEW q \in QPs, rmc_send_late(q) \/ rmc_recv_late(q)
    PROVE  Shape'
<1>1. /\ WqSlot(q) \in WqEntries /\ thread[q] \in ThreadType
      /\ thread[q].id \in 0 .. CallIds - 1 /\ thread[q].qp \in Int /\ thread[q].slot \in SrqSlots
  BY QPShape DEF ThreadType
<1>2. PICK e \in WqEntries : Finish(q, e)
  <2>1. CASE rmc_send_late(q)
    <3> DEFINE k == IF q \in Servers THEN thread[q].qp ELSE q[2]
    <3>1. k \in Int
      BY <1>1, QPType
    <3>2. [WqSlot(q) EXCEPT !.qp_num_at_receiver = k, !.send_qp_terminate = (q \in Servers)]
            \in WqEntries
      <4> HIDE DEF k
      <4>1. (q \in Servers) \in BOOLEAN
        OBVIOUS
      <4> QED
        BY <1>1, <3>1, <4>1 DEF WqEntries
    <3>3. QED
      BY <2>1, <3>2 DEF rmc_send_late
  <2>2. CASE rmc_recv_late(q)
    <3>1. (q \in Servers) \in BOOLEAN
      OBVIOUS
    <3>2. [WqSlot(q) EXCEPT !.slot_idx = thread[q].slot, !.dispatch_on_recv = (q \in Servers)]
            \in WqEntries
      BY <1>1, <3>1 DEF WqEntries
    <3>3. QED
      BY <2>2, <3>2 DEF rmc_recv_late
  <2>3. QED
    BY <2>1, <2>2
<1>3. wq' \in [QPs -> WqType]
  BY <1>2, FinishType
<1>4. thread' \in [QPs -> ThreadType]
  <2>1. /\ [Thread("poll") EXCEPT !.id = thread[q].id] \in ThreadType
        /\ [thread[q] EXCEPT !.pc = "send"] \in ThreadType
    BY <1>1, Zeros DEF Thread, ThreadType, PCs
  <2>2. (thread[q].id + 1) % CallIds \in 0 .. CallIds - 1
    BY <1>1, RpcAssumption
  <2>3. NextCall(thread[q]) \in ThreadType
    BY <2>2, Zeros DEF NextCall, Thread, ThreadType, PCs
  <2>4. QED
    BY <2>1, <2>3 DEF rmc_send_late, rmc_recv_late, Shape
<1>5. UNCHANGED <<cq, daemonVars>>
  BY DEF rmc_send_late, rmc_recv_late
<1>6. QED
  BY <1>3, <1>4, <1>5, CallShape DEF Shape

\* A thread registers a queue.
LEMMA RegisterShape ==
    ASSUME Shape, NEW q \in QPs, kal_reg_wq(q) \/ kal_reg_cq(q)
    PROVE  Shape'
<1>1. PICK pc \in PCs : Goto(q, pc)
  BY DEF kal_reg_wq, kal_reg_cq, Ready, PCs
<1>2. UNCHANGED <<wq, cq, daemonVars>>
  BY DEF kal_reg_wq, kal_reg_cq
<1>3. thread' \in [QPs -> ThreadType]
  <2>1. [thread[q] EXCEPT !.pc = pc] \in ThreadType
    BY QPShape DEF ThreadType
  <2>2. QED
    BY <1>1, <2>1 DEF Goto, Shape
<1>4. QED
  BY <1>2, <1>3, CallShape DEF Shape

\* What polling a completion leaves behind.
LEMMA PollEffect ==
    ASSUME Shape, NEW q \in QPs, rmc_poll_cq_rpc(q)
    PROVE  /\ cq' \in [QPs -> CqType] /\ thread' \in [QPs -> ThreadType]
           /\ \A p \in QPs \ {q} : cq'[p] = cq[p] /\ thread'[p] = thread[p]
           /\ cq'[q] = [q |-> cq[q].q, tail |-> Advance(cq[q].tail),
                        SR |-> Phase(cq[q].tail, cq[q].SR)]
           /\ q \notin Clients =>
                LET e == cq[q].q[cq[q].tail]
                IN thread'[q] = [thread[q] EXCEPT !.pc = "recv", !.nid = e.sending_nid,
                                     !.qp = e.sending_qp, !.slot = e.slot_idx,
                                     !.arg = recv_slots[q[1]][e.slot_idx]]
<1> DEFINE e == cq[q].q[cq[q].tail]
           th == [thread[q] EXCEPT !.pc = "recv", !.nid = e.sending_nid, !.qp = e.sending_qp,
                                   !.slot = e.slot_idx, !.arg = recv_slots[q[1]][e.slot_idx]]
<1>1. e \in CqEntries /\ thread[q] \in ThreadType /\ cq[q] \in CqType
  BY QPShape
<1>2. e.slot_idx \in SrqSlots /\ q[1] \in Nodes
  BY <1>1, QPType DEF CqEntries
<1>3. recv_slots[q[1]][e.slot_idx] \in Payloads
  BY <1>2 DEF Shape
<1>4. th \in ThreadType
  <2> HIDE DEF e
  <2> QED BY <1>1, <1>3 DEF ThreadType, CqEntries, PCs
<1>5. (thread[q].id + 1) % CallIds \in 0 .. CallIds - 1
  BY <1>1, RpcAssumption DEF ThreadType
<1>6. NextCall(thread[q]) \in ThreadType
  BY <1>5, Zeros DEF NextCall, Thread, ThreadType, PCs
<1>7. thread' = [thread EXCEPT ![q] = IF TestsNack /\ q \in Clients /\ e.is_nack
                                  THEN NextCall(thread[q]) ELSE th]
  BY DEF rmc_poll_cq_rpc, Shape
<1>8. cq' = [cq EXCEPT ![q].tail = Advance(@), ![q].SR = Phase(cq[q].tail, @)]
  BY DEF rmc_poll_cq_rpc
<1>9. Advance(cq[q].tail) \in Slots /\ Phase(cq[q].tail, cq[q].SR) \in Bits
  BY QPShape, AdvanceType
<1>10. cq'[q] = [q |-> cq[q].q, tail |-> Advance(cq[q].tail), SR |-> Phase(cq[q].tail, cq[q].SR)]
  BY <1>1, <1>8 DEF Shape, CqType
<1>11. cq'[q] \in CqType
  BY <1>1, <1>9, <1>10 DEF CqType
<1> HIDE DEF th, e
<1>12. thread' \in [QPs -> ThreadType] /\ \A p \in QPs \ {q} : thread'[p] = thread[p]
  BY <1>4, <1>6, <1>7 DEF Shape
<1>13. cq' \in [QPs -> CqType] /\ \A p \in QPs \ {q} : cq'[p] = cq[p]
  BY <1>8, <1>11 DEF Shape
<1>14. q \notin Clients => thread'[q] = th
  BY <1>7 DEF Shape
<1>15. QED
  BY <1>10, <1>12, <1>13, <1>14 DEF th, e

\* The channels keep their type.
LEMMA NetTypes ==
    ASSUME Shape, NEW i \in Nodes, NEW n \in Nodes
    PROVE  /\ \A c \in NetType : \A m \in MessageType : SendTo(c, i, n, m) \in NetType
           /\ net[i][n] # << >> => Head(net[i][n]) \in MessageType /\ Taken(i, n) \in NetType
<1>1. ASSUME NEW c \in NetType, NEW m \in MessageType PROVE SendTo(c, i, n, m) \in NetType
  <2>1. Append(c[i][n], m) \in Seq(MessageType)
    BY DEF NetType
  <2>2. QED
    BY <2>1 DEF NetType, SendTo
<1>2. ASSUME net[i][n] # << >> PROVE Head(net[i][n]) \in MessageType /\ Taken(i, n) \in NetType
  <2>1. net[i][n] \in Seq(MessageType)
    BY DEF Shape, NetType
  <2>2. Head(net[i][n]) \in MessageType /\ Tail(net[i][n]) \in Seq(MessageType)
    BY <1>2, <2>1
  <2>3. QED
    BY <2>2 DEF Taken, Shape, NetType
<1>3. QED
  BY <1>1, <1>2

\* The daemon serves an entry.
LEMMA ServeShape ==
    ASSUME Shape, NEW q \in QPs, RmcSend(q) \/ RmcRecv(q)
    PROVE  Shape'
<1> DEFINE curr == Current(q)
           n == q[1]
<1>1. /\ curr \in WqEntries /\ n \in Nodes /\ curr.nid \in Nodes /\ curr.slot_idx \in SrqSlots
      /\ curr.buf \in Payloads /\ curr.qp_num_at_receiver \in Int
      /\ curr.send_qp_terminate \in BOOLEAN /\ q[2] \in Int
  BY QPShape, QPType DEF WqEntries
<1> HIDE DEF curr
<1>2. CASE RmcSend(q)
  <2>1. QpStamp(q, curr) \in Int
    BY <1>1 DEF QpStamp
  <2>2. Message("s", curr.send_qp_terminate, QpStamp(q, curr), curr.buf) \in MessageType
    BY <1>1, <2>1 DEF Message, MessageType
  <2>3. SendTo(net, n, curr.nid, Message("s", curr.send_qp_terminate, QpStamp(q, curr), curr.buf))
          \in NetType
    BY <1>1, <2>2, NetTypes DEF Shape
  <2>4. net' \in NetType
    BY <1>2, <2>3 DEF RmcSend, curr
  <2>5. wq' \in [QPs -> WqType] /\ wq_pos' \in [QPs -> WqPosType]
    BY <1>2, EntryDoneType DEF RmcSend
  <2>6. UNCHANGED <<cq, cq_pos, srq, recv_slots, rpcs_per_core, up, thread, mishap>>
    BY <1>2 DEF RmcSend
  <2>7. QED
    BY <2>4, <2>5, <2>6 DEF Shape
<1>3. CASE RmcRecv(q)
  <2>1. Message("g", FALSE, q[2], NoPayload) \in MessageType
    BY <1>1, Zeros DEF Message, MessageType
  <2>2. net' \in NetType
    BY <1>1, <1>3, <2>1, NetTypes DEF RmcRecv, curr, Shape
  <2>3. rpcs_per_core' \in [QPs -> Int]
    <3>1. decrement_core_occupancy(q, curr.dispatch_on_recv)
      BY <1>3 DEF RmcRecv, curr
    <3>2. QED
      BY <3>1 DEF decrement_core_occupancy, Shape
  <2>4. mishap' \in BOOLEAN
    <3>1. mishap' = (mishap \/ LosesEntries(srq[n], curr.slot_idx))
      BY <1>3 DEF RmcRecv, curr
    <3>2. LosesEntries(srq[n], curr.slot_idx) \in BOOLEAN
      <4>1. srq[n].full \in BOOLEAN
        BY <1>1 DEF Shape, SrqType
      <4>2. QED
        BY <4>1 DEF LosesEntries
    <3>3. mishap \in BOOLEAN
      BY DEF Shape
    <3>4. QED
      BY <3>1, <3>2, <3>3
  <2>5. srq' \in [Nodes -> SrqType]
    <3>1. reset_srq_entry_invalid(srq[n], curr.slot_idx) \in SrqType
      BY <1>1, SrqOperations DEF Shape
    <3>2. srq' = srq \/ srq' = [srq EXCEPT ![n] = reset_srq_entry_invalid(srq[n], curr.slot_idx)]
      BY <1>1, <1>3 DEF RmcRecv, curr, Shape
    <3>3. QED
      BY <3>1, <3>2 DEF Shape
  <2>6. /\ wq' \in [QPs -> WqType] /\ wq_pos' \in [QPs -> WqPosType]
        /\ up' \in [Nodes -> BOOLEAN]
    <3>1. \/ EntryDone(q) /\ UNCHANGED up
          \/ up' = [up EXCEPT ![n] = FALSE] /\ UNCHANGED <<wq, wq_pos>>
      BY <1>3 DEF RmcRecv
    <3>2. QED
      BY <3>1, EntryDoneType DEF Shape
  <2>7. UNCHANGED <<cq, cq_pos, recv_slots, thread>>
    BY <1>3 DEF RmcRecv
  <2>8. QED
    BY <2>2, <2>3, <2>4, <2>5, <2>6, <2>7 DEF Shape
<1>4. QED
  BY <1>2, <1>3

\* The daemon takes a message.
LEMMA TakeShape ==
    ASSUME Shape, NEW n \in Nodes, NEW i \in Nodes,
           \/ RecvResponse(i, n) \/ RecvRequest(i, n) \/ RecvRequestFull(i, n)
           \/ RecvAck(i, n) \/ RecvNack(i, n) \/ PeerClosed(i, n)
    PROVE  Shape'
<1> DEFINE msg == Head(net[i][n])
<1>1. srq[n] \in SrqType /\ srq[n].head \in SrqSlots /\ srq[n].full \in BOOLEAN
  BY DEF Shape, SrqType
<1>2. ASSUME \E type : Arrives(i, n, type)
      PROVE  /\ msg \in MessageType /\ Taken(i, n) \in NetType
             /\ msg.qp \in Int /\ msg.payload \in Payloads
  <2>1. msg \in MessageType /\ Taken(i, n) \in NetType
    BY <1>2, NetTypes DEF Arrives
  <2>2. QED
    BY <2>1 DEF MessageType
<1>3. \A p \in Payloads : StoreInSlot(n, p) => recv_slots' \in [Nodes -> [SrqSlots -> Payloads]]
  BY <1>1 DEF StoreInSlot, Shape
<1>4. /\ Abort(n) \/ UNCHANGED up => up' \in [Nodes -> BOOLEAN]
      /\ \A b : Asserted(n, b) => Abort(n) \/ UNCHANGED up
  BY DEF Asserted, Abort, Shape
<1>5. \A q \in QPs : CqSlot(q) \in CqEntries
  BY QPShape
<1>6. CASE RecvResponse(i, n)
  <2> DEFINE q == <<n, msg.qp>>
             e == [CqSlot(q) EXCEPT !.sending_nid = i, !.slot_idx = srq[n].head]
             f == [valid |-> TRUE, sending_nid |-> i, sending_qp |-> -1]
  <2>1. msg \in MessageType /\ Taken(i, n) \in NetType /\ msg.payload \in Payloads
    BY <1>2, <1>6 DEF RecvResponse
  <2>2. mishap' \in BOOLEAN
    <3>1. q \in QPs => CqSlot(q).is_nack \in BOOLEAN
      BY <1>5 DEF CqEntries
    <3>2. mishap' = (mishap \/ srq_full(srq[n]) \/ (q \in QPs /\ CqSlot(q).is_nack))
      BY <1>6 DEF RecvResponse
    <3>3. mishap \in BOOLEAN /\ srq_full(srq[n]) \in BOOLEAN
      BY <1>1 DEF Shape, srq_full
    <3> HIDE DEF q
    <3>4. QED
      BY <3>1, <3>2, <3>3
  <2>3. q \in QPs => e \in CqEntries
    BY <1>1, <1>5 DEF CqEntries
  <2>4. enqueue_in_srq(srq[n], f) \in SrqType
    <3>1. f \in SrqEntries
      BY DEF SrqEntries
    <3>2. QED
      BY <1>1, <3>1, SrqOperations
  <2>5. /\ \/ /\ srq' = [srq EXCEPT ![n] = enqueue_in_srq(srq[n], f)]
              /\ StoreInSlot(n, msg.payload)
              /\ DeliverTo(q, e) \/ UNCHANGED <<cq, cq_pos>>
           \/ UNCHANGED <<srq, recv_slots, cq, cq_pos>>
        /\ Abort(n) \/ UNCHANGED up
    BY <1>4, <1>6 DEF RecvResponse, Shape
  <2>6. net' = Taken(i, n) /\ UNCHANGED <<wq, wq_pos, rpcs_per_core, thread>>
    BY <1>6 DEF RecvResponse
  <2> HIDE DEF q, e, f, msg
  <2>7. cq' \in [QPs -> CqType] /\ cq_pos' \in [QPs -> CqPosType]
    BY <2>3, <2>5, DeliverType DEF Shape
  <2>8. srq' \in [Nodes -> SrqType]
    BY <2>4, <2>5 DEF Shape
  <2>9. recv_slots' \in [Nodes -> [SrqSlots -> Payloads]]
    BY <1>3, <2>1, <2>5 DEF Shape
  <2>10. QED
    BY <1>4, <2>1, <2>2, <2>5, <2>6, <2>7, <2>8, <2>9 DEF Shape
<1>7. CASE RecvRequest(i, n)
  <2> DEFINE f == [valid |-> TRUE, sending_nid |-> i, sending_qp |-> msg.qp]
             queued == enqueue_in_srq(srq[n], f)
             d == queued.dispatch_slot
             q == <<n, get_avail_core(n)>>
             e == [CqSlot(q) EXCEPT !.sending_nid = queued.q[d].sending_nid,
                                    !.sending_qp = queued.q[d].sending_qp, !.slot_idx = d]
  <2>1. msg \in MessageType /\ Taken(i, n) \in NetType /\ msg.payload \in Payloads /\ msg.qp \in Int
    BY <1>2, <1>7 DEF RecvRequest
  <2>2. queued \in SrqType /\ advance_dispatch_slot(queued) \in SrqType
    <3>1. f \in SrqEntries
      BY <2>1 DEF SrqEntries
    <3>2. queued \in SrqType
      BY <1>1, <3>1, SrqOperations
    <3>3. QED
      BY <3>2, SrqOperations
  <2>3. d \in SrqSlots /\ queued.q[d] \in SrqEntries
    BY <2>2 DEF SrqType
  <2>4. /\ net' = Taken(i, n) /\ StoreInSlot(n, msg.payload)
        /\ UNCHANGED <<wq, wq_pos, thread, mishap>>
    BY <1>7 DEF RecvRequest
  <2>5. \/ srq' = [srq EXCEPT ![n] = queued] /\ UNCHANGED <<cq, cq_pos, rpcs_per_core>>
           /\ (UNCHANGED up \/ Abort(n))
        \/ /\ srq' = [srq EXCEPT ![n] = advance_dispatch_slot(queued)]
           /\ UNCHANGED <<cq, cq_pos, rpcs_per_core>> /\ Abort(n)
        \/ /\ srq' = [srq EXCEPT ![n] = advance_dispatch_slot(queued)]
           /\ DeliverTo(q, e)
           /\ rpcs_per_core' = [rpcs_per_core EXCEPT ![q] = @ + 1]
           /\ (UNCHANGED up \/ Abort(n))
    BY <1>4, <1>7, Zenon DEF RecvRequest
  <2>6. q \in QPs => e \in CqEntries
    <3> HIDE DEF queued, d, q
    <3> QED BY <1>5, <2>3 DEF CqEntries, SrqEntries
  <2> HIDE DEF queued, d, q, e, f, msg
  <2>7. cq' \in [QPs -> CqType] /\ cq_pos' \in [QPs -> CqPosType]
    BY <2>5, <2>6, DeliverType DEF Shape
  <2>8. srq' \in [Nodes -> SrqType]
    BY <2>2, <2>5 DEF Shape
  <2>9. recv_slots' \in [Nodes -> [SrqSlots -> Payloads]]
    BY <1>3, <2>1, <2>4
  <2>10. rpcs_per_core' \in [QPs -> Int]
    BY <2>5 DEF Shape
  <2>11. QED
    BY <1>4, <2>1, <2>4, <2>5, <2>7, <2>8, <2>9, <2>10 DEF Shape
<1>8. CASE RecvRequestFull(i, n)
  <2>1. Taken(i, n) \in NetType /\ msg.qp \in Int
    BY <1>2, <1>8 DEF RecvRequestFull
  <2>2. Message("n", FALSE, msg.qp, NoPayload) \in MessageType
    BY <2>1, Zeros DEF Message, MessageType
  <2>3. net' \in NetType
    BY <1>8, <2>1, <2>2, NetTypes DEF RecvRequestFull
  <2>4. QED
    BY <1>8, <2>3 DEF RecvRequestFull, Shape
<1>9. CASE RecvAck(i, n)
  BY <1>2, <1>9 DEF RecvAck, Shape
<1>10. CASE RecvNack(i, n)
  <2> DEFINE q == <<n, msg.qp>>
             e == [CqSlot(q) EXCEPT !.sending_nid = i, !.is_nack = TRUE]
  <2>1. Taken(i, n) \in NetType
    BY <1>2, <1>10 DEF RecvNack
  <2>2. q \in QPs => e \in CqEntries
    BY <1>5 DEF CqEntries
  <2>3. /\ net' = Taken(i, n)
        /\ DeliverTo(q, e) \/ UNCHANGED <<cq, cq_pos>>
        /\ Abort(n) \/ UNCHANGED up
        /\ UNCHANGED <<wq, wq_pos, srq, recv_slots, rpcs_per_core, thread>>
    BY <1>4, <1>10, Zenon DEF RecvNack
  <2> HIDE DEF q, e
  <2>4. cq' \in [QPs -> CqType] /\ cq_pos' \in [QPs -> CqPosType]
    BY <2>2, <2>3, DeliverType DEF Shape
  <2>5. mishap' \in BOOLEAN
    <3>1. mishap' = (mishap \/ ~TestsNack)
      BY <1>10 DEF RecvNack
    <3>2. mishap \in BOOLEAN /\ TestsNack \in BOOLEAN
      BY RpcAssumption DEF Shape
    <3>3. QED
      BY <3>1, <3>2
  <2>6. QED
    BY <1>4, <2>1, <2>3, <2>4, <2>5 DEF Shape
<1>11. CASE PeerClosed(i, n)
  BY <1>4, <1>11 DEF PeerClosed, Shape
<1>12. QED
  BY <1>6, <1>7, <1>8, <1>9, <1>10, <1>11

\* Every step keeps the types.
LEMMA NextShape == Shape /\ [Next]_vars => Shape'
<1> SUFFICES ASSUME Shape, [Next]_vars PROVE Shape'
  OBVIOUS
<1>1. CASE UNCHANGED vars
  BY <1>1 DEF vars, Shape
<1>2. ASSUME NEW q \in QPs, kal_reg_wq(q) \/ kal_reg_cq(q) PROVE Shape'
  BY <1>2, RegisterShape
<1>3. ASSUME NEW q \in Clients, rmc_send_request(q) PROVE Shape'
  BY <1>3, SendsShape DEF QPs
<1>4. ASSUME NEW q \in QPs, Run(q) PROVE Shape'
  <2>1. CASE rmc_poll_cq_rpc(q)
    <3>1. UNCHANGED <<wq, daemonVars>>
      BY <2>1 DEF rmc_poll_cq_rpc
    <3>2. QED
      BY <2>1, <3>1, PollEffect, CallShape DEF Shape
  <2>2. QED
    BY <1>4, <2>1, SendsShape, LateShape DEF Run
<1>5. ASSUME NEW n \in Nodes, Daemon(n) PROVE Shape'
  BY <1>5, ServeShape, TakeShape DEF Daemon
<1>6. QED
  BY <1>2, <1>1, <1>3, <1>4, <1>5 DEF Next

\* The structures of RMCdefines.h and the arrays of the daemon keep their
\* types, in every deployment, whatever happens between the stores of a call.
THEOREM TypeCorrect == Spec => []TypeOK
<1>1. Spec => []Shape
  BY InitShape, NextShape, PTL DEF Spec
<1>2. QED
  BY <1>1, ShapeTypeOK, PTL

(***************************************************************************)
(* Rings: a reader's cursor <<i, s>> and a writer's cursor <<j, t>>.       *)
(***************************************************************************)
InOrder(i, s, j, t) == IF s = t THEN i <= j ELSE j <= i

\* The phase bit of entry k when the writer is at <<j, t>>.
Mark(k, j, t) == IF k < j THEN t ELSE 1 - t

\* The writer's slot joins the stretch when the writer moves on.
LEMMA StretchGrows ==
    ASSUME NEW i \in Slots, NEW s \in Bits, NEW j \in Slots, NEW t \in Bits,
           InOrder(i, s, j, t), j \notin Stretch(i, s, j, t)
    PROVE  /\ InOrder(i, s, Advance(j), Phase(j, t))
           /\ Stretch(i, s, Advance(j), Phase(j, t)) = Stretch(i, s, j, t) \union {j}
           /\ \A k \in Slots : Mark(k, Advance(j), Phase(j, t)) = IF k = j THEN t ELSE Mark(k, j, t)
<1>1. InOrder(i, s, Advance(j), Phase(j, t))
  BY RpcAssumption DEF Slots, Bits, Advance, Phase, InOrder, Stretch
<1>2. ASSUME NEW k \in Slots
      PROVE  k \in Stretch(i, s, Advance(j), Phase(j, t)) <=> k \in Stretch(i, s, j, t) \union {j}
  BY RpcAssumption DEF Slots, Bits, Advance, Phase, InOrder, Stretch
<1>3. \A x, y, u, v : Stretch(x, u, y, v) \subseteq Slots
  BY DEF Stretch
<1>4. ASSUME NEW k \in Slots
      PROVE Mark(k, Advance(j), Phase(j, t)) = IF k = j THEN t ELSE Mark(k, j, t)
  BY RpcAssumption DEF Slots, Bits, Advance, Phase, Mark
<1>5. QED
  BY <1>1, <1>2, <1>3, <1>4

\* The reader's slot leaves the stretch when the reader moves on.
LEMMA StretchShrinks ==
    ASSUME NEW i \in Slots, NEW s \in Bits, NEW j \in Slots, NEW t \in Bits,
           InOrder(i, s, j, t), i \in Stretch(i, s, j, t)
    PROVE  /\ InOrder(Advance(i), Phase(i, s), j, t)
           /\ Stretch(Advance(i), Phase(i, s), j, t) = Stretch(i, s, j, t) \ {i}
<1>1. InOrder(Advance(i), Phase(i, s), j, t)
  BY RpcAssumption DEF Slots, Bits, Advance, Phase, InOrder, Stretch
<1>2. ASSUME NEW k \in Slots
      PROVE  k \in Stretch(Advance(i), Phase(i, s), j, t) <=> k \in Stretch(i, s, j, t) \ {i}
  BY RpcAssumption DEF Slots, Bits, Advance, Phase, InOrder, Stretch
<1>3. \A x, y, u, v : Stretch(x, u, y, v) \subseteq Slots
  BY DEF Stretch
<1>4. QED
  BY <1>1, <1>2, <1>3

\* A stretch that holds the writer's slot is the whole ring; the phase bit at
\* the reader's slot tells whether there is something to read.
LEMMA StretchEnds ==
    ASSUME NEW i \in Slots, NEW s \in Bits, NEW j \in Slots, NEW t \in Bits,
           InOrder(i, s, j, t)
    PROVE  /\ j \in Stretch(i, s, j, t) => Stretch(i, s, j, t) = Slots
           /\ Mark(i, j, t) = s <=> i \in Stretch(i, s, j, t)
           /\ i = j /\ t = s => i \notin Stretch(i, s, j, t)
<1>1. ASSUME j \in Stretch(i, s, j, t), NEW k \in Slots PROVE k \in Stretch(i, s, j, t)
  BY <1>1 DEF Slots, Bits, InOrder, Stretch
<1>2. Stretch(i, s, j, t) \subseteq Slots
  BY DEF Stretch
<1>3. Mark(i, j, t) = s <=> i \in Stretch(i, s, j, t)
  BY DEF Slots, Bits, InOrder, Stretch, Mark
<1>4. i = j /\ t = s => i \notin Stretch(i, s, j, t)
  BY DEF Slots, Bits, Stretch
<1>5. QED
  BY <1>1, <1>2, <1>3, <1>4

\* Stretches are finite, and the ring has MAX_NUM_WQ slots.
LEMMA SlotCounts ==
    /\ IsFiniteSet(Slots) /\ Cardinality(Slots) = MAX_NUM_WQ
    /\ \A S \in SUBSET Slots :
          /\ IsFiniteSet(S) /\ Cardinality(S) \in Nat
          /\ \A x \in S : Cardinality(S \ {x}) = Cardinality(S) - 1
          /\ \A x \in Slots \ S : Cardinality(S \union {x}) = Cardinality(S) + 1
<1>1. IsFiniteSet(Slots) /\ Cardinality(Slots) = MAX_NUM_WQ
  <2>1. 0 \in Int /\ MAX_NUM_WQ - 1 \in Int /\ 0 <= MAX_NUM_WQ - 1 /\ MAX_NUM_WQ - 1 - 0 + 1 = MAX_NUM_WQ
    BY RpcAssumption
  <2>2. QED
    BY <2>1, FS_Interval DEF Slots
<1>2. ASSUME NEW S \in SUBSET Slots
      PROVE  /\ IsFiniteSet(S) /\ Cardinality(S) \in Nat
             /\ \A x \in S : Cardinality(S \ {x}) = Cardinality(S) - 1
             /\ \A x \in Slots \ S : Cardinality(S \union {x}) = Cardinality(S) + 1
  <2>1. IsFiniteSet(S) /\ Cardinality(S) \in Nat
    BY <1>1, FS_Subset, FS_CardinalityType
  <2>2. QED
    BY <2>1, FS_AddElement, FS_RemoveElement
<1>3. QED
  BY <1>1, <1>2

(***************************************************************************)
(* The invariant of a server's queue pair: its work queue r with the       *)
(* daemon's place p, its completion queue c with the daemon's place d, and *)
(* its thread th.                                                          *)
(***************************************************************************)
Late(th) == th.pc \in {"send_late", "recv_late"}
Holds(th) == th.pc \in {"recv", "recv_late"}
ToServe(r, p) == Stretch(p.tail, p.SR, r.head, r.SR)
ToRead(c, d) == Stretch(c.tail, c.SR, d.head, d.SR)

\* An entry is valid while it is to be served, or written and not yet counted;
\* its phase bit says on which side of the head it is.  What is to be served is
\* complete: the late stores have been made.
WqMarks(r, p, th) ==
    /\ InOrder(p.tail, p.SR, r.head, r.SR)
    /\ \A k \in Slots :
          /\ r.q[k].SR = IF k = r.head /\ Late(th) THEN r.SR ELSE Mark(k, r.head, r.SR)
          /\ r.q[k].valid = 1 <=> k \in ToServe(r, p) \/ (k = r.head /\ Late(th))
    /\ Late(th) => r.head \notin ToServe(r, p)

WqContents(r, p, th) ==
    /\ th.pc = "send_late" => r.q[r.head].op = "s" /\ r.q[r.head].nid = th.nid
    /\ th.pc = "recv_late" => r.q[r.head].op = "g"
    /\ \A k \in ToServe(r, p) :
          /\ r.q[k].op = "s" => /\ r.q[k].send_qp_terminate
                                /\ <<r.q[k].nid, r.q[k].qp_num_at_receiver>> \in Clients
          /\ r.q[k].op = "g" => r.q[k].dispatch_on_recv

CqInv(c, d) ==
    /\ InOrder(c.tail, c.SR, d.head, d.SR)
    /\ \A k \in Slots : c.q[k].SR = Mark(k, d.head, d.SR)
    /\ \A k \in ToRead(c, d) : <<c.q[k].sending_nid, c.q[k].sending_qp>> \in Clients

ThreadInv(th) ==
    th.pc \in {"recv", "recv_late", "send", "send_late"} => <<th.nid, th.qp>> \in Clients

ToRelease(r, p) == {k \in ToServe(r, p) : r.q[k].op = "g"}

Occupancy(r, p, c, d, th) ==
    Cardinality(ToRead(c, d)) + (IF Holds(th) THEN 1 ELSE 0) + Cardinality(ToRelease(r, p))

\* The stores up to SR: they go to a free entry, outside what is to be served.
LEMMA PublishKeeps ==
    ASSUME NEW r \in WqType, NEW p \in WqPosType, NEW th \in ThreadType, NEW e \in WqEntries,
           NEW th2 \in ThreadType,
           WqMarks(r, p, th), WqContents(r, p, th), ~Late(th), Late(th2),
           r.q[r.head].valid = 0,
           th2.pc = "send_late" => e.op = "s" /\ e.nid = th2.nid,
           th2.pc = "recv_late" => e.op = "g"
    PROVE  LET r2 == [q |-> [r.q EXCEPT ![r.head] = [e EXCEPT !.valid = 1, !.SR = r.SR]],
                      head |-> r.head, SR |-> r.SR]
           IN /\ WqMarks(r2, p, th2) /\ WqContents(r2, p, th2)
              /\ ToRelease(r2, p) = ToRelease(r, p)
<1> DEFINE f == [e EXCEPT !.valid = 1, !.SR = r.SR]
           r2 == [q |-> [r.q EXCEPT ![r.head] = f], head |-> r.head, SR |-> r.SR]
<1>1. f.valid = 1 /\ f.SR = r.SR /\ f.op = e.op /\ f.nid = e.nid
  BY DEF WqEntries
<1> HIDE DEF f
<1>2. /\ r.head \in Slots /\ r2.head = r.head /\ r2.SR = r.SR
      /\ r2.q[r.head] = f /\ \A k \in Slots \ {r.head} : r2.q[k] = r.q[k]
  BY DEF WqType
<1> HIDE DEF r2
<1>3. ToServe(r2, p) = ToServe(r, p) /\ ToServe(r, p) \subseteq Slots
  BY <1>2 DEF ToServe, Stretch
<1>4. r.head \notin ToServe(r, p)
  BY <1>2 DEF WqMarks
<1>5. WqMarks(r2, p, th2)
  BY <1>1, <1>2, <1>3, <1>4 DEF WqMarks
<1>6. \A k \in ToServe(r, p) : r2.q[k] = r.q[k]
  BY <1>2, <1>3, <1>4
<1>7. WqContents(r2, p, th2)
  BY <1>1, <1>2, <1>3, <1>6 DEF WqContents
<1>8. ToRelease(r2, p) = ToRelease(r, p)
  BY <1>3, <1>6 DEF ToRelease
<1>9. QED
  BY <1>5, <1>7, <1>8 DEF r2, f

\* The late stores: the entry is complete and the head moves.
LEMMA FinishKeeps ==
    ASSUME NEW r \in WqType, NEW p \in WqPosType, NEW th \in ThreadType, NEW e \in WqEntries,
           NEW th2 \in ThreadType,
           WqMarks(r, p, th), WqContents(r, p, th), Late(th), ~Late(th2),
           e.SR = r.q[r.head].SR, e.valid = r.q[r.head].valid,
           e.op = "s" => e.send_qp_terminate /\ <<e.nid, e.qp_num_at_receiver>> \in Clients,
           e.op = "g" => e.dispatch_on_recv
    PROVE  LET r2 == [q |-> [r.q EXCEPT ![r.head] = e],
                      head |-> Advance(r.head), SR |-> Phase(r.head, r.SR)]
           IN /\ WqMarks(r2, p, th2) /\ WqContents(r2, p, th2)
              /\ ToRelease(r2, p) = ToRelease(r, p) \union (IF e.op = "g" THEN {r.head} ELSE {})
              /\ r.head \notin ToRelease(r, p)
<1> DEFINE r2 == [q |-> [r.q EXCEPT ![r.head] = e],
                  head |-> Advance(r.head), SR |-> Phase(r.head, r.SR)]
<1>1. /\ r.head \in Slots /\ r.SR \in Bits /\ p.tail \in Slots /\ p.SR \in Bits
      /\ r2.head = Advance(r.head) /\ r2.SR = Phase(r.head, r.SR)
      /\ r2.q[r.head] = e /\ \A k \in Slots \ {r.head} : r2.q[k] = r.q[k]
  BY DEF WqType, WqPosType
<1> HIDE DEF r2
<1>2. r.head \notin ToServe(r, p) /\ InOrder(p.tail, p.SR, r.head, r.SR)
      /\ e.SR = r.SR /\ e.valid = 1
  BY <1>1 DEF WqMarks
<1>3. /\ InOrder(p.tail, p.SR, r2.head, r2.SR)
      /\ ToServe(r2, p) = ToServe(r, p) \union {r.head}
      /\ \A k \in Slots : Mark(k, r2.head, r2.SR) = IF k = r.head THEN r.SR ELSE Mark(k, r.head, r.SR)
  BY <1>1, <1>2, StretchGrows DEF ToServe
<1>4. ToServe(r, p) \subseteq Slots
  BY DEF ToServe, Stretch
<1>5. WqMarks(r2, p, th2)
  <2>1. ASSUME NEW k \in Slots
        PROVE  /\ r2.q[k].SR = Mark(k, r2.head, r2.SR)
               /\ r2.q[k].valid = 1 <=> k \in ToServe(r2, p)
    BY <1>1, <1>2, <1>3 DEF WqMarks
  <2>2. QED
    BY <1>3, <2>1 DEF WqMarks
<1>6. \A k \in ToServe(r, p) : r2.q[k] = r.q[k]
  BY <1>1, <1>2, <1>4
<1>7. WqContents(r2, p, th2)
  <2>1. ~(th2.pc = "send_late") /\ ~(th2.pc = "recv_late")
    BY DEF Late
  <2>2. QED
    BY <1>1, <1>3, <1>6, <2>1 DEF WqContents
<1>8. ToRelease(r2, p) = ToRelease(r, p) \union (IF e.op = "g" THEN {r.head} ELSE {})
  BY <1>1, <1>3, <1>6 DEF ToRelease
<1>9. QED
  BY <1>2, <1>5, <1>7, <1>8 DEF r2, ToRelease

\* The daemon finds an entry and is done with it: it was one to be served.
LEMMA ServeKeeps ==
    ASSUME NEW r \in WqType, NEW p \in WqPosType, NEW th \in ThreadType,
           WqMarks(r, p, th), WqContents(r, p, th),
           r.q[p.tail].SR = p.SR, ~(Late(th) /\ r.head = p.tail)
    PROVE  LET e == r.q[p.tail]
               r2 == [q |-> [r.q EXCEPT ![p.tail] = [e EXCEPT !.valid = 0]],
                      head |-> r.head, SR |-> r.SR]
               p2 == [tail |-> Advance(p.tail), SR |-> Phase(p.tail, p.SR)]
           IN /\ p.tail \in ToServe(r, p)
              /\ WqMarks(r2, p2, th) /\ WqContents(r2, p2, th)
              /\ ToRelease(r2, p2) = ToRelease(r, p) \ {p.tail}
<1> DEFINE e == r.q[p.tail]
           f == [e EXCEPT !.valid = 0]
           r2 == [q |-> [r.q EXCEPT ![p.tail] = f], head |-> r.head, SR |-> r.SR]
           p2 == [tail |-> Advance(p.tail), SR |-> Phase(p.tail, p.SR)]
<1>1. /\ r.head \in Slots /\ r.SR \in Bits /\ p.tail \in Slots /\ p.SR \in Bits
      /\ r2.head = r.head /\ r2.SR = r.SR
      /\ p2.tail = Advance(p.tail) /\ p2.SR = Phase(p.tail, p.SR)
      /\ r2.q[p.tail] = f /\ \A k \in Slots \ {p.tail} : r2.q[k] = r.q[k]
  BY DEF WqType, WqPosType
<1>2. /\ f.valid = 0 /\ f.SR = e.SR /\ f.op = e.op /\ f.nid = e.nid
  BY <1>1 DEF WqType, WqEntries
<1> HIDE DEF r2, p2, f
<1>3. e.SR = Mark(p.tail, r.head, r.SR) /\ InOrder(p.tail, p.SR, r.head, r.SR)
  BY <1>1 DEF WqMarks
<1>4. p.tail \in ToServe(r, p)
  BY <1>1, <1>3, StretchEnds DEF ToServe
<1>5. /\ InOrder(p2.tail, p2.SR, r2.head, r2.SR)
      /\ ToServe(r2, p2) = ToServe(r, p) \ {p.tail}
  BY <1>1, <1>3, <1>4, StretchShrinks DEF ToServe
<1>6. ToServe(r, p) \subseteq Slots
  BY DEF ToServe, Stretch
<1>7. WqMarks(r2, p2, th)
  <2>1. Late(th) => r.head # p.tail
    OBVIOUS
  <2>2. ASSUME NEW k \in Slots
        PROVE  /\ r2.q[k].SR = IF k = r2.head /\ Late(th) THEN r2.SR ELSE Mark(k, r2.head, r2.SR)
               /\ r2.q[k].valid = 1 <=> k \in ToServe(r2, p2) \/ (k = r2.head /\ Late(th))
    BY <1>1, <1>2, <1>3, <1>5, <2>1 DEF WqMarks
  <2>3. QED
    BY <1>1, <1>5, <2>2 DEF WqMarks
<1>8. \A k \in ToServe(r2, p2) : r2.q[k] = r.q[k]
  BY <1>1, <1>5, <1>6
<1>9. WqContents(r2, p2, th)
  <2>1. Late(th) => r2.q[r.head] = r.q[r.head]
    BY <1>1
  <2>2. QED
    BY <1>1, <1>5, <1>8, <2>1 DEF WqContents, Late
<1>10. ToRelease(r2, p2) = ToRelease(r, p) \ {p.tail}
  BY <1>5, <1>8 DEF ToRelease
<1>11. QED
  BY <1>4, <1>7, <1>9, <1>10 DEF r2, p2, f

\* The daemon writes a completion where there is none to be read.
LEMMA DeliverKeeps ==
    ASSUME NEW c \in CqType, NEW d \in CqPosType, NEW e \in CqEntries,
           CqInv(c, d), Cardinality(ToRead(c, d)) < MAX_NUM_WQ,
           <<e.sending_nid, e.sending_qp>> \in Clients
    PROVE  LET c2 == [q |-> [c.q EXCEPT ![d.head] = [e EXCEPT !.SR = d.SR]],
                      tail |-> c.tail, SR |-> c.SR]
               d2 == [head |-> Advance(d.head), SR |-> Phase(d.head, d.SR)]
           IN /\ d.head \notin ToRead(c, d)
              /\ CqInv(c2, d2)
              /\ ToRead(c2, d2) = ToRead(c, d) \union {d.head}
<1> DEFINE f == [e EXCEPT !.SR = d.SR]
           c2 == [q |-> [c.q EXCEPT ![d.head] = f], tail |-> c.tail, SR |-> c.SR]
           d2 == [head |-> Advance(d.head), SR |-> Phase(d.head, d.SR)]
<1>1. /\ c.tail \in Slots /\ c.SR \in Bits /\ d.head \in Slots /\ d.SR \in Bits
      /\ c2.tail = c.tail /\ c2.SR = c.SR
      /\ d2.head = Advance(d.head) /\ d2.SR = Phase(d.head, d.SR)
      /\ c2.q[d.head] = f /\ \A k \in Slots \ {d.head} : c2.q[k] = c.q[k]
  BY DEF CqType, CqPosType
<1>2. f.SR = d.SR /\ f.sending_nid = e.sending_nid /\ f.sending_qp = e.sending_qp
  BY DEF CqEntries
<1> HIDE DEF f, c2, d2
<1>3. d.head \notin ToRead(c, d)
  <2>1. SUFFICES ASSUME d.head \in ToRead(c, d) PROVE FALSE
    OBVIOUS
  <2>2. ToRead(c, d) = Slots
    BY <1>1, <2>1, StretchEnds DEF CqInv, ToRead
  <2>3. MAX_NUM_WQ \in Nat
    BY RpcAssumption
  <2>4. QED
    BY <2>2, <2>3, SlotCounts
<1>4. /\ InOrder(c2.tail, c2.SR, d2.head, d2.SR)
      /\ ToRead(c2, d2) = ToRead(c, d) \union {d.head}
      /\ \A k \in Slots : Mark(k, d2.head, d2.SR) = IF k = d.head THEN d.SR ELSE Mark(k, d.head, d.SR)
  BY <1>1, <1>3, StretchGrows DEF CqInv, ToRead
<1>5. ToRead(c, d) \subseteq Slots
  BY DEF ToRead, Stretch
<1>6. CqInv(c2, d2)
  <2>1. \A k \in Slots : c2.q[k].SR = Mark(k, d2.head, d2.SR)
    BY <1>1, <1>2, <1>4 DEF CqInv
  <2>2. \A k \in ToRead(c2, d2) : <<c2.q[k].sending_nid, c2.q[k].sending_qp>> \in Clients
    BY <1>1, <1>2, <1>4, <1>5 DEF CqInv
  <2>3. QED
    BY <1>4, <2>1, <2>2 DEF CqInv
<1>7. QED
  BY <1>3, <1>4, <1>6 DEF c2, d2, f

\* The thread polls a completion.
LEMMA PollKeeps ==
    ASSUME NEW c \in CqType, NEW d \in CqPosType, CqInv(c, d), c.q[c.tail].SR = c.SR
    PROVE  LET c2 == [q |-> c.q, tail |-> Advance(c.tail), SR |-> Phase(c.tail, c.SR)]
           IN /\ c.tail \in ToRead(c, d) /\ CqInv(c2, d) /\ ToRead(c2, d) = ToRead(c, d) \ {c.tail}
<1> DEFINE c2 == [q |-> c.q, tail |-> Advance(c.tail), SR |-> Phase(c.tail, c.SR)]
<1>1. /\ c.tail \in Slots /\ c.SR \in Bits /\ d.head \in Slots /\ d.SR \in Bits
      /\ c2.tail = Advance(c.tail) /\ c2.SR = Phase(c.tail, c.SR) /\ c2.q = c.q
  BY DEF CqType, CqPosType
<1> HIDE DEF c2
<1>2. c.tail \in ToRead(c, d)
  BY <1>1, StretchEnds DEF CqInv, ToRead
<1>3. InOrder(c2.tail, c2.SR, d.head, d.SR) /\ ToRead(c2, d) = ToRead(c, d) \ {c.tail}
  BY <1>1, <1>2, StretchShrinks DEF CqInv, ToRead
<1>4. CqInv(c2, d)
  BY <1>1, <1>3 DEF CqInv
<1>5. QED
  BY <1>2, <1>3, <1>4 DEF c2

(***************************************************************************)
(* The invariant.                                                          *)
(***************************************************************************)
\* Where the occupancy is exact: a node that serves does not call (its queue
\* pairs get requests only), the daemon does not see a call half written, and a
\* core that is given a request has room for its completion.
Deployment ==
    /\ \A c \in Clients : \A q \in Servers : c[1] # q[1]
    /\ ~RaceWindow
    /\ REQ_THRESHOLD < MAX_NUM_WQ

ServerOK(q) ==
    /\ WqMarks(wq[q], wq_pos[q], thread[q])
    /\ WqContents(wq[q], wq_pos[q], thread[q])
    /\ CqInv(cq[q], cq_pos[q])
    /\ ThreadInv(thread[q])
    /\ up[q[1]] => rpcs_per_core[q] = Occupancy(wq[q], wq_pos[q], cq[q], cq_pos[q], thread[q])

\* A client never names a queue pair at the receiver.
ClientsOK == \A c \in Clients : \A k \in Slots : ~wq[c].q[k].send_qp_terminate

\* A request names the client that sent it, a response or a NACK the client it
\* is for.
MessageOK(i, n, m) ==
    /\ m.type = "s" => IF m.term THEN <<n, m.qp>> \in Clients ELSE <<i, m.qp>> \in Clients
    /\ m.type = "n" => <<n, m.qp>> \in Clients

ChannelsOK(c) ==
    \A i, n \in Nodes : \A k \in 1 .. Len(c[i][n]) : MessageOK(i, n, c[i][n][k])

MessagesOK == ChannelsOK(net)

\* So does an entry of the SRQ of a node that serves.
RequestsOK(s) ==
    \A k \in SrqSlots : s.q[k].valid => <<s.q[k].sending_nid, s.q[k].sending_qp>> \in Clients

Inv ==
    /\ Shape
    /\ \A q \in Servers : ServerOK(q)
    /\ ClientsOK
    /\ MessagesOK
    /\ \A q \in Servers : RequestsOK(srq[q[1]])

\* Servers and clients are queue pairs, and different ones.
LEMMA Roles ==
    /\ Servers \subseteq QPs /\ Clients \subseteq QPs
    /\ \A q \in QPs : q \notin Servers <=> q \in Clients
BY RpcAssumption DEF QPs

\* The invariant counts what OccupancyExact counts.
LEMMA InvOccupancy == Inv => OccupancyExact
<1> SUFFICES ASSUME Inv, NEW q \in Servers, up[q[1]]
             PROVE  rpcs_per_core[q] =
                      Cardinality(Unread(q))
                      + (IF thread[q].pc \in {"recv", "recv_late"} THEN 1 ELSE 0)
                      + Cardinality({i \in Unserved(q) : wq[q].q[i].op = "g"})
  BY DEF OccupancyExact
<1>1. /\ Unread(q) = ToRead(cq[q], cq_pos[q])
      /\ {i \in Unserved(q) : wq[q].q[i].op = "g"} = ToRelease(wq[q], wq_pos[q])
  BY DEF Unread, Unserved, ToRead, ToServe, ToRelease
<1>2. QED
  BY <1>1 DEF Inv, ServerOK, Occupancy, Holds

\* The parts of an occupancy are numbers.
LEMMA OccupancyParts ==
    ASSUME NEW r, NEW p, NEW c, NEW d
    PROVE  /\ ToRead(c, d) \subseteq Slots /\ ToRelease(r, p) \subseteq Slots
           /\ Cardinality(ToRead(c, d)) \in Nat /\ Cardinality(ToRelease(r, p)) \in Nat
<1>1. ToRead(c, d) \subseteq Slots /\ ToRelease(r, p) \subseteq Slots
  BY DEF ToRead, ToRelease, ToServe, Stretch
<1>2. QED
  BY <1>1, SlotCounts

\* The state the daemons start in.
LEMMA InitInv == Init => Inv
<1> SUFFICES ASSUME Init PROVE Inv
  OBVIOUS
<1>1. ASSUME NEW q \in Servers PROVE ServerOK(q)
  <2>1. /\ wq[q] = [q |-> [i \in Slots |-> ZeroWqEntry], head |-> 0, SR |-> 1]
        /\ wq_pos[q] = [tail |-> 0, SR |-> 1]
        /\ cq[q] = [q |-> [i \in Slots |-> ZeroCqEntry], tail |-> 0, SR |-> 1]
        /\ cq_pos[q] = [head |-> 0, SR |-> 1]
        /\ rpcs_per_core[q] = 0
    BY Roles DEF Init
  <2>2. thread[q].pc \in {"poll", "reg_wq"}
    BY Roles DEF Init, Ready, Thread
  <2>3. ToServe(wq[q], wq_pos[q]) = {} /\ ToRead(cq[q], cq_pos[q]) = {}
    BY <2>1 DEF ToServe, ToRead, Stretch, Slots
  <2>4. \A k \in Slots : k \in Nat /\ Mark(k, 0, 1) = 0
    BY DEF Slots, Mark
  <2>5. InOrder(0, 1, 0, 1)
    BY DEF InOrder
  <2>6. WqMarks(wq[q], wq_pos[q], thread[q])
    <3>1. \A k \in Slots : wq[q].q[k].SR = 0 /\ wq[q].q[k].valid = 0
      BY <2>1 DEF ZeroWqEntry
    <3>2. /\ wq[q].head = 0 /\ wq[q].SR = 1 /\ wq_pos[q].tail = 0 /\ wq_pos[q].SR = 1
          /\ ~Late(thread[q])
      BY <2>1, <2>2 DEF Late
    <3>3. QED
      BY <2>3, <2>4, <2>5, <3>1, <3>2 DEF WqMarks
  <2>7. WqContents(wq[q], wq_pos[q], thread[q]) /\ ThreadInv(thread[q])
    BY <2>2, <2>3 DEF WqContents, ThreadInv
  <2>8. CqInv(cq[q], cq_pos[q])
    <3>1. \A k \in Slots : cq[q].q[k].SR = 0
      BY <2>1 DEF ZeroCqEntry
    <3>2. cq[q].tail = 0 /\ cq[q].SR = 1 /\ cq_pos[q].head = 0 /\ cq_pos[q].SR = 1
      BY <2>1
    <3>3. QED
      BY <2>3, <2>4, <2>5, <3>1, <3>2 DEF CqInv
  <2>9. Occupancy(wq[q], wq_pos[q], cq[q], cq_pos[q], thread[q]) = 0
    <3>1. ToRelease(wq[q], wq_pos[q]) = {} /\ ~Holds(thread[q])
      BY <2>2, <2>3 DEF ToRelease, Holds
    <3>2. Cardinality({}) = 0
      BY FS_EmptySet
    <3>3. QED
      BY <2>3, <3>1, <3>2 DEF Occupancy
  <2>10. QED
    BY <2>1, <2>6, <2>7, <2>8, <2>9 DEF ServerOK
<1>2. ClientsOK
  BY Roles DEF Init, ClientsOK, ZeroWqEntry
<1>3. MessagesOK
  <2>1. \A i, n \in Nodes : Len(net[i][n]) = 0
    BY DEF Init
  <2>2. QED
    BY <2>1 DEF MessagesOK, ChannelsOK
<1>4. \A q \in Servers : RequestsOK(srq[q[1]])
  BY QPType, Roles DEF Init, RequestsOK, srq_init, ZeroSrqEntry
<1>5. QED
  BY <1>1, <1>2, <1>3, <1>4, InitShape DEF Inv

\* A server nothing happens to.
LEMMA ServerAlone ==
    ASSUME NEW q \in Servers, ServerOK(q),
           wq'[q] = wq[q], wq_pos'[q] = wq_pos[q], cq'[q] = cq[q], cq_pos'[q] = cq_pos[q],
           thread'[q] = thread[q], rpcs_per_core'[q] = rpcs_per_core[q],
           up'[q[1]] => up[q[1]]
    PROVE  ServerOK(q)'
BY DEF ServerOK

\* A step that only a server's own thread and WQ take part in.
LEMMA ServerCalls ==
    ASSUME NEW q \in Servers, ServerOK(q),
           wq_pos'[q] = wq_pos[q], cq'[q] = cq[q], cq_pos'[q] = cq_pos[q],
           rpcs_per_core'[q] = rpcs_per_core[q], up'[q[1]] <=> up[q[1]],
           WqMarks(wq'[q], wq_pos[q], thread'[q]), WqContents(wq'[q], wq_pos[q], thread'[q]),
           ThreadInv(thread'[q]),
           Cardinality(ToRelease(wq'[q], wq_pos[q])) + (IF Holds(thread'[q]) THEN 1 ELSE 0)
             = Cardinality(ToRelease(wq[q], wq_pos[q])) + (IF Holds(thread[q]) THEN 1 ELSE 0)
    PROVE  ServerOK(q)'
<1> DEFINE a == Cardinality(ToRead(cq[q], cq_pos[q]))
           b == Cardinality(ToRelease(wq[q], wq_pos[q]))
           b2 == Cardinality(ToRelease(wq'[q], wq_pos[q]))
<1>1. a \in Nat /\ b \in Nat /\ b2 \in Nat
  BY OccupancyParts
<1> HIDE DEF a, b, b2
<1>2. a + (IF Holds(thread'[q]) THEN 1 ELSE 0) + b2 = a + (IF Holds(thread[q]) THEN 1 ELSE 0) + b
  BY <1>1 DEF b, b2
<1>3. Occupancy(wq'[q], wq_pos[q], cq[q], cq_pos[q], thread'[q])
        = Occupancy(wq[q], wq_pos[q], cq[q], cq_pos[q], thread[q])
  BY <1>2 DEF Occupancy, a, b, b2
<1>4. QED
  BY <1>3 DEF ServerOK

(***************************************************************************)
(* The threads' steps.                                                     *)
(***************************************************************************)

\* A call of one thread: the other servers, the messages and the SRQs are left
\* alone; what is left to show is about the thread's own queue pair.
LEMMA CallKeeps ==
    ASSUME Inv, Shape', NEW q \in QPs, UNCHANGED <<cq, daemonVars>>,
           \A p \in QPs \ {q} : wq'[p] = wq[p] /\ thread'[p] = thread[p],
           q \in Servers => ServerOK(q)',
           q \in Clients => \A k \in Slots : ~wq'[q].q[k].send_qp_terminate
    PROVE  Inv'
<1>1. ASSUME NEW p \in Servers PROVE ServerOK(p)'
  <2>1. CASE p = q
    BY <2>1
  <2>2. CASE p # q
    BY <2>2, ServerAlone, Roles DEF Inv, daemonVars
  <2>3. QED
    BY <2>1, <2>2
<1>2. ClientsOK'
  BY Roles DEF Inv, ClientsOK
<1>3. MessagesOK'
  BY DEF Inv, MessagesOK, daemonVars
<1>4. \A p \in Servers : RequestsOK(srq[p[1]])'
  BY DEF Inv, RequestsOK, daemonVars
<1>5. QED
  BY <1>1, <1>2, <1>3, <1>4 DEF Inv

\* A thread registers its queues: nothing else changes.
LEMMA RegisterInv ==
    ASSUME Inv, NEW q \in QPs, kal_reg_wq(q) \/ kal_reg_cq(q)
    PROVE  Inv'
<1>1. Shape /\ Shape'
  BY RegisterShape DEF Inv
<1>2. UNCHANGED <<wq, cq, daemonVars>> /\ thread[q].pc \in {"reg_wq", "reg_cq"}
  BY DEF kal_reg_wq, kal_reg_cq
<1>3. /\ \A p \in QPs \ {q} : thread'[p] = thread[p]
      /\ thread'[q].pc \in {"reg_cq", "idle", "poll"}
  <2>1. thread[q] \in ThreadType
    BY <1>1, QPShape
  <2>2. QED
    BY <1>1, <2>1 DEF kal_reg_wq, kal_reg_cq, Ready, Goto, Shape, ThreadType
<1>4. ASSUME q \in Servers PROVE ServerOK(q)'
  <2>1. ServerOK(q)
    BY <1>4 DEF Inv
  <2>2. ~Late(thread[q]) /\ ~Late(thread'[q]) /\ ~Holds(thread[q]) /\ ~Holds(thread'[q])
    BY <1>2, <1>3 DEF Late, Holds
  <2>3. ThreadInv(thread'[q]) /\ WqMarks(wq'[q], wq_pos[q], thread'[q])
        /\ WqContents(wq'[q], wq_pos[q], thread'[q])
    BY <1>2, <1>3, <2>1, <2>2 DEF ServerOK, ThreadInv, WqMarks, WqContents, Late
  <2>4. QED
    BY <1>2, <1>4, <2>1, <2>2, <2>3, ServerCalls DEF daemonVars
<1>5. q \in Clients => \A k \in Slots : ~wq'[q].q[k].send_qp_terminate
  BY <1>2 DEF Inv, ClientsOK
<1>6. QED
  BY <1>1, <1>2, <1>3, <1>4, <1>5, CallKeeps

\* Writing an entry up to SR.
LEMMA PublishInv ==
    ASSUME Inv, NEW q \in QPs,
           \/ q \in Clients /\ rmc_send_request(q)
           \/ rmc_send_response(q)
           \/ rmc_recv(q)
    PROVE  Inv'
<1>1. Shape /\ Shape'
  BY SendsShape DEF Inv
<1>2. /\ WqSlot(q) \in WqEntries /\ thread[q] \in ThreadType /\ wq[q] \in WqType
      /\ wq_pos[q] \in WqPosType /\ wq[q].head \in Slots /\ wq[q].q \in [Slots -> WqEntries]
      /\ WqSlot(q) = wq[q].q[wq[q].head]
  BY <1>1, QPShape DEF WqSlot
<1>3. \A x, y : /\ [WqSlot(q) EXCEPT !.op = "s", !.nid = x, !.buf = y].send_qp_terminate
                     = WqSlot(q).send_qp_terminate
                /\ [WqSlot(q) EXCEPT !.op = "s", !.nid = x, !.buf = y].op = "s"
                /\ [WqSlot(q) EXCEPT !.op = "s", !.nid = x, !.buf = y].nid = x
                /\ [WqSlot(q) EXCEPT !.op = "g", !.nid = x].send_qp_terminate
                     = WqSlot(q).send_qp_terminate
                /\ [WqSlot(q) EXCEPT !.op = "g", !.nid = x].op = "g"
  BY <1>2 DEF WqEntries
<1>4. PICK e \in WqEntries :
         /\ Publish(q, e)
         /\ e.send_qp_terminate = WqSlot(q).send_qp_terminate
         /\ rmc_send_response(q) => e.op = "s" /\ e.nid = thread[q].nid
         /\ rmc_recv(q) => e.op = "g"
  <2>1. CASE q \in Clients /\ rmc_send_request(q)
    <3>1. ~rmc_send_response(q) /\ ~rmc_recv(q)
      BY <2>1 DEF rmc_send_request, rmc_send_response, rmc_recv
    <3>2. ServerNode[q] \in Nodes /\ Request(q, thread[q].id) \in Payloads
      BY <1>2, <2>1, RpcAssumption, PayloadTypes DEF ThreadType
    <3> DEFINE g == [WqSlot(q) EXCEPT !.op = "s", !.nid = ServerNode[q], !.buf = Request(q, thread[q].id)]
    <3>3. g \in WqEntries
      BY <1>2, <3>2 DEF WqEntries
    <3>4. Publish(q, g)
      BY <2>1 DEF rmc_send_request
    <3>5. g.send_qp_terminate = WqSlot(q).send_qp_terminate
      BY <1>3
    <3> HIDE DEF g
    <3>6. QED
      BY <2>1, <3>1, <3>3, <3>4, <3>5
  <2>2. CASE rmc_send_response(q)
    <3>1. ~rmc_recv(q)
      BY <2>2 DEF rmc_send_response, rmc_recv
    <3>2. Response(thread[q].arg) \in Payloads /\ thread[q].nid \in Nodes
      BY <1>2, PayloadTypes DEF ThreadType
    <3> DEFINE g == [WqSlot(q) EXCEPT !.op = "s", !.nid = thread[q].nid, !.buf = Response(thread[q].arg)]
    <3>3. g \in WqEntries
      BY <1>2, <3>2 DEF WqEntries
    <3>4. Publish(q, g)
      BY <2>2 DEF rmc_send_response
    <3>5. g.send_qp_terminate = WqSlot(q).send_qp_terminate /\ g.op = "s" /\ g.nid = thread[q].nid
      BY <1>3
    <3> HIDE DEF g
    <3>6. QED
      BY <2>2, <3>1, <3>3, <3>4, <3>5
  <2>3. CASE rmc_recv(q)
    <3>1. ~rmc_send_response(q)
      BY <2>3 DEF rmc_send_response, rmc_recv
    <3> DEFINE g == [WqSlot(q) EXCEPT !.op = "g", !.nid = thread[q].nid]
    <3>2. g \in WqEntries
      BY <1>2 DEF WqEntries, ThreadType
    <3>3. Publish(q, g)
      BY <2>3 DEF rmc_recv
    <3>4. g.send_qp_terminate = WqSlot(q).send_qp_terminate /\ g.op = "g"
      BY <1>3
    <3> HIDE DEF g
    <3>5. QED
      BY <2>3, <3>1, <3>2, <3>3, <3>4
  <2>4. QED
    BY <2>1, <2>2, <2>3
<1> DEFINE f == [e EXCEPT !.valid = 1, !.SR = wq[q].SR]
<1>5. /\ \A p \in QPs \ {q} : wq'[p] = wq[p]
      /\ wq'[q] = [q |-> [wq[q].q EXCEPT ![wq[q].head] = f], head |-> wq[q].head, SR |-> wq[q].SR]
  BY <1>1, <1>4, PublishType
<1>6. UNCHANGED <<cq, daemonVars>>
  BY DEF rmc_send_request, rmc_send_response, rmc_recv
<1>7. Goto(q, "send_late") \/ Goto(q, "recv_late")
  BY DEF rmc_send_request, rmc_send_response, rmc_recv
<1>8. \A p \in QPs \ {q} : thread'[p] = thread[p]
  BY <1>1, <1>7 DEF Goto, Shape
<1>9. ASSUME q \in Clients PROVE \A k \in Slots : ~wq'[q].q[k].send_qp_terminate
  <2>1. f.send_qp_terminate = e.send_qp_terminate
    BY DEF WqEntries
  <2>2. ~f.send_qp_terminate
    BY <1>2, <1>4, <1>9, <2>1 DEF Inv, ClientsOK
  <2>3. ASSUME NEW k \in Slots PROVE wq'[q].q[k] = IF k = wq[q].head THEN f ELSE wq[q].q[k]
    <3> HIDE DEF f
    <3> QED BY <1>2, <1>5
  <2> HIDE DEF f
  <2>4. QED
    BY <1>9, <2>2, <2>3 DEF Inv, ClientsOK
<1>10. ASSUME q \in Servers PROVE ServerOK(q)'
  <2>1. ServerOK(q) /\ (rmc_send_response(q) \/ rmc_recv(q))
    BY <1>10, Roles DEF Inv
  <2>2. /\ thread[q].pc \in {"send", "recv"} /\ wq[q].q[wq[q].head].valid = 0
        /\ rmc_send_response(q) => thread[q].pc = "send" /\ Goto(q, "send_late")
        /\ rmc_recv(q) => thread[q].pc = "recv" /\ Goto(q, "recv_late")
    BY <2>1 DEF rmc_send_response, rmc_recv, HeadFree, WqSlot
  <2>3. /\ thread'[q].nid = thread[q].nid /\ thread'[q].qp = thread[q].qp
        /\ thread'[q] \in ThreadType
        /\ rmc_send_response(q) => thread'[q].pc = "send_late"
        /\ rmc_recv(q) => thread'[q].pc = "recv_late"
    BY <1>1, <1>2, <1>7, <2>2 DEF Goto, Shape, ThreadType
  <2>4. ~Late(thread[q]) /\ Late(thread'[q]) /\ (Holds(thread[q]) <=> Holds(thread'[q]))
    BY <2>1, <2>2, <2>3 DEF Late, Holds
  <2>5. ThreadInv(thread'[q])
    BY <2>1, <2>2, <2>3 DEF ServerOK, ThreadInv
  <2>6. /\ thread'[q].pc = "send_late" => e.op = "s" /\ e.nid = thread'[q].nid
        /\ thread'[q].pc = "recv_late" => e.op = "g"
    BY <1>4, <2>1, <2>3
  <2>7. /\ WqMarks(wq'[q], wq_pos[q], thread'[q]) /\ WqContents(wq'[q], wq_pos[q], thread'[q])
        /\ ToRelease(wq'[q], wq_pos[q]) = ToRelease(wq[q], wq_pos[q])
    <3>1. PICK r, r2, th2 : r = wq[q] /\ r2 = wq'[q] /\ th2 = thread'[q]
      OBVIOUS
    <3>2. /\ WqMarks(r, wq_pos[q], thread[q]) /\ WqContents(r, wq_pos[q], thread[q])
          /\ r \in WqType /\ wq_pos[q] \in WqPosType /\ thread[q] \in ThreadType
          /\ r.q[r.head].valid = 0
      BY <1>2, <2>1, <2>2, <3>1 DEF ServerOK
    <3>3. /\ th2 \in ThreadType /\ ~Late(thread[q]) /\ Late(th2)
          /\ th2.pc = "send_late" => e.op = "s" /\ e.nid = th2.nid
          /\ th2.pc = "recv_late" => e.op = "g"
      BY <2>3, <2>4, <2>6, <3>1
    <3>4. r2 = [q |-> [r.q EXCEPT ![r.head] = [e EXCEPT !.valid = 1, !.SR = r.SR]],
                head |-> r.head, SR |-> r.SR]
      BY <1>5, <3>1
    <3>5. /\ WqMarks(r2, wq_pos[q], th2) /\ WqContents(r2, wq_pos[q], th2)
          /\ ToRelease(r2, wq_pos[q]) = ToRelease(r, wq_pos[q])
      BY <3>2, <3>3, <3>4, PublishKeeps
    <3>6. QED
      BY <3>1, <3>5
  <2>8. QED
    BY <1>6, <1>10, <2>1, <2>4, <2>5, <2>7, ServerCalls DEF daemonVars
<1>11. QED
  BY <1>1, <1>5, <1>6, <1>8, <1>9, <1>10, CallKeeps

\* The late stores.
LEMMA LateInv ==
    ASSUME Inv, NEW q \in QPs, rmc_send_late(q) \/ rmc_recv_late(q)
    PROVE  Inv'
<1>1. Shape /\ Shape'
  BY LateShape DEF Inv
<1>2. /\ WqSlot(q) \in WqEntries /\ thread[q] \in ThreadType /\ wq[q] \in WqType
      /\ wq_pos[q] \in WqPosType /\ wq[q].head \in Slots /\ wq[q].q \in [Slots -> WqEntries]
      /\ WqSlot(q) = wq[q].q[wq[q].head]
  BY <1>1, QPShape DEF WqSlot
<1> DEFINE e1 == [WqSlot(q) EXCEPT
                     !.qp_num_at_receiver = IF q \in Servers THEN thread[q].qp ELSE q[2],
                     !.send_qp_terminate = (q \in Servers)]
           e2 == [WqSlot(q) EXCEPT !.slot_idx = thread[q].slot, !.dispatch_on_recv = (q \in Servers)]
<1>3. /\ e1.SR = WqSlot(q).SR /\ e1.valid = WqSlot(q).valid /\ e1.op = WqSlot(q).op
      /\ e1.nid = WqSlot(q).nid /\ (q \in Servers => e1.qp_num_at_receiver = thread[q].qp)
      /\ (e1.send_qp_terminate <=> q \in Servers)
  BY <1>2 DEF WqEntries
<1>4. /\ e2.SR = WqSlot(q).SR /\ e2.valid = WqSlot(q).valid /\ e2.op = WqSlot(q).op
      /\ e2.send_qp_terminate = WqSlot(q).send_qp_terminate
      /\ (e2.dispatch_on_recv <=> q \in Servers)
  BY <1>2 DEF WqEntries
<1>5. e1 \in WqEntries /\ e2 \in WqEntries
  <2>1. (IF q \in Servers THEN thread[q].qp ELSE q[2]) \in Int /\ (q \in Servers) \in BOOLEAN
    BY <1>2, QPType DEF ThreadType
  <2>2. thread[q].slot \in SrqSlots
    BY <1>2 DEF ThreadType
  <2>3. QED
    BY <1>2, <2>1, <2>2 DEF WqEntries
<1> HIDE DEF e1, e2
<1>6. \/ rmc_send_late(q) /\ Finish(q, e1)
      \/ rmc_recv_late(q) /\ Finish(q, e2)
  BY DEF rmc_send_late, rmc_recv_late, e1, e2
<1>7. /\ rmc_send_late(q) => thread[q].pc = "send_late"
      /\ rmc_recv_late(q) => thread[q].pc = "recv_late"
      /\ UNCHANGED <<cq, daemonVars>>
  BY DEF rmc_send_late, rmc_recv_late
<1>8. PICK e \in WqEntries :
         /\ Finish(q, e)
         /\ e.SR = WqSlot(q).SR /\ e.valid = WqSlot(q).valid /\ e.op = WqSlot(q).op
         /\ ~WqSlot(q).send_qp_terminate /\ q \notin Servers => ~e.send_qp_terminate
         /\ rmc_send_late(q) => e = e1
         /\ rmc_recv_late(q) => e = e2
  BY <1>3, <1>4, <1>5, <1>6, <1>7
<1>9. /\ \A p \in QPs \ {q} : wq'[p] = wq[p]
      /\ wq'[q] = [q |-> [wq[q].q EXCEPT ![wq[q].head] = e],
                   head |-> Advance(wq[q].head), SR |-> Phase(wq[q].head, wq[q].SR)]
  BY <1>1, <1>8, FinishType
<1>10. \A p \in QPs \ {q} : thread'[p] = thread[p]
  BY <1>1 DEF rmc_send_late, rmc_recv_late, Shape
<1>11. ASSUME q \in Clients PROVE \A k \in Slots : ~wq'[q].q[k].send_qp_terminate
  <2>1. ~e.send_qp_terminate
    BY <1>2, <1>8, <1>11, Roles DEF Inv, ClientsOK
  <2>2. QED
    BY <1>2, <1>9, <1>11, <2>1 DEF Inv, ClientsOK
<1>12. ASSUME q \in Servers PROVE ServerOK(q)'
  <2>1. ServerOK(q) /\ Late(thread[q])
    BY <1>6, <1>7, <1>12 DEF Inv, Late
  <2>2. /\ rmc_send_late(q) => thread'[q].pc = "poll"
        /\ rmc_recv_late(q) =>
             thread'[q].pc = "send" /\ thread'[q].nid = thread[q].nid /\ thread'[q].qp = thread[q].qp
        /\ thread'[q] \in ThreadType
    BY <1>1, <1>2, <1>12 DEF rmc_send_late, rmc_recv_late, Shape, Thread, ThreadType
  <2>3. ThreadInv(thread'[q]) /\ ~Late(thread'[q])
    BY <1>6, <1>7, <2>1, <2>2 DEF ServerOK, ThreadInv, Late
  <2>4. <<thread[q].nid, thread[q].qp>> \in Clients
    BY <2>1 DEF ServerOK, ThreadInv, Late
  <2>5. /\ rmc_send_late(q) => WqSlot(q).op = "s" /\ WqSlot(q).nid = thread[q].nid
        /\ rmc_recv_late(q) => WqSlot(q).op = "g"
    BY <1>2, <1>7, <2>1 DEF ServerOK, WqContents
  <2>6. /\ e.op = "s" => e.send_qp_terminate /\ <<e.nid, e.qp_num_at_receiver>> \in Clients
        /\ e.op = "g" => e.dispatch_on_recv
    BY <1>3, <1>4, <1>6, <1>8, <1>12, <2>4, <2>5
  <2>7. /\ WqMarks(wq'[q], wq_pos[q], thread'[q]) /\ WqContents(wq'[q], wq_pos[q], thread'[q])
        /\ ToRelease(wq'[q], wq_pos[q])
             = ToRelease(wq[q], wq_pos[q]) \union (IF e.op = "g" THEN {wq[q].head} ELSE {})
        /\ wq[q].head \notin ToRelease(wq[q], wq_pos[q])
    <3>1. e.SR = wq[q].q[wq[q].head].SR /\ e.valid = wq[q].q[wq[q].head].valid
      BY <1>2, <1>8
    <3>2. WqMarks(wq[q], wq_pos[q], thread[q]) /\ WqContents(wq[q], wq_pos[q], thread[q])
      BY <2>1 DEF ServerOK
    <3>3. e \in WqEntries
      OBVIOUS
    <3> DEFINE r == wq[q]
               p == wq_pos[q]
               th == thread[q]
               th2 == thread'[q]
               r2 == wq'[q]
    <3>4. /\ r \in WqType /\ p \in WqPosType /\ th \in ThreadType /\ th2 \in ThreadType
          /\ WqMarks(r, p, th) /\ WqContents(r, p, th) /\ Late(th) /\ ~Late(th2)
          /\ e.SR = r.q[r.head].SR /\ e.valid = r.q[r.head].valid
          /\ r2 = [q |-> [r.q EXCEPT ![r.head] = e],
                   head |-> Advance(r.head), SR |-> Phase(r.head, r.SR)]
      BY <1>2, <1>9, <2>1, <2>2, <2>3, <3>1, <3>2
    <3> HIDE DEF r, p, th, th2, r2
    <3>5. /\ WqMarks(r2, p, th2) /\ WqContents(r2, p, th2)
          /\ ToRelease(r2, p) = ToRelease(r, p) \union (IF e.op = "g" THEN {r.head} ELSE {})
          /\ r.head \notin ToRelease(r, p)
      BY <2>6, <3>3, <3>4, FinishKeeps
    <3>6. QED
      BY <3>5 DEF r, p, th, th2, r2
  <2>8. Cardinality(ToRelease(wq'[q], wq_pos[q])) + (IF Holds(thread'[q]) THEN 1 ELSE 0)
          = Cardinality(ToRelease(wq[q], wq_pos[q])) + (IF Holds(thread[q]) THEN 1 ELSE 0)
    <3> DEFINE R == ToRelease(wq[q], wq_pos[q])
    <3>1. R \subseteq Slots /\ Cardinality(R) \in Nat
      BY OccupancyParts
    <3> HIDE DEF R
    <3>2. CASE rmc_send_late(q)
      <4>1. ~Holds(thread[q]) /\ ~Holds(thread'[q]) /\ e.op = "s"
        BY <1>7, <1>8, <2>2, <2>5, <3>2 DEF Holds
      <4>2. ToRelease(wq'[q], wq_pos[q]) = R
        BY <2>7, <4>1 DEF R
      <4>3. QED
        BY <4>1, <4>2 DEF R
    <3>3. CASE rmc_recv_late(q)
      <4>1. Holds(thread[q]) /\ ~Holds(thread'[q]) /\ e.op = "g"
        BY <1>7, <1>8, <2>2, <2>5, <3>3 DEF Holds
      <4>2. ToRelease(wq'[q], wq_pos[q]) = R \union {wq[q].head}
        BY <2>7, <4>1 DEF R
      <4>3. Cardinality(R \union {wq[q].head}) = Cardinality(R) + 1
        BY <1>2, <2>7, <3>1, SlotCounts DEF R
      <4>4. QED
        BY <3>1, <4>1, <4>2, <4>3 DEF R
    <3>4. QED
      BY <3>2, <3>3
  <2>9. QED
    BY <1>7, <1>12, <2>1, <2>3, <2>7, <2>8, ServerCalls DEF daemonVars
<1>13. QED
  BY <1>1, <1>7, <1>9, <1>10, <1>11, <1>12, CallKeeps

\* Polling a completion.
LEMMA PollInv ==
    ASSUME Inv, NEW q \in QPs, rmc_poll_cq_rpc(q)
    PROVE  Inv'
<1>1. Shape
  BY DEF Inv
<1>2. /\ UNCHANGED <<wq, daemonVars>> /\ thread[q].pc = "poll"
      /\ cq[q].q[cq[q].tail].SR = cq[q].SR
  BY DEF rmc_poll_cq_rpc, CompletionVisible
<1>3. Shape'
  BY <1>1, <1>2, PollEffect, CallShape DEF Shape
<1>4. ASSUME NEW p \in Servers PROVE ServerOK(p)'
  <2>1. CASE p # q
    BY <1>1, <1>2, <2>1, PollEffect, ServerAlone, Roles DEF Inv, daemonVars
  <2>2. CASE p = q
    <3> DEFINE c == cq[q]
               d == cq_pos[q]
               c2 == cq'[q]
               e == cq[q].q[cq[q].tail]
    <3>1. ServerOK(q) /\ q \notin Clients /\ q \in Servers
      BY <2>2, Roles DEF Inv
    <3>2. c \in CqType /\ d \in CqPosType /\ thread[q] \in ThreadType
      BY <1>1, QPShape
    <3>3. c2 = [q |-> c.q, tail |-> Advance(c.tail), SR |-> Phase(c.tail, c.SR)]
      BY <1>1, PollEffect
    <3>4. /\ thread'[q].pc = "recv" /\ thread'[q].nid = e.sending_nid /\ thread'[q].qp = e.sending_qp
      BY <1>1, <3>1, <3>2, PollEffect DEF ThreadType
    <3>5. c.tail \in ToRead(c, d) /\ CqInv(c2, d) /\ ToRead(c2, d) = ToRead(c, d) \ {c.tail}
      BY <1>2, <3>1, <3>2, <3>3, PollKeeps DEF ServerOK
    <3>6. <<e.sending_nid, e.sending_qp>> \in Clients
      BY <3>1, <3>5 DEF ServerOK, CqInv
    <3>7. ThreadInv(thread'[q]) /\ ~Late(thread[q]) /\ ~Late(thread'[q])
          /\ ~Holds(thread[q]) /\ Holds(thread'[q])
      BY <1>2, <3>4, <3>6 DEF ThreadInv, Late, Holds
    <3>8. WqMarks(wq[q], wq_pos[q], thread'[q]) /\ WqContents(wq[q], wq_pos[q], thread'[q])
      BY <3>1, <3>7 DEF ServerOK, WqMarks, WqContents, Late
    <3>9. Occupancy(wq[q], wq_pos[q], c2, d, thread'[q]) = Occupancy(wq[q], wq_pos[q], c, d, thread[q])
      <4> DEFINE a == Cardinality(ToRead(c, d))
                 b == Cardinality(ToRelease(wq[q], wq_pos[q]))
      <4>1. a \in Nat /\ b \in Nat
        BY OccupancyParts
      <4>2. Cardinality(ToRead(c2, d)) = a - 1
        BY <3>5, OccupancyParts, SlotCounts
      <4> HIDE DEF a, b, c, d, c2
      <4>3. QED
        BY <3>7, <4>1, <4>2 DEF Occupancy, a, b
    <3>10. wq'[q] = wq[q] /\ wq_pos'[q] = wq_pos[q] /\ cq_pos'[q] = cq_pos[q]
           /\ rpcs_per_core'[q] = rpcs_per_core[q] /\ (up'[q[1]] <=> up[q[1]])
      BY <1>2 DEF daemonVars
    <3>11. QED
      BY <2>2, <3>1, <3>5, <3>7, <3>8, <3>9, <3>10 DEF ServerOK
  <2>3. QED
    BY <2>1, <2>2
<1>5. ClientsOK' /\ MessagesOK' /\ \A p \in Servers : RequestsOK(srq[p[1]])'
  BY <1>2 DEF Inv, ClientsOK, MessagesOK, RequestsOK, daemonVars
<1>6. QED
  BY <1>3, <1>4, <1>5 DEF Inv

(***************************************************************************)
(* The daemons' steps.                                                     *)
(***************************************************************************)

\* Sending and taking messages.
LEMMA ChannelSteps ==
    ASSUME NEW i \in Nodes, NEW n \in Nodes, NEW c \in NetType, ChannelsOK(c)
    PROVE  /\ \A m \in MessageType : MessageOK(i, n, m) => ChannelsOK(SendTo(c, i, n, m))
           /\ c[i][n] # << >> => /\ MessageOK(i, n, Head(c[i][n]))
                                 /\ ChannelsOK([c EXCEPT ![i][n] = Tail(@)])
<1>1. \A j, k \in Nodes : c[j][k] \in Seq(MessageType)
  BY DEF NetType
<1>2. ASSUME NEW m \in MessageType, MessageOK(i, n, m) PROVE ChannelsOK(SendTo(c, i, n, m))
  <2>1. CASE ~up[n]
    BY <2>1 DEF SendTo
  <2>2. CASE up[n]
    <3> DEFINE c2 == [c EXCEPT ![i][n] = Append(@, m)]
    <3>1. c2[i][n] = Append(c[i][n], m) /\ \A j, k \in Nodes : <<j, k>> # <<i, n>> => c2[j][k] = c[j][k]
      BY DEF NetType
    <3> HIDE DEF c2
    <3>2. ASSUME NEW k \in 1 .. Len(c2[i][n]) PROVE MessageOK(i, n, c2[i][n][k])
      <4>1. /\ Len(c2[i][n]) = Len(c[i][n]) + 1
            /\ c2[i][n][k] = IF k <= Len(c[i][n]) THEN c[i][n][k] ELSE m
        BY <1>1, <3>1
      <4>2. Len(c[i][n]) \in Nat
        BY <1>1
      <4>3. QED
        BY <1>2, <4>1, <4>2 DEF ChannelsOK
    <3>3. ChannelsOK(c2)
      <4>1. ASSUME NEW j \in Nodes, NEW h \in Nodes, NEW k \in 1 .. Len(c2[j][h])
            PROVE  MessageOK(j, h, c2[j][h][k])
        <5>1. CASE j = i /\ h = n
          BY <3>2, <5>1
        <5>2. CASE ~(j = i /\ h = n)
          BY <3>1, <5>2 DEF ChannelsOK
        <5>3. QED
          BY <5>1, <5>2
      <4>2. QED
        BY <4>1 DEF ChannelsOK
    <3>4. QED
      BY <2>2, <3>3 DEF SendTo, c2
  <2>3. QED
    BY <2>1, <2>2
<1>3. ASSUME c[i][n] # << >>
      PROVE  MessageOK(i, n, Head(c[i][n])) /\ ChannelsOK([c EXCEPT ![i][n] = Tail(@)])
  <2> DEFINE c2 == [c EXCEPT ![i][n] = Tail(@)]
  <2>1. c2[i][n] = Tail(c[i][n]) /\ \A j, k \in Nodes : <<j, k>> # <<i, n>> => c2[j][k] = c[j][k]
    BY DEF NetType
  <2> HIDE DEF c2
  <2>2. /\ Len(c[i][n]) \in Nat \ {0} /\ Head(c[i][n]) = c[i][n][1]
        /\ Len(Tail(c[i][n])) = Len(c[i][n]) - 1
        /\ \A k \in 1 .. Len(c[i][n]) - 1 : Tail(c[i][n])[k] = c[i][n][k + 1]
    BY <1>1, <1>3
  <2>3. MessageOK(i, n, Head(c[i][n]))
    BY <2>2 DEF ChannelsOK
  <2>4. ASSUME NEW k \in 1 .. Len(c2[i][n]) PROVE MessageOK(i, n, c2[i][n][k])
    <3>1. k \in 1 .. Len(c[i][n]) - 1 /\ k + 1 \in 1 .. Len(c[i][n])
      BY <2>1, <2>2
    <3>2. c2[i][n][k] = c[i][n][k + 1]
      BY <2>1, <2>2, <3>1
    <3>3. QED
      BY <3>1, <3>2 DEF ChannelsOK
  <2>5. ChannelsOK(c2)
    <3>1. ASSUME NEW j \in Nodes, NEW h \in Nodes, NEW k \in 1 .. Len(c2[j][h])
          PROVE  MessageOK(j, h, c2[j][h][k])
      <4>1. CASE j = i /\ h = n
        BY <2>4, <4>1
      <4>2. CASE ~(j = i /\ h = n)
        BY <2>1, <4>2 DEF ChannelsOK
      <4>3. QED
        BY <4>1, <4>2
    <3>2. QED
      BY <3>1 DEF ChannelsOK
  <2>6. QED
    BY <2>3, <2>5 DEF c2
<1>4. QED
  BY <1>2, <1>3

\* The SRQ of a node that serves holds requests of clients only.
LEMMA SrqKeeps ==
    ASSUME NEW s \in SrqType, RequestsOK(s)
    PROVE  /\ \A e \in SrqEntries :
                <<e.sending_nid, e.sending_qp>> \in Clients => RequestsOK(enqueue_in_srq(s, e))
           /\ RequestsOK(advance_dispatch_slot(s))
           /\ \A idx \in SrqSlots : RequestsOK(reset_srq_entry_invalid(s, idx))
<1>1. ASSUME NEW e \in SrqEntries, <<e.sending_nid, e.sending_qp>> \in Clients
      PROVE  RequestsOK(enqueue_in_srq(s, e))
  <2>1. \A k \in SrqSlots : enqueue_in_srq(s, e).q[k] = IF k = s.head THEN e ELSE s.q[k]
    BY DEF enqueue_in_srq, SrqType
  <2>2. QED
    BY <1>1, <2>1 DEF RequestsOK
<1>2. RequestsOK(advance_dispatch_slot(s))
  <2>1. advance_dispatch_slot(s).q = s.q
    BY DEF advance_dispatch_slot, SrqType
  <2>2. QED
    BY <2>1 DEF RequestsOK
<1>3. ASSUME NEW idx \in SrqSlots PROVE RequestsOK(reset_srq_entry_invalid(s, idx))
  <2> DEFINE r == [s EXCEPT !.q[idx].valid = FALSE]
  <2>1. r \in SrqType
    BY DEF SrqType, SrqEntries
  <2>2. \A k \in SrqSlots : /\ r.q[k].valid => s.q[k].valid
                            /\ r.q[k].sending_nid = s.q[k].sending_nid
                            /\ r.q[k].sending_qp = s.q[k].sending_qp
    BY DEF SrqType, SrqEntries
  <2> HIDE DEF r
  <2>3. advance_srq_tail_multiple(r).q = r.q
    BY <2>1 DEF advance_srq_tail_multiple, SrqType
  <2>4. QED
    BY <2>2, <2>3 DEF RequestsOK, reset_srq_entry_invalid, r
<1>4. QED
  BY <1>1, <1>2, <1>3

\* What the daemon finds in an entry that is ready.
LEMMA ReadyEntry ==
    ASSUME Inv, Deployment, NEW q \in QPs, EntryReady(q)
    PROVE  /\ Current(q) = wq[q].q[wq_pos[q].tail] /\ up[q[1]]
           /\ Current(q).SR = wq_pos[q].SR
           /\ ~(Late(thread[q]) /\ wq[q].head = wq_pos[q].tail)
           /\ q \in Clients => ~Current(q).send_qp_terminate
           /\ q \in Servers => wq_pos[q].tail \in ToServe(wq[q], wq_pos[q])
<1>1. /\ wq[q] \in WqType /\ wq_pos[q] \in WqPosType /\ thread[q] \in ThreadType
      /\ wq_pos[q].tail \in Slots
  BY QPShape DEF Inv
<1>2. /\ Current(q) = wq[q].q[wq_pos[q].tail] /\ up[q[1]]
      /\ Current(q).SR = wq_pos[q].SR
      /\ ~(Late(thread[q]) /\ wq[q].head = wq_pos[q].tail)
  BY DEF EntryReady, Current, InWindow, Late, Deployment
<1>3. q \in Clients => ~Current(q).send_qp_terminate
  BY <1>1, <1>2 DEF Inv, ClientsOK
<1>4. ASSUME q \in Servers PROVE wq_pos[q].tail \in ToServe(wq[q], wq_pos[q])
  BY <1>1, <1>2, <1>4, ServeKeeps DEF Inv, ServerOK
<1>5. QED
  BY <1>2, <1>3, <1>4

\* The daemon is done with an entry: the queue pair's rings, and what is left to
\* release.
LEMMA EntryDoneKeeps ==
    ASSUME Inv, Deployment, NEW q \in QPs, EntryReady(q), EntryDone(q), UNCHANGED thread
    PROVE  /\ ClientsOK'
           /\ q \in Servers =>
                /\ WqMarks(wq'[q], wq_pos'[q], thread[q]) /\ WqContents(wq'[q], wq_pos'[q], thread[q])
                /\ ToRelease(wq'[q], wq_pos'[q]) = ToRelease(wq[q], wq_pos[q]) \ {wq_pos[q].tail}
<1>1. Shape
  BY DEF Inv
<1> DEFINE f == [Current(q) EXCEPT !.valid = 0]
<1>2. /\ wq[q] \in WqType /\ wq_pos[q] \in WqPosType /\ thread[q] \in ThreadType
      /\ wq_pos[q].tail \in Slots /\ Current(q) \in WqEntries /\ wq[q].q \in [Slots -> WqEntries]
  BY <1>1, QPShape
<1>3. /\ \A p \in QPs \ {q} : wq'[p] = wq[p]
      /\ wq'[q] = [q |-> [wq[q].q EXCEPT ![wq_pos[q].tail] = f],
                   head |-> wq[q].head, SR |-> wq[q].SR]
      /\ wq_pos'[q] = [tail |-> Advance(wq_pos[q].tail), SR |-> Phase(wq_pos[q].tail, wq_pos[q].SR)]
  BY <1>1, EntryDoneType
<1>4. f.send_qp_terminate = Current(q).send_qp_terminate
  BY <1>2 DEF WqEntries
<1>5. ClientsOK'
  <2>1. ASSUME NEW c \in Clients, NEW k \in Slots PROVE ~wq'[c].q[k].send_qp_terminate
    <3>1. CASE c # q
      BY <1>3, <3>1, Roles DEF Inv, ClientsOK
    <3>2. CASE c = q
      <4>1. wq'[q].q[k] = IF k = wq_pos[q].tail THEN f ELSE wq[q].q[k]
        <5> HIDE DEF f
        <5> QED BY <1>2, <1>3
      <4>2. ~f.send_qp_terminate
        BY <1>4, <3>2, ReadyEntry
      <4> HIDE DEF f
      <4>3. QED
        BY <3>2, <4>1, <4>2 DEF Inv, ClientsOK
    <3>3. QED
      BY <3>1, <3>2
  <2>2. QED
    BY <2>1 DEF ClientsOK
<1>6. ASSUME q \in Servers
      PROVE  /\ WqMarks(wq'[q], wq_pos'[q], thread[q]) /\ WqContents(wq'[q], wq_pos'[q], thread[q])
             /\ ToRelease(wq'[q], wq_pos'[q]) = ToRelease(wq[q], wq_pos[q]) \ {wq_pos[q].tail}
  <2> DEFINE r == wq[q]
             p == wq_pos[q]
             th == thread[q]
             r2 == wq'[q]
             p2 == wq_pos'[q]
  <2>1. /\ r \in WqType /\ p \in WqPosType /\ th \in ThreadType
        /\ WqMarks(r, p, th) /\ WqContents(r, p, th)
        /\ r.q[p.tail].SR = p.SR /\ ~(Late(th) /\ r.head = p.tail)
        /\ r2 = [q |-> [r.q EXCEPT ![p.tail] = [r.q[p.tail] EXCEPT !.valid = 0]],
                 head |-> r.head, SR |-> r.SR]
        /\ p2 = [tail |-> Advance(p.tail), SR |-> Phase(p.tail, p.SR)]
    BY <1>2, <1>3, <1>6, ReadyEntry DEF Inv, ServerOK
  <2> HIDE DEF r, p, th, r2, p2
  <2>2. /\ WqMarks(r2, p2, th) /\ WqContents(r2, p2, th)
        /\ ToRelease(r2, p2) = ToRelease(r, p) \ {p.tail}
    BY <2>1, ServeKeeps
  <2>3. QED
    BY <2>2 DEF r, p, th, r2, p2
<1>7. QED
  BY <1>5, <1>6

\* case 's' of the loop.
LEMMA RmcSendInv ==
    ASSUME Inv, Deployment, NEW q \in QPs, RmcSend(q)
    PROVE  Inv'
<1>1. Shape /\ Shape'
  BY ServeShape DEF Inv
<1> DEFINE curr == Current(q)
           m == Message("s", curr.send_qp_terminate, QpStamp(q, curr), curr.buf)
<1>2. /\ EntryReady(q) /\ EntryDone(q) /\ curr.op = "s"
      /\ net' = SendTo(net, q[1], curr.nid, m)
      /\ UNCHANGED <<cq, cq_pos, srq, recv_slots, rpcs_per_core, up, thread, mishap>>
  BY DEF RmcSend
<1>3. /\ curr \in WqEntries /\ curr.nid \in Nodes /\ q[1] \in Nodes
      /\ curr.send_qp_terminate \in BOOLEAN /\ curr.buf \in Payloads
      /\ curr.qp_num_at_receiver \in Int /\ q[2] \in Int /\ q = <<q[1], q[2]>>
  BY <1>1, QPShape, QPType DEF WqEntries
<1>4. ASSUME NEW p \in Servers PROVE ServerOK(p)'
  <2>1. CASE p # q
    BY <1>1, <1>2, <2>1, EntryDoneType, ServerAlone, Roles DEF Inv
  <2>2. CASE p = q
    <3>1. q \in Servers /\ ServerOK(q)
      BY <2>2 DEF Inv
    <3>2. wq_pos[q].tail \notin ToRelease(wq[q], wq_pos[q])
      BY <1>2, ReadyEntry DEF ToRelease
    <3>3. ToRelease(wq'[q], wq_pos'[q]) = ToRelease(wq[q], wq_pos[q])
      BY <1>2, <3>1, <3>2, EntryDoneKeeps
    <3>4. WqMarks(wq'[q], wq_pos'[q], thread[q]) /\ WqContents(wq'[q], wq_pos'[q], thread[q])
      BY <1>2, <3>1, EntryDoneKeeps
    <3>5. QED
      BY <1>2, <2>2, <3>1, <3>3, <3>4 DEF ServerOK, Occupancy
  <2>3. QED
    BY <2>1, <2>2
<1>5. m.type = "s" /\ m.term = curr.send_qp_terminate /\ m.qp = QpStamp(q, curr) /\ m \in MessageType
  <2>1. QpStamp(q, curr) \in Int
    BY <1>3 DEF QpStamp
  <2>2. QED
    BY <1>3, <2>1 DEF Message, MessageType
<1>6. MessageOK(q[1], curr.nid, m)
  <2>1. CASE q \in Clients
    <3>1. ~curr.send_qp_terminate
      BY <1>2, <2>1, ReadyEntry
    <3>2. m.qp = q[2]
      BY <1>5, <3>1 DEF QpStamp
    <3>3. QED
      BY <1>3, <1>5, <2>1, <3>1, <3>2 DEF MessageOK
  <2>2. CASE q \in Servers
    <3>1. wq_pos[q].tail \in ToServe(wq[q], wq_pos[q]) /\ curr = wq[q].q[wq_pos[q].tail]
      BY <1>2, <2>2, ReadyEntry
    <3>2. curr.send_qp_terminate /\ <<curr.nid, curr.qp_num_at_receiver>> \in Clients
      <4>1. WqContents(wq[q], wq_pos[q], thread[q]) /\ curr.op = "s"
        BY <1>2, <2>2 DEF Inv, ServerOK
      <4> HIDE DEF curr
      <4>2. QED
        BY <3>1, <4>1 DEF WqContents
    <3>3. m.qp = curr.qp_num_at_receiver
      BY <1>5, <3>2 DEF QpStamp
    <3>4. QED
      BY <1>5, <3>2, <3>3 DEF MessageOK
  <2>3. QED
    BY <2>1, <2>2, Roles
<1>7. MessagesOK'
  <2> HIDE DEF m, curr
  <2>1. ChannelsOK(net')
    BY <1>1, <1>2, <1>3, <1>5, <1>6, ChannelSteps DEF Inv, MessagesOK, Shape
  <2>2. QED
    BY <2>1 DEF MessagesOK
<1>8. ClientsOK' /\ \A p \in Servers : RequestsOK(srq[p[1]])'
  BY <1>2, EntryDoneKeeps DEF Inv, RequestsOK
<1>9. QED
  BY <1>1, <1>4, <1>7, <1>8 DEF Inv

\* case 'g' of the loop: the core is relieved of one request.
LEMMA RmcRecvInv ==
    ASSUME Inv, Deployment, NEW q \in QPs, RmcRecv(q)
    PROVE  Inv'
<1>1. Shape /\ Shape'
  BY ServeShape DEF Inv
<1> DEFINE curr == Current(q)
           n == q[1]
           m == Message("g", FALSE, q[2], NoPayload)
<1>2. /\ EntryReady(q) /\ curr.op = "g"
      /\ net' = SendTo(net, n, curr.nid, m)
      /\ decrement_core_occupancy(q, curr.dispatch_on_recv)
      /\ UNCHANGED <<cq, cq_pos, recv_slots, thread>>
  BY DEF RmcRecv
<1>3. \/ /\ srq' = [srq EXCEPT ![n] = reset_srq_entry_invalid(srq[n], curr.slot_idx)]
         /\ EntryDone(q) /\ UNCHANGED up
      \/ up' = [up EXCEPT ![n] = FALSE] /\ UNCHANGED <<srq, wq, wq_pos>>
  BY <1>1, QPType DEF RmcRecv, Shape
<1>4. /\ curr \in WqEntries /\ curr.nid \in Nodes /\ n \in Nodes /\ q[2] \in Int
      /\ curr.slot_idx \in SrqSlots
  BY <1>1, QPShape, QPType DEF WqEntries
<1>5. /\ \A p \in QPs \ {q} : rpcs_per_core'[p] = rpcs_per_core[p]
      /\ rpcs_per_core'[q] = IF curr.dispatch_on_recv THEN rpcs_per_core[q] - 1 ELSE rpcs_per_core[q]
  BY <1>1, <1>2 DEF decrement_core_occupancy, Shape
<1> HIDE DEF curr, m
<1>6. ASSUME NEW p \in Servers PROVE ServerOK(p)'
  <2>1. p[1] \in Nodes /\ (up'[p[1]] => up[p[1]])
    BY <1>1, <1>3, QPType, Roles DEF Shape
  <2>2. CASE p # q
    <3>1. wq'[p] = wq[p] /\ wq_pos'[p] = wq_pos[p]
      BY <1>1, <1>3, <2>2, EntryDoneType, Roles
    <3>2. QED
      BY <1>2, <1>5, <2>1, <2>2, <3>1, ServerAlone, Roles DEF Inv
  <2>3. CASE p = q
    <3>1. q \in Servers /\ ServerOK(q)
      BY <2>3 DEF Inv
    <3>2. CASE EntryDone(q) /\ UNCHANGED up
      <4>1. wq_pos[q].tail \in ToServe(wq[q], wq_pos[q]) /\ curr = wq[q].q[wq_pos[q].tail] /\ up[n]
        BY <1>2, <3>1, ReadyEntry DEF curr
      <4>2. wq_pos[q].tail \in ToRelease(wq[q], wq_pos[q]) /\ curr.dispatch_on_recv
        BY <1>2, <3>1, <4>1 DEF ToRelease, ServerOK, WqContents
      <4>3. /\ WqMarks(wq'[q], wq_pos'[q], thread[q]) /\ WqContents(wq'[q], wq_pos'[q], thread[q])
            /\ ToRelease(wq'[q], wq_pos'[q]) = ToRelease(wq[q], wq_pos[q]) \ {wq_pos[q].tail}
        BY <1>2, <3>1, <3>2, EntryDoneKeeps
      <4> DEFINE a == Cardinality(ToRead(cq[q], cq_pos[q]))
                 b == Cardinality(ToRelease(wq[q], wq_pos[q]))
      <4>4. a \in Nat /\ b \in Nat /\ Cardinality(ToRelease(wq'[q], wq_pos'[q])) = b - 1
        BY <4>2, <4>3, OccupancyParts, SlotCounts
      <4>5. rpcs_per_core[q] = a + (IF Holds(thread[q]) THEN 1 ELSE 0) + b
        BY <3>1, <4>1 DEF ServerOK, Occupancy
      <4>6. rpcs_per_core'[q] = a + (IF Holds(thread[q]) THEN 1 ELSE 0) + (b - 1)
        <5> HIDE DEF a, b
        <5> QED BY <1>5, <4>2, <4>4, <4>5
      <4>7. rpcs_per_core'[q] = Occupancy(wq'[q], wq_pos'[q], cq[q], cq_pos[q], thread[q])
        BY <4>4, <4>6 DEF Occupancy
      <4>8. QED
        BY <1>2, <2>3, <3>1, <4>3, <4>7 DEF ServerOK
    <3>3. CASE up' = [up EXCEPT ![n] = FALSE] /\ UNCHANGED <<srq, wq, wq_pos>>
      <4>1. ~up'[q[1]]
        BY <1>1, <1>4, <3>3 DEF Shape
      <4>2. QED
        BY <1>2, <2>3, <3>1, <3>3, <4>1 DEF ServerOK
    <3>4. QED
      BY <1>3, <3>2, <3>3
  <2>4. QED
    BY <2>2, <2>3
<1>7. MessagesOK'
  <2>1. m \in MessageType /\ m.type = "g"
    BY <1>4, Zeros DEF m, Message, MessageType
  <2>2. MessageOK(n, curr.nid, m)
    BY <2>1 DEF MessageOK
  <2>3. ChannelsOK(net')
    BY <1>1, <1>2, <1>4, <2>1, <2>2, ChannelSteps DEF Inv, MessagesOK, Shape
  <2>4. QED
    BY <2>3 DEF MessagesOK
<1>8. ClientsOK'
  <2>1. CASE EntryDone(q)
    BY <1>2, <2>1, EntryDoneKeeps
  <2>2. CASE UNCHANGED wq
    BY <2>2 DEF Inv, ClientsOK
  <2>3. QED
    BY <1>3, <2>1, <2>2
<1>9. ASSUME NEW p \in Servers PROVE RequestsOK(srq'[p[1]])
  <2>1. p[1] \in Nodes /\ srq[p[1]] \in SrqType /\ RequestsOK(srq[p[1]])
    BY <1>1, QPType, Roles DEF Inv, Shape
  <2>2. \/ srq'[p[1]] = srq[p[1]]
        \/ srq'[p[1]] = reset_srq_entry_invalid(srq[p[1]], curr.slot_idx)
    BY <1>1, <1>3, <2>1 DEF Shape
  <2>3. QED
    BY <1>4, <2>1, <2>2, SrqKeeps
<1>10. (\A p \in Servers : RequestsOK(srq[p[1]]))'
  BY <1>9 DEF RequestsOK
<1>11. QED
  BY <1>1, <1>6, <1>7, <1>8, <1>10 DEF Inv

\* A message the daemon takes names a client.
LEMMA TakenMessage ==
    ASSUME Inv, NEW i \in Nodes, NEW n \in Nodes, net[i][n] # << >>
    PROVE  /\ Head(net[i][n]) \in MessageType /\ MessageOK(i, n, Head(net[i][n]))
           /\ Taken(i, n) \in NetType /\ ChannelsOK(Taken(i, n))
<1>1. net \in NetType /\ ChannelsOK(net) /\ Shape
  BY DEF Inv, Shape, MessagesOK
<1>2. Head(net[i][n]) \in MessageType /\ Taken(i, n) \in NetType
  BY <1>1, NetTypes
<1>3. MessageOK(i, n, Head(net[i][n])) /\ ChannelsOK([net EXCEPT ![i][n] = Tail(@)])
  BY <1>1, ChannelSteps
<1>4. QED
  BY <1>2, <1>3 DEF Taken

\* A step of a daemon that gives no server but q a completion, and takes nothing
\* from the WQs.
LEMMA TakeKeeps ==
    ASSUME Inv, Shape', NEW q,
           UNCHANGED <<wq, wq_pos, thread>>,
           \A p \in QPs \ {q} : /\ cq'[p] = cq[p] /\ cq_pos'[p] = cq_pos[p]
                                /\ rpcs_per_core'[p] = rpcs_per_core[p],
           \A h \in Nodes : up'[h] => up[h],
           q \in Servers => ServerOK(q)',
           ChannelsOK(net'),
           \A p \in Servers : RequestsOK(srq'[p[1]])
    PROVE  Inv'
<1>1. ASSUME NEW p \in Servers PROVE ServerOK(p)'
  <2>1. CASE p = q
    BY <2>1
  <2>2. CASE p # q
    <3>1. p[1] \in Nodes /\ p \in QPs
      BY QPType, Roles
    <3>2. QED
      BY <2>2, <3>1, ServerAlone DEF Inv
  <2>3. QED
    BY <2>1, <2>2
<1>2. ClientsOK'
  BY DEF Inv, ClientsOK
<1>3. MessagesOK'
  BY DEF MessagesOK
<1>4. (\A p \in Servers : RequestsOK(srq[p[1]]))'
  BY DEF RequestsOK
<1>5. QED
  BY <1>1, <1>2, <1>3, <1>4 DEF Inv

\* case 's' of the messages: a response goes to a client.
LEMMA RecvResponseInv ==
    ASSUME Inv, Deployment, NEW n \in Nodes, NEW i \in Nodes, RecvResponse(i, n)
    PROVE  Inv' /\ \A p \in Servers : cq_pos'[p] = cq_pos[p]
<1>1. Shape /\ Shape'
  BY TakeShape DEF Inv
<1> DEFINE msg == Head(net[i][n])
           q == <<n, msg.qp>>
           e == [CqSlot(q) EXCEPT !.sending_nid = i, !.slot_idx = srq[n].head]
<1>2. /\ net[i][n] # << >> /\ msg.type = "s" /\ msg.term /\ net' = Taken(i, n)
      /\ UNCHANGED <<wq, wq_pos, rpcs_per_core, thread>>
  BY DEF RecvResponse, Arrives
<1>3. q \in Clients /\ ChannelsOK(net')
  BY <1>2, TakenMessage DEF MessageOK
<1>4. /\ DeliverTo(q, e) \/ UNCHANGED <<cq, cq_pos>>
      /\ UNCHANGED srq \/ \E f : srq' = [srq EXCEPT ![n] = f]
      /\ UNCHANGED up \/ Abort(n)
  BY Zenon DEF RecvResponse, Asserted
<1>5. q \in QPs /\ q \notin Servers /\ e \in CqEntries
  <2>1. q \in QPs /\ q \notin Servers
    BY <1>3, Roles
  <2>2. CqSlot(q) \in CqEntries /\ srq[n].head \in SrqSlots
    BY <1>1, <2>1, QPShape DEF Shape, SrqType
  <2> HIDE DEF q
  <2>3. QED
    BY <2>1, <2>2 DEF CqEntries
<1>6. \A p \in Servers : p[1] # n
  <2>1. q[1] = n
    OBVIOUS
  <2>2. QED
    BY <1>3, <2>1 DEF Deployment
<1> HIDE DEF q, e, msg
<1>7. \A p \in QPs \ {q} : cq'[p] = cq[p] /\ cq_pos'[p] = cq_pos[p]
  BY <1>1, <1>4, <1>5, DeliverType
<1>8. ASSUME NEW p \in Servers PROVE RequestsOK(srq'[p[1]])
  <2>1. p[1] \in Nodes /\ p[1] # n
    BY <1>6, QPType, Roles
  <2>2. srq'[p[1]] = srq[p[1]]
    BY <1>1, <1>4, <2>1 DEF Shape
  <2>3. QED
    BY <2>2 DEF Inv
<1>9. \A h \in Nodes : up'[h] => up[h]
  BY <1>1, <1>4 DEF Abort, Shape
<1>10. Inv'
  BY <1>1, <1>2, <1>3, <1>5, <1>7, <1>8, <1>9, TakeKeeps
<1>11. QED
  BY <1>5, <1>7, <1>10, Roles

\* A request is given to a core, which has room for its completion.
LEMMA DispatchInv ==
    ASSUME Inv, Deployment, Shape', NEW q \in QPs, NEW e \in CqEntries,
           up[q[1]], rpcs_per_core[q] <= REQ_THRESHOLD, DeliverTo(q, e),
           rpcs_per_core' = [rpcs_per_core EXCEPT ![q] = @ + 1],
           UNCHANGED <<wq, wq_pos, thread>>, \A h \in Nodes : up'[h] => up[h],
           q \in Servers => <<e.sending_nid, e.sending_qp>> \in Clients,
           ChannelsOK(net'),
           \A p \in Servers : RequestsOK(srq'[p[1]])
    PROVE  /\ Inv'
           /\ \A p \in Servers : cq_pos'[p] # cq_pos[p] => cq_pos[p].head \notin ToRead(cq[p], cq_pos[p])
<1>1. Shape
  BY DEF Inv
<1>2. \A p \in QPs \ {q} : cq'[p] = cq[p] /\ cq_pos'[p] = cq_pos[p]
                            /\ rpcs_per_core'[p] = rpcs_per_core[p]
  BY <1>1, DeliverType DEF Shape
<1>3. ASSUME q \in Servers
      PROVE  ServerOK(q)' /\ cq_pos[q].head \notin ToRead(cq[q], cq_pos[q])
  <2> DEFINE c == cq[q]
             g == cq_pos[q]
             c2 == cq'[q]
             g2 == cq_pos'[q]
             a == Cardinality(ToRead(c, g))
             b == Cardinality(ToRelease(wq[q], wq_pos[q]))
  <2>1. ServerOK(q) /\ up[q[1]]
    BY <1>3 DEF Inv
  <2>2. rpcs_per_core[q] = a + (IF Holds(thread[q]) THEN 1 ELSE 0) + b
    BY <2>1 DEF ServerOK, Occupancy
  <2>3. a \in Nat /\ b \in Nat /\ ToRead(c, g) \subseteq Slots
    BY OccupancyParts
  <2>4. /\ c \in CqType /\ g \in CqPosType /\ g.head \in Slots /\ CqInv(c, g)
    BY <1>1, <2>1, QPShape DEF ServerOK
  <2>5. <<e.sending_nid, e.sending_qp>> \in Clients
    BY <1>3
  <2>6. /\ c2 = [q |-> [c.q EXCEPT ![g.head] = [e EXCEPT !.SR = g.SR]], tail |-> c.tail, SR |-> c.SR]
        /\ g2 = [head |-> Advance(g.head), SR |-> Phase(g.head, g.SR)]
    BY <1>1, DeliverType
  <2>7. rpcs_per_core'[q] = rpcs_per_core[q] + 1 /\ rpcs_per_core[q] \in Int
    BY <1>1 DEF Shape
  <2> HIDE DEF a, b
  <2>8. a < MAX_NUM_WQ
    <3>1. a <= rpcs_per_core[q]
      BY <2>2, <2>3
    <3>2. rpcs_per_core[q] <= REQ_THRESHOLD /\ REQ_THRESHOLD < MAX_NUM_WQ
          /\ REQ_THRESHOLD \in Int /\ MAX_NUM_WQ \in Int
      <4>1. REQ_THRESHOLD \in Nat /\ MAX_NUM_WQ \in 1 .. 255
        BY Bounds
      <4>2. REQ_THRESHOLD < MAX_NUM_WQ
        BY DEF Deployment
      <4>3. QED
        BY <4>1, <4>2
    <3>3. QED
      BY <2>3, <2>7, <3>1, <3>2
  <2>9. Cardinality(ToRead(c, g)) < MAX_NUM_WQ
    BY <2>8 DEF a
  <2> HIDE DEF c, g, c2, g2
  <2>10. /\ g.head \notin ToRead(c, g) /\ CqInv(c2, g2)
         /\ ToRead(c2, g2) = ToRead(c, g) \union {g.head}
    BY <2>4, <2>5, <2>6, <2>9, DeliverKeeps
  <2>11. Cardinality(ToRead(c2, g2)) = a + 1
    BY <2>3, <2>4, <2>10, SlotCounts DEF a
  <2>12. rpcs_per_core'[q] = (a + 1) + (IF Holds(thread[q]) THEN 1 ELSE 0) + b
    BY <2>2, <2>3, <2>7
  <2>13. rpcs_per_core'[q] = Occupancy(wq[q], wq_pos[q], c2, g2, thread[q])
    BY <2>11, <2>12 DEF Occupancy, b
  <2>14. QED
    BY <2>1, <2>10, <2>13 DEF ServerOK, c, g, c2, g2
<1>4. Inv'
  BY <1>2, <1>3, TakeKeeps
<1>5. \A p \in Servers : cq_pos'[p] # cq_pos[p] => p = q
  BY <1>2, Roles
<1>6. QED
  BY <1>3, <1>4, <1>5

\* case 's' of the messages: a request is queued, and one may go to a core.
LEMMA RecvRequestInv ==
    ASSUME Inv, Deployment, NEW n \in Nodes, NEW i \in Nodes, RecvRequest(i, n)
    PROVE  /\ Inv'
           /\ \A p \in Servers : cq_pos'[p] # cq_pos[p] => cq_pos[p].head \notin ToRead(cq[p], cq_pos[p])
<1>1. Shape /\ Shape'
  BY TakeShape DEF Inv
<1> DEFINE msg == Head(net[i][n])
           f == [valid |-> TRUE, sending_nid |-> i, sending_qp |-> msg.qp]
           queued == enqueue_in_srq(srq[n], f)
           d == queued.dispatch_slot
           q == <<n, get_avail_core(n)>>
           e == [CqSlot(q) EXCEPT !.sending_nid = queued.q[d].sending_nid,
                                  !.sending_qp = queued.q[d].sending_qp, !.slot_idx = d]
<1>2. /\ net[i][n] # << >> /\ msg.type = "s" /\ ~msg.term /\ net' = Taken(i, n) /\ up[n]
      /\ UNCHANGED <<wq, wq_pos, thread>>
  BY DEF RecvRequest, Arrives
<1>3. msg \in MessageType /\ <<i, msg.qp>> \in Clients /\ ChannelsOK(net')
  BY <1>2, TakenMessage DEF MessageOK
<1>4. f \in SrqEntries /\ <<f.sending_nid, f.sending_qp>> \in Clients
  BY <1>3 DEF SrqEntries, MessageType
<1>5. /\ UNCHANGED up \/ Abort(n)
      /\ \/ /\ \/ srq' = [srq EXCEPT ![n] = queued]
               \/ srq' = [srq EXCEPT ![n] = advance_dispatch_slot(queued)]
            /\ UNCHANGED <<cq, cq_pos, rpcs_per_core>>
         \/ /\ get_avail_core(n) # -1
            /\ queued.q[d].valid
            /\ srq' = [srq EXCEPT ![n] = advance_dispatch_slot(queued)]
            /\ DeliverTo(q, e)
            /\ rpcs_per_core' = [rpcs_per_core EXCEPT ![q] = @ + 1]
  BY Zenon DEF RecvRequest, Asserted
<1> HIDE DEF f, msg
<1>6. srq[n] \in SrqType /\ queued \in SrqType /\ d \in SrqSlots /\ queued.q[d] \in SrqEntries
  <2>1. srq[n] \in SrqType
    BY <1>1 DEF Shape
  <2>2. queued \in SrqType
    BY <1>4, <2>1, SrqOperations
  <2>3. QED
    BY <2>1, <2>2 DEF SrqType
<1>7. ASSUME NEW p \in Servers, p[1] = n
      PROVE  RequestsOK(queued) /\ RequestsOK(advance_dispatch_slot(queued))
  <2>1. RequestsOK(srq[n])
    BY <1>7 DEF Inv
  <2>2. RequestsOK(queued)
    BY <1>4, <1>6, <2>1, SrqKeeps
  <2>3. QED
    BY <1>6, <2>2, SrqKeeps
<1> HIDE DEF queued, d
<1>8. q \in QPs => e \in CqEntries /\ e.sending_nid = queued.q[d].sending_nid
                                   /\ e.sending_qp = queued.q[d].sending_qp
  <2>1. q \in QPs => CqSlot(q) \in CqEntries
    BY <1>1, QPShape
  <2> HIDE DEF q
  <2>2. QED
    BY <1>6, <2>1 DEF CqEntries, SrqEntries
<1>9. q[1] = n
  OBVIOUS
<1>10. get_avail_core(n) # -1 => q \in QPs /\ rpcs_per_core[q] <= REQ_THRESHOLD
  BY AvailCore
<1> HIDE DEF q, e
<1>11. ASSUME NEW p \in Servers PROVE RequestsOK(srq'[p[1]])
  <2>1. p[1] \in Nodes
    BY QPType, Roles
  <2>2. CASE p[1] # n
    <3>1. srq'[p[1]] = srq[p[1]]
      BY <1>1, <1>5, <2>1, <2>2 DEF Shape
    <3>2. QED
      BY <3>1 DEF Inv
  <2>3. CASE p[1] = n
    <3>1. srq'[n] = queued \/ srq'[n] = advance_dispatch_slot(queued)
      BY <1>1, <1>5 DEF Shape
    <3>2. QED
      BY <1>7, <2>3, <3>1
  <2>4. QED
    BY <2>2, <2>3
<1>12. \A h \in Nodes : up'[h] => up[h]
  BY <1>1, <1>5 DEF Abort, Shape
<1>13. CASE UNCHANGED <<cq, cq_pos, rpcs_per_core>>
  <2>1. \A p \in QPs \ {n} : cq'[p] = cq[p] /\ cq_pos'[p] = cq_pos[p]
                              /\ rpcs_per_core'[p] = rpcs_per_core[p]
    BY <1>13
  <2>2. ASSUME n \in Servers PROVE ServerOK(n)'
    <3>1. n[1] \in Nodes
      BY <2>2, QPType, Roles
    <3>2. QED
      BY <1>2, <1>12, <1>13, <2>2, <3>1, ServerAlone DEF Inv
  <2>3. Inv'
    BY <1>1, <1>2, <1>3, <1>11, <1>12, <2>1, <2>2, TakeKeeps
  <2>4. QED
    BY <1>13, <2>3
<1>14. CASE /\ get_avail_core(n) # -1
            /\ queued.q[d].valid
            /\ DeliverTo(q, e)
            /\ rpcs_per_core' = [rpcs_per_core EXCEPT ![q] = @ + 1]
  <2>1. q \in QPs /\ e \in CqEntries /\ rpcs_per_core[q] <= REQ_THRESHOLD
    BY <1>8, <1>10, <1>14
  <2>2. q \in Servers => <<e.sending_nid, e.sending_qp>> \in Clients
    BY <1>6, <1>7, <1>8, <1>9, <1>14, <2>1 DEF RequestsOK
  <2>3. up[q[1]] /\ UNCHANGED <<wq, wq_pos, thread>>
    BY <1>2, <1>9
  <2>4. QED
    BY <1>1, <1>3, <1>11, <1>12, <1>14, <2>1, <2>2, <2>3, DispatchInv
<1>15. QED
  BY <1>5, <1>13, <1>14

\* The other messages: NACKs go to clients.
LEMMA OtherMessagesInv ==
    ASSUME Inv, Deployment, NEW n \in Nodes, NEW i \in Nodes,
           RecvRequestFull(i, n) \/ RecvAck(i, n) \/ RecvNack(i, n) \/ PeerClosed(i, n)
    PROVE  Inv' /\ \A p \in Servers : cq_pos'[p] = cq_pos[p]
<1>1. Shape /\ Shape'
  BY TakeShape DEF Inv
<1> DEFINE msg == Head(net[i][n])
           q == <<n, msg.qp>>
           e == [CqSlot(q) EXCEPT !.sending_nid = i, !.is_nack = TRUE]
<1>2. UNCHANGED <<wq, wq_pos, thread, srq, rpcs_per_core>>
  BY DEF RecvRequestFull, RecvAck, RecvNack, PeerClosed
<1>3. \A p \in Servers : RequestsOK(srq'[p[1]])
  BY <1>2 DEF Inv
<1>4. \A h \in Nodes : up'[h] => up[h]
  BY <1>1 DEF RecvRequestFull, RecvAck, RecvNack, PeerClosed, Asserted, Abort, Shape
<1>5. RecvNack(i, n) => q \in Clients /\ (DeliverTo(q, e) \/ UNCHANGED <<cq, cq_pos>>)
  <2>1. RecvNack(i, n) => q \in Clients
    BY TakenMessage DEF RecvNack, Arrives, MessageOK
  <2>2. RecvNack(i, n) => DeliverTo(q, e) \/ UNCHANGED <<cq, cq_pos>>
    BY Zenon DEF RecvNack
  <2>3. QED
    BY <2>1, <2>2
<1>6. q \in Clients => q \notin Servers /\ (q \in QPs => e \in CqEntries)
  <2>1. q \in QPs => CqSlot(q) \in CqEntries
    BY <1>1, QPShape
  <2> HIDE DEF q
  <2>2. q \in QPs => e \in CqEntries
    BY <2>1 DEF CqEntries
  <2>3. QED
    BY <2>2, Roles
<1>7. ChannelsOK(net')
  <2>1. CASE RecvRequestFull(i, n)
    <3> DEFINE m == Message("n", FALSE, msg.qp, NoPayload)
    <3>1. net[i][n] # << >> /\ msg.type = "s" /\ ~msg.term /\ net' = SendTo(Taken(i, n), n, i, m)
      BY <2>1 DEF RecvRequestFull, Arrives
    <3>2. msg \in MessageType /\ <<i, msg.qp>> \in Clients /\ ChannelsOK(Taken(i, n))
          /\ Taken(i, n) \in NetType
      BY <3>1, TakenMessage DEF MessageOK
    <3>3. m \in MessageType /\ m.type = "n" /\ m.qp = msg.qp
      BY <3>2, Zeros DEF Message, MessageType
    <3> HIDE DEF m
    <3>4. MessageOK(n, i, m)
      BY <3>2, <3>3 DEF MessageOK
    <3>5. QED
      BY <3>1, <3>2, <3>3, <3>4, ChannelSteps
  <2>2. CASE RecvAck(i, n) \/ RecvNack(i, n)
    BY <2>2, TakenMessage DEF RecvAck, RecvNack, Arrives
  <2>3. CASE PeerClosed(i, n)
    BY <2>3 DEF PeerClosed, Inv, MessagesOK
  <2>4. QED
    BY <2>1, <2>2, <2>3
<1> HIDE DEF q, e
<1>8. CASE RecvNack(i, n)
  <2>1. \A p \in QPs \ {q} : cq'[p] = cq[p] /\ cq_pos'[p] = cq_pos[p]
                             /\ rpcs_per_core'[p] = rpcs_per_core[p]
    BY <1>1, <1>2, <1>5, <1>6, <1>8, DeliverType
  <2>2. q \notin Servers
    BY <1>5, <1>6, <1>8
  <2>3. Inv'
    BY <1>1, <1>2, <1>3, <1>4, <1>7, <2>1, <2>2, TakeKeeps
  <2>4. QED
    BY <2>1, <2>2, <2>3, Roles
<1>9. CASE ~RecvNack(i, n)
  <2>1. UNCHANGED <<cq, cq_pos>>
    BY <1>9 DEF RecvRequestFull, RecvAck, PeerClosed
  <2>2. ASSUME n \in Servers PROVE ServerOK(n)'
    <3>1. n[1] \in Nodes
      BY <2>2, QPType, Roles
    <3>2. QED
      BY <1>2, <1>4, <2>1, <2>2, <3>1, ServerAlone DEF Inv
  <2>3. Inv'
    BY <1>1, <1>2, <1>3, <1>4, <1>7, <2>1, <2>2, TakeKeeps
  <2>4. QED
    BY <2>1, <2>3
<1>10. QED
  BY <1>8, <1>9

(***************************************************************************)
(* Theorems.                                                               *)
(***************************************************************************)
\* What CompletionsKept says of the servers' queue pairs.
ServersKept == \A q \in Servers : cq_pos'[q] # cq_pos[q] => cq_pos[q].head \notin Unread(q)

\* Every step keeps the invariant, and writes over no completion of a server.
LEMMA NextInv ==
    ASSUME Inv, Deployment, [Next]_vars
    PROVE  Inv' /\ ServersKept
<1>1. \A q : Unread(q) = ToRead(cq[q], cq_pos[q])
  BY DEF Unread, ToRead
<1>2. UNCHANGED cq_pos => ServersKept
  BY DEF ServersKept
<1>3. CASE UNCHANGED vars
  <2>1. Shape'
    BY <1>3, NextShape DEF Inv
  <2>2. (\A q \in Servers : ServerOK(q))'
    BY <1>3 DEF Inv, ServerOK, vars
  <2>3. ClientsOK' /\ MessagesOK' /\ (\A q \in Servers : RequestsOK(srq[q[1]]))'
    BY <1>3 DEF Inv, ClientsOK, MessagesOK, RequestsOK, vars
  <2>4. QED
    BY <1>2, <1>3, <2>1, <2>2, <2>3 DEF Inv, vars
<1>4. ASSUME NEW q \in QPs, kal_reg_wq(q) \/ kal_reg_cq(q) PROVE Inv' /\ UNCHANGED cq_pos
  BY <1>4, RegisterInv DEF kal_reg_wq, kal_reg_cq, daemonVars
<1>5. ASSUME NEW q \in Clients, rmc_send_request(q) PROVE Inv' /\ UNCHANGED cq_pos
  BY <1>5, PublishInv, Roles DEF rmc_send_request, daemonVars
<1>6. ASSUME NEW q \in QPs, Run(q) PROVE Inv' /\ UNCHANGED cq_pos
  <2>1. Inv'
    BY <1>6, PublishInv, LateInv, PollInv DEF Run
  <2>2. UNCHANGED cq_pos
    BY <1>6 DEF Run, rmc_send_late, rmc_poll_cq_rpc, rmc_recv, rmc_recv_late, rmc_send_response,
                daemonVars
  <2>3. QED
    BY <2>1, <2>2
<1>7. ASSUME NEW n \in Nodes, Daemon(n) PROVE Inv' /\ ServersKept
  <2>1. ASSUME NEW q \in QPs, RmcSend(q) \/ RmcRecv(q) PROVE Inv' /\ ServersKept
    <3>1. Inv'
      BY <2>1, RmcSendInv, RmcRecvInv
    <3>2. UNCHANGED cq_pos
      BY <2>1 DEF RmcSend, RmcRecv
    <3>3. QED
      BY <1>2, <3>1, <3>2
  <2>2. ASSUME NEW i \in Nodes, RecvResponse(i, n) PROVE Inv' /\ ServersKept
    BY <2>2, RecvResponseInv DEF ServersKept
  <2>3. ASSUME NEW i \in Nodes, RecvRequest(i, n) PROVE Inv' /\ ServersKept
    BY <1>1, <2>3, RecvRequestInv DEF ServersKept
  <2>4. ASSUME NEW i \in Nodes,
               RecvRequestFull(i, n) \/ RecvAck(i, n) \/ RecvNack(i, n) \/ PeerClosed(i, n)
        PROVE  Inv' /\ ServersKept
    BY <2>4, OtherMessagesInv DEF ServersKept
  <2>5. QED
    BY <1>7, <2>1, <2>2, <2>3, <2>4 DEF Daemon
<1>8. QED
  BY <1>4, <1>2, <1>3, <1>5, <1>6, <1>7 DEF Next

\* rpcs_per_core is exactly the number of requests a core has been given and has
\* not released (RecvRequest and decrement_core_occupancy, rmcd.cpp), also when
\* the SRQ overflows, loses entries or aborts a daemon: for any number of
\* clients, servers and entries, where nodes that serve do not call.
THEOREM OccupancyCorrect ==
    ASSUME Deployment
    PROVE  Spec => []OccupancyExact
<1>1. Init => Inv
  BY InitInv
<1>2. Inv /\ [Next]_vars => Inv'
  BY NextInv
<1>3. Inv => OccupancyExact
  BY InvOccupancy
<1>4. QED
  BY <1>1, <1>2, <1>3, PTL DEF Spec

\* The daemon, which does not look at the tail of a CQ, never writes over a
\* completion a server has not polled: the threshold of get_avail_core is what
\* protects the ring.
THEOREM ServerCompletionsKept ==
    ASSUME Deployment
    PROVE  Spec => [][ServersKept]_vars
<1>1. Init => Inv
  BY InitInv
<1>2. Inv /\ [Next]_vars => Inv'
  BY NextInv
<1>3. Inv /\ [Next]_vars => [ServersKept]_vars
  BY NextInv
<1>4. QED
  BY <1>1, <1>2, <1>3, PTL DEF Spec

(***************************************************************************)
(* Calm: what holds of the whole program while no daemon has met a case it *)
(* does not handle (mishap), where every client calls a node that serves,  *)
(* the cores that serve have registered, and the daemons are not debugged. *)
(* From rmc_send to the poll of its answer a call is in exactly one place; *)
(* an SRQ entry in use waits for a core or has exactly one holder; every   *)
(* request and response that can still be read is that of the present call *)
(* of its client.                                                          *)
(***************************************************************************)

\* Every client calls a node that serves: the nid a caller gives rmc_send is that
\* of a node whose cores poll for requests.  The cores that serve have registered
\* their queues when the calls begin, and the daemons are no debugging builds.
Setup ==
    /\ \A c \in Clients : \E q \in Servers : q[1] = ServerNode[c]
    /\ Servers \subseteq Registered
    /\ ~DEBUG_RMC

\* A core of node n takes requests.
Serves(n) == \E q \in Servers : q[1] = n

\* What client c asks in its present call.
Live(c) == Request(c, thread[c].id)

\* The SRQ entries that wait for a core: from dispatch_slot up to the head.
Waits(s, k) ==
    IF s.dispatch_slot <= s.head THEN s.dispatch_slot <= k /\ k < s.head
                                 ELSE s.dispatch_slot <= k \/ k < s.head

\* The traces of a call of client c, by place: an entry to serve, a message, an
\* SRQ entry that waits, a completion of a server, a server, a completion of c.
IsTrace(m, n, c) ==
    \/ m.type = "s" /\ m.payload.of = c
    \/ m.type = "n" /\ c = <<n, m.qp>>

Sent(c) ==
    {x \in QPs \X Slots :
        /\ x[2] \in ToServe(wq[x[1]], wq_pos[x[1]])
        /\ wq[x[1]].q[x[2]].op = "s" /\ wq[x[1]].q[x[2]].buf.of = c}
FlyingIn(ch, c) ==
    {x \in Nodes \X Nodes \X Nat :
        x[3] \in DOMAIN ch[x[1]][x[2]] /\ IsTrace(ch[x[1]][x[2]][x[3]], x[2], c)}
Flying(c) == FlyingIn(net, c)
Queued(c) ==
    {x \in Nodes \X SrqSlots :
        Serves(x[1]) /\ Waits(srq[x[1]], x[2]) /\ recv_slots[x[1]][x[2]].of = c}
Given(c) ==
    {x \in Servers \X Slots :
        /\ x[2] \in ToRead(cq[x[1]], cq_pos[x[1]])
        /\ recv_slots[x[1][1]][cq[x[1]].q[x[2]].slot_idx].of = c}
Served(c) == {q \in Servers : thread[q].pc \in Serving /\ thread[q].arg.of = c}
Answers(c) == ToRead(cq[c], cq_pos[c])

\* One of six sets has one element, the others none.
Single(S) == \E x : S = {x}
OnlyOne(s, f, w, g, v, a) ==
    \/ Single(s) /\ f = {} /\ w = {} /\ g = {} /\ v = {} /\ a = {}
    \/ s = {} /\ Single(f) /\ w = {} /\ g = {} /\ v = {} /\ a = {}
    \/ s = {} /\ f = {} /\ Single(w) /\ g = {} /\ v = {} /\ a = {}
    \/ s = {} /\ f = {} /\ w = {} /\ Single(g) /\ v = {} /\ a = {}
    \/ s = {} /\ f = {} /\ w = {} /\ g = {} /\ Single(v) /\ a = {}
    \/ s = {} /\ f = {} /\ w = {} /\ g = {} /\ v = {} /\ Single(a)

\* No trace of client c is left outside its CQ.
Gone(c) == Sent(c) = {} /\ Flying(c) = {} /\ Queued(c) = {} /\ Given(c) = {} /\ Served(c) = {}

\* A client that polls has one trace of its call somewhere, one that does not has
\* none, not even in the channels.
CallOK(c) ==
    IF thread[c].pc = "poll"
    THEN OnlyOne(Sent(c), Flying(c), Queued(c), Given(c), Served(c), Answers(c))
    ELSE Gone(c) /\ Answers(c) = {}

\* The holders of SRQ slot s of node n, by kind.
CqHolders(n, s) ==
    {x \in QPs \X Slots :
        /\ x[1][1] = n /\ x[2] \in ToRead(cq[x[1]], cq_pos[x[1]])
        /\ ~cq[x[1]].q[x[2]].is_nack /\ cq[x[1]].q[x[2]].slot_idx = s}
ThreadHolders(n, s) == {q \in QPs : q[1] = n /\ Holds(thread[q]) /\ thread[q].slot = s}
WqHolders(n, s) ==
    {x \in QPs \X Slots :
        /\ x[1][1] = n /\ x[2] \in ToServe(wq[x[1]], wq_pos[x[1]])
        /\ wq[x[1]].q[x[2]].op = "g" /\ wq[x[1]].q[x[2]].slot_idx = s}

\* No holder, and exactly one.
Free(a, b, d) == a = {} /\ b = {} /\ d = {}
Held(a, b, d) ==
    \/ Single(a) /\ b = {} /\ d = {}
    \/ a = {} /\ Single(b) /\ d = {}
    \/ a = {} /\ b = {} /\ Single(d)

\* An entry in use waits, with the payload of a present call, or has one holder.
SlotOK(n, s) ==
    /\ srq[n].q[s].valid => s \in InQueue(srq[n])
    /\ Serves(n) /\ Waits(srq[n], s) =>
          /\ srq[n].q[s].valid
          /\ recv_slots[n][s] = Live(<<srq[n].q[s].sending_nid, srq[n].q[s].sending_qp>>)
    /\ IF srq[n].q[s].valid /\ ~(Serves(n) /\ Waits(srq[n], s))
       THEN Held(CqHolders(n, s), ThreadHolders(n, s), WqHolders(n, s))
       ELSE Free(CqHolders(n, s), ThreadHolders(n, s), WqHolders(n, s))

\* The marks of the SR bits of a CQ tell which completions have been polled.
CqMarks(c, d) ==
    /\ InOrder(c.tail, c.SR, d.head, d.SR)
    /\ \A k \in Slots : c.q[k].SR = Mark(k, d.head, d.SR)

RingsOK(q) == WqMarks(wq[q], wq_pos[q], thread[q]) /\ CqMarks(cq[q], cq_pos[q])

\* What the entries of a client's and of a server's WQ ask the daemon to send.
SentOK(q, e) ==
    IF q \in Clients THEN e.buf = Live(q) /\ e.nid = ServerNode[q]
                     ELSE e.buf = Response(Live(<<e.nid, e.qp_num_at_receiver>>))

EntriesOK(q) ==
    /\ \A k \in ToServe(wq[q], wq_pos[q]) : wq[q].q[k].op = "s" => SentOK(q, wq[q].q[k])
    /\ thread[q].pc = "send_late" =>
          /\ WqSlot(q).op = "s"
          /\ IF q \in Clients THEN SentOK(q, WqSlot(q)) ELSE WqSlot(q).buf = Response(thread[q].arg)
    /\ thread[q].pc = "recv_late" => WqSlot(q).op = "g"

\* What a thread has been given: a client the answer to its call, a server the
\* request of a client that waits for it.
ThreadOK(q) ==
    IF q \in Clients
    THEN /\ thread[q].pc # "send"
         /\ Holds(thread[q]) => thread[q].arg = Response(Live(q))
    ELSE /\ thread[q].pc \notin {"idle", "reg_wq", "reg_cq"}
         /\ thread[q].pc \in Serving => thread[q].arg = Live(<<thread[q].nid, thread[q].qp>>)

\* The slot a completion names holds what the reader expects there; a client that
\* is told of a NACK tests for one.
CompletionOK(q, e) ==
    IF q \in Clients
    THEN IF e.is_nack THEN TestsNack ELSE recv_slots[q[1]][e.slot_idx] = Response(Live(q))
    ELSE recv_slots[q[1]][e.slot_idx] = Live(<<e.sending_nid, e.sending_qp>>)

CompletionsOK(q) ==
    /\ q \in Servers => \A k \in Slots : ~cq[q].q[k].is_nack
    /\ \A k \in ToRead(cq[q], cq_pos[q]) : CompletionOK(q, cq[q].q[k])

\* A message from node i to node n carries a request or a response of a present
\* call.
PayloadOK(i, n, m) ==
    m.type = "s" =>
        IF m.term THEN m.payload = Response(Live(<<n, m.qp>>))
                  ELSE m.payload = Live(<<i, m.qp>>) /\ n = ServerNode[<<i, m.qp>>]

\* One queue pair: its rings, what joins them, its thread, its completions.
QueuePairOK(q) == RingsOK(q) /\ EntriesOK(q) /\ ThreadOK(q) /\ CompletionsOK(q)

\* The whole program.
Calm ==
    /\ \A n \in Nodes : up[n]
    /\ \A q \in QPs : QueuePairOK(q)
    /\ \A i, n \in Nodes : \A k \in 1 .. Len(net[i][n]) : PayloadOK(i, n, net[i][n][k])
    /\ \A n \in Nodes : \A s \in SrqSlots : SlotOK(n, s)
    /\ \A c \in Clients : CallOK(c)
(***************************************************************************)
(* Rings, whatever their entries ask.                                      *)
(***************************************************************************)

\* The stores up to SR go to a free entry, outside what is to be served.
LEMMA PublishMarks ==
    ASSUME NEW r \in WqType, NEW p \in WqPosType, NEW th, NEW th2, NEW f, NEW r2,
           WqMarks(r, p, th), ~Late(th), Late(th2), r.q[r.head].valid = 0,
           f.valid = 1, f.SR = r.SR, r2.head = r.head, r2.SR = r.SR,
           r2.q[r.head] = f, \A k \in Slots \ {r.head} : r2.q[k] = r.q[k]
    PROVE  /\ WqMarks(r2, p, th2) /\ ToServe(r2, p) = ToServe(r, p)
           /\ r.head \in Slots /\ r2.head = r.head /\ r2.q[r.head] = f
           /\ \A k \in ToServe(r, p) : r2.q[k] = r.q[k]
<1>1. /\ r.head \in Slots /\ r2.head = r.head /\ r2.SR = r.SR
      /\ r2.q[r.head] = f /\ \A k \in Slots \ {r.head} : r2.q[k] = r.q[k]
  BY DEF WqType
<1>2. ToServe(r2, p) = ToServe(r, p) /\ ToServe(r, p) \subseteq Slots
  BY <1>1 DEF ToServe, Stretch
<1>3. r.head \notin ToServe(r, p)
  BY <1>1 DEF WqMarks
<1>4. WqMarks(r2, p, th2)
  BY <1>1, <1>2, <1>3 DEF WqMarks
<1>5. QED
  BY <1>1, <1>2, <1>3, <1>4

\* The late stores: the entry joins what is to be served.
LEMMA FinishMarks ==
    ASSUME NEW r \in WqType, NEW p \in WqPosType, NEW th, NEW th2, NEW e, NEW r2,
           WqMarks(r, p, th), Late(th), ~Late(th2),
           e.SR = r.q[r.head].SR, e.valid = r.q[r.head].valid,
           r2.head = Advance(r.head), r2.SR = Phase(r.head, r.SR),
           r2.q[r.head] = e, \A k \in Slots \ {r.head} : r2.q[k] = r.q[k]
    PROVE  /\ WqMarks(r2, p, th2) /\ ToServe(r2, p) = ToServe(r, p) \union {r.head}
           /\ r.head \in Slots /\ r.head \notin ToServe(r, p) /\ r2.q[r.head] = e
           /\ \A k \in ToServe(r, p) : r2.q[k] = r.q[k]
<1>1. /\ r.head \in Slots /\ r.SR \in Bits /\ p.tail \in Slots /\ p.SR \in Bits
      /\ r2.head = Advance(r.head) /\ r2.SR = Phase(r.head, r.SR)
      /\ r2.q[r.head] = e /\ \A k \in Slots \ {r.head} : r2.q[k] = r.q[k]
  BY DEF WqType, WqPosType
<1>2. r.head \notin ToServe(r, p) /\ InOrder(p.tail, p.SR, r.head, r.SR)
      /\ e.SR = r.SR /\ e.valid = 1
  BY <1>1 DEF WqMarks
<1>3. /\ InOrder(p.tail, p.SR, r2.head, r2.SR)
      /\ ToServe(r2, p) = ToServe(r, p) \union {r.head}
      /\ \A k \in Slots : Mark(k, r2.head, r2.SR) = IF k = r.head THEN r.SR ELSE Mark(k, r.head, r.SR)
  BY <1>1, <1>2, StretchGrows DEF ToServe
<1>4. ToServe(r, p) \subseteq Slots
  BY DEF ToServe, Stretch
<1>5. WqMarks(r2, p, th2)
  <2>1. ASSUME NEW k \in Slots
        PROVE  /\ r2.q[k].SR = Mark(k, r2.head, r2.SR)
               /\ r2.q[k].valid = 1 <=> k \in ToServe(r2, p)
    BY <1>1, <1>2, <1>3 DEF WqMarks
  <2>2. QED
    BY <1>3, <2>1 DEF WqMarks
<1>6. QED
  BY <1>1, <1>2, <1>3, <1>4, <1>5

\* An entry that is ready is one to be served; the daemon is done with it.
LEMMA ServeMarks ==
    ASSUME NEW r \in WqType, NEW p \in WqPosType, NEW th, NEW f, NEW r2, NEW p2,
           WqMarks(r, p, th), r.q[p.tail].SR = p.SR, ~(Late(th) /\ r.head = p.tail),
           f.valid = 0, f.SR = r.q[p.tail].SR,
           r2.head = r.head, r2.SR = r.SR,
           r2.q[p.tail] = f, \A k \in Slots \ {p.tail} : r2.q[k] = r.q[k],
           p2.tail = Advance(p.tail), p2.SR = Phase(p.tail, p.SR)
    PROVE  /\ p.tail \in ToServe(r, p) /\ WqMarks(r2, p2, th)
           /\ ToServe(r2, p2) = ToServe(r, p) \ {p.tail}
           /\ r2.head = r.head
           /\ \A k \in Slots \ {p.tail} : r2.q[k] = r.q[k]
<1>1. /\ r.head \in Slots /\ r.SR \in Bits /\ p.tail \in Slots /\ p.SR \in Bits
      /\ r2.head = r.head /\ r2.SR = r.SR
      /\ p2.tail = Advance(p.tail) /\ p2.SR = Phase(p.tail, p.SR)
      /\ r2.q[p.tail] = f /\ \A k \in Slots \ {p.tail} : r2.q[k] = r.q[k]
  BY DEF WqType, WqPosType
<1>2. r.q[p.tail].SR = Mark(p.tail, r.head, r.SR) /\ InOrder(p.tail, p.SR, r.head, r.SR)
  BY <1>1 DEF WqMarks
<1>3. p.tail \in ToServe(r, p)
  BY <1>1, <1>2, StretchEnds DEF ToServe
<1>4. /\ InOrder(p2.tail, p2.SR, r2.head, r2.SR)
      /\ ToServe(r2, p2) = ToServe(r, p) \ {p.tail}
  BY <1>1, <1>2, <1>3, StretchShrinks DEF ToServe
<1>5. WqMarks(r2, p2, th)
  <2>1. Late(th) => r.head # p.tail
    OBVIOUS
  <2>2. ASSUME NEW k \in Slots
        PROVE  /\ r2.q[k].SR = IF k = r2.head /\ Late(th) THEN r2.SR ELSE Mark(k, r2.head, r2.SR)
               /\ r2.q[k].valid = 1 <=> k \in ToServe(r2, p2) \/ (k = r2.head /\ Late(th))
    BY <1>1, <1>2, <1>4, <2>1 DEF WqMarks
  <2>3. QED
    BY <1>1, <1>4, <2>2 DEF WqMarks
<1>6. QED
  BY <1>1, <1>3, <1>4, <1>5

\* The daemon writes a completion outside what is to be read.
LEMMA DeliverMarks ==
    ASSUME NEW c \in CqType, NEW d \in CqPosType, NEW f, NEW c2, NEW d2,
           CqMarks(c, d), d.head \notin ToRead(c, d), f.SR = d.SR,
           c2.tail = c.tail, c2.SR = c.SR,
           c2.q[d.head] = f, \A k \in Slots \ {d.head} : c2.q[k] = c.q[k],
           d2.head = Advance(d.head), d2.SR = Phase(d.head, d.SR)
    PROVE  /\ CqMarks(c2, d2) /\ ToRead(c2, d2) = ToRead(c, d) \union {d.head}
           /\ d.head \in Slots /\ c2.q[d.head] = f
           /\ \A k \in Slots \ {d.head} : c2.q[k] = c.q[k]
<1>1. /\ c.tail \in Slots /\ c.SR \in Bits /\ d.head \in Slots /\ d.SR \in Bits
      /\ c2.tail = c.tail /\ c2.SR = c.SR
      /\ d2.head = Advance(d.head) /\ d2.SR = Phase(d.head, d.SR)
      /\ c2.q[d.head] = f /\ \A k \in Slots \ {d.head} : c2.q[k] = c.q[k]
  BY DEF CqType, CqPosType
<1>2. /\ InOrder(c2.tail, c2.SR, d2.head, d2.SR)
      /\ ToRead(c2, d2) = ToRead(c, d) \union {d.head}
      /\ \A k \in Slots : Mark(k, d2.head, d2.SR) = IF k = d.head THEN d.SR ELSE Mark(k, d.head, d.SR)
  BY <1>1, StretchGrows DEF CqMarks, ToRead
<1>3. QED
  BY <1>1, <1>2 DEF CqMarks

\* The thread polls a completion.
LEMMA PollMarks ==
    ASSUME NEW c \in CqType, NEW d \in CqPosType, NEW c2,
           CqMarks(c, d), c.q[c.tail].SR = c.SR,
           c2.q = c.q, c2.tail = Advance(c.tail), c2.SR = Phase(c.tail, c.SR)
    PROVE  /\ c.tail \in ToRead(c, d) /\ CqMarks(c2, d) /\ c2.q = c.q
           /\ ToRead(c2, d) = ToRead(c, d) \ {c.tail}
<1>1. /\ c.tail \in Slots /\ c.SR \in Bits /\ d.head \in Slots /\ d.SR \in Bits
      /\ c2.tail = Advance(c.tail) /\ c2.SR = Phase(c.tail, c.SR) /\ c2.q = c.q
  BY DEF CqType, CqPosType
<1>2. c.tail \in ToRead(c, d)
  BY <1>1, StretchEnds DEF CqMarks, ToRead
<1>3. InOrder(c2.tail, c2.SR, d.head, d.SR) /\ ToRead(c2, d) = ToRead(c, d) \ {c.tail}
  BY <1>1, <1>2, StretchShrinks DEF CqMarks, ToRead
<1>4. QED
  BY <1>1, <1>2, <1>3 DEF CqMarks

\* If exactly one of six sets has an element, whoever has one has the only one.
LEMMA Lone ==
    ASSUME NEW s, NEW f, NEW w, NEW g, NEW v, NEW a, OnlyOne(s, f, w, g, v, a), NEW x
    PROVE  /\ x \in s => s = {x} /\ f = {} /\ w = {} /\ g = {} /\ v = {} /\ a = {}
           /\ x \in f => s = {} /\ f = {x} /\ w = {} /\ g = {} /\ v = {} /\ a = {}
           /\ x \in w => s = {} /\ f = {} /\ w = {x} /\ g = {} /\ v = {} /\ a = {}
           /\ x \in g => s = {} /\ f = {} /\ w = {} /\ g = {x} /\ v = {} /\ a = {}
           /\ x \in v => s = {} /\ f = {} /\ w = {} /\ g = {} /\ v = {x} /\ a = {}
           /\ x \in a => s = {} /\ f = {} /\ w = {} /\ g = {} /\ v = {} /\ a = {x}
BY DEF OnlyOne, Single

\* The same of the three kinds of holders.
LEMMA LoneHolder ==
    ASSUME NEW a, NEW b, NEW d, Held(a, b, d), NEW x
    PROVE  /\ x \in a => a = {x} /\ b = {} /\ d = {}
           /\ x \in b => a = {} /\ b = {x} /\ d = {}
           /\ x \in d => a = {} /\ b = {} /\ d = {x}
BY DEF Held, Single
(***************************************************************************)
(* What a step of one queue pair does to the traces and the holders.       *)
(***************************************************************************)

\* Queue pair p's WQ and CQ, as far as they are to be served and read, are the
\* same after the step.
SameTodo(p) ==
    /\ ToServe(wq'[p], wq_pos'[p]) = ToServe(wq[p], wq_pos[p])
    /\ \A k \in ToServe(wq[p], wq_pos[p]) : wq'[p].q[k] = wq[p].q[k]
SameFresh(p) ==
    /\ ToRead(cq'[p], cq_pos'[p]) = ToRead(cq[p], cq_pos[p])
    /\ \A k \in ToRead(cq[p], cq_pos[p]) : cq'[p].q[k] = cq[p].q[k]

\* Slot k joins, or leaves, what is to be served or read of queue pair p.
MoreTodo(p, k) ==
    /\ k \in Slots /\ k \notin ToServe(wq[p], wq_pos[p])
    /\ ToServe(wq'[p], wq_pos'[p]) = ToServe(wq[p], wq_pos[p]) \union {k}
    /\ \A j \in ToServe(wq[p], wq_pos[p]) : wq'[p].q[j] = wq[p].q[j]
LessTodo(p, k) ==
    /\ k \in ToServe(wq[p], wq_pos[p])
    /\ ToServe(wq'[p], wq_pos'[p]) = ToServe(wq[p], wq_pos[p]) \ {k}
    /\ \A j \in ToServe(wq[p], wq_pos[p]) \ {k} : wq'[p].q[j] = wq[p].q[j]
MoreFresh(p, k) ==
    /\ k \in Slots /\ k \notin ToRead(cq[p], cq_pos[p])
    /\ ToRead(cq'[p], cq_pos'[p]) = ToRead(cq[p], cq_pos[p]) \union {k}
    /\ \A j \in ToRead(cq[p], cq_pos[p]) : cq'[p].q[j] = cq[p].q[j]
LessFresh(p, k) ==
    /\ k \in ToRead(cq[p], cq_pos[p])
    /\ ToRead(cq'[p], cq_pos'[p]) = ToRead(cq[p], cq_pos[p]) \ {k}
    /\ \A j \in ToRead(cq[p], cq_pos[p]) : cq'[p].q[j] = cq[p].q[j]

\* The receive slots that completions refer to keep their payload.
FreshSlotsKept ==
    \A q \in QPs : \A k \in ToRead(cq[q], cq_pos[q]) :
        ~cq[q].q[k].is_nack =>
            recv_slots'[q[1]][cq[q].q[k].slot_idx] = recv_slots[q[1]][cq[q].q[k].slot_idx]

\* Nothing is served.
LEMMA TodoSame ==
    ASSUME \A p \in QPs : SameTodo(p)
    PROVE  \A c : Sent(c)' = Sent(c) /\ \A s : WqHolders(c, s)' = WqHolders(c, s)
<1>1. ASSUME NEW c PROVE Sent(c)' = Sent(c)
  BY DEF SameTodo, Sent
<1>2. ASSUME NEW c, NEW s PROVE WqHolders(c, s)' = WqHolders(c, s)
  BY DEF SameTodo, WqHolders
<1>3. QED
  BY <1>1, <1>2

\* An entry joins what is to be served.
LEMMA TodoGrows ==
    ASSUME NEW q \in QPs, NEW k, MoreTodo(q, k), \A p \in QPs \ {q} : SameTodo(p)
    PROVE  LET e == wq'[q].q[k]
           IN \A c : /\ Sent(c)' = Sent(c) \union
                           (IF e.op = "s" /\ e.buf.of = c THEN {<<q, k>>} ELSE {})
                     /\ \A s : WqHolders(c, s)' = WqHolders(c, s) \union
                           (IF e.op = "g" /\ q[1] = c /\ e.slot_idx = s THEN {<<q, k>>} ELSE {})
<1> DEFINE e == wq'[q].q[k]
<1>1. ASSUME NEW c
      PROVE  Sent(c)' = Sent(c) \union (IF e.op = "s" /\ e.buf.of = c THEN {<<q, k>>} ELSE {})
  <2>1. ASSUME NEW p \in QPs, NEW j \in Slots
        PROVE  <<p, j>> \in Sent(c)' <=>
                 \/ <<p, j>> \in Sent(c)
                 \/ p = q /\ j = k /\ e.op = "s" /\ e.buf.of = c
    BY DEF SameTodo, MoreTodo, Sent
  <2>2. Sent(c)' \subseteq QPs \X Slots /\ Sent(c) \subseteq QPs \X Slots /\ k \in Slots
    BY DEF Sent, MoreTodo
  <2> HIDE DEF e
  <2>3. QED
    BY <2>1, <2>2
<1>2. ASSUME NEW n, NEW s
      PROVE  WqHolders(n, s)' = WqHolders(n, s) \union
               (IF e.op = "g" /\ q[1] = n /\ e.slot_idx = s THEN {<<q, k>>} ELSE {})
  <2>1. ASSUME NEW p \in QPs, NEW j \in Slots
        PROVE  <<p, j>> \in WqHolders(n, s)' <=>
                 \/ <<p, j>> \in WqHolders(n, s)
                 \/ p = q /\ j = k /\ e.op = "g" /\ q[1] = n /\ e.slot_idx = s
    BY DEF SameTodo, MoreTodo, WqHolders
  <2>2. WqHolders(n, s)' \subseteq QPs \X Slots /\ WqHolders(n, s) \subseteq QPs \X Slots /\ k \in Slots
    BY DEF WqHolders, MoreTodo
  <2> HIDE DEF e
  <2>3. QED
    BY <2>1, <2>2
<1>3. QED
  BY <1>1, <1>2

\* An entry leaves what is to be served.
LEMMA TodoShrinks ==
    ASSUME NEW q \in QPs, NEW k, LessTodo(q, k), \A p \in QPs \ {q} : SameTodo(p),
           NEW e, e = wq[q].q[k]
    PROVE  /\ \A c : /\ Sent(c)' = Sent(c) \ {<<q, k>>}
                     /\ <<q, k>> \in Sent(c) <=> e.op = "s" /\ e.buf.of = c
           /\ \A n, s : /\ WqHolders(n, s)' = WqHolders(n, s) \ {<<q, k>>}
                        /\ <<q, k>> \in WqHolders(n, s) <=>
                              e.op = "g" /\ q[1] = n /\ e.slot_idx = s
<1>1. k \in Slots
  BY DEF LessTodo, ToServe, Stretch
<1>2. ASSUME NEW c
      PROVE  /\ Sent(c)' = Sent(c) \ {<<q, k>>}
             /\ <<q, k>> \in Sent(c) <=> wq[q].q[k].op = "s" /\ wq[q].q[k].buf.of = c
  <2>1. ASSUME NEW p \in QPs, NEW j \in Slots
        PROVE  <<p, j>> \in Sent(c)' <=> <<p, j>> \in Sent(c) /\ <<p, j>> # <<q, k>>
    BY DEF SameTodo, LessTodo, Sent
  <2>2. Sent(c)' \subseteq QPs \X Slots /\ Sent(c) \subseteq QPs \X Slots
    BY DEF Sent
  <2>3. <<q, k>> \in Sent(c) <=> wq[q].q[k].op = "s" /\ wq[q].q[k].buf.of = c
    BY <1>1 DEF LessTodo, Sent
  <2>4. QED
    BY <2>1, <2>2, <2>3
<1>3. ASSUME NEW n, NEW s
      PROVE  /\ WqHolders(n, s)' = WqHolders(n, s) \ {<<q, k>>}
             /\ <<q, k>> \in WqHolders(n, s) <=>
                  wq[q].q[k].op = "g" /\ q[1] = n /\ wq[q].q[k].slot_idx = s
  <2>1. ASSUME NEW p \in QPs, NEW j \in Slots
        PROVE  <<p, j>> \in WqHolders(n, s)' <=> <<p, j>> \in WqHolders(n, s) /\ <<p, j>> # <<q, k>>
    BY DEF SameTodo, LessTodo, WqHolders
  <2>2. WqHolders(n, s)' \subseteq QPs \X Slots /\ WqHolders(n, s) \subseteq QPs \X Slots
    BY DEF WqHolders
  <2>3. <<q, k>> \in WqHolders(n, s) <=>
          wq[q].q[k].op = "g" /\ q[1] = n /\ wq[q].q[k].slot_idx = s
    BY <1>1 DEF LessTodo, WqHolders
  <2>4. QED
    BY <2>1, <2>2, <2>3
<1>4. QED
  BY <1>2, <1>3
\* No completion is written or polled.
LEMMA FreshSame ==
    ASSUME \A p \in QPs : SameFresh(p), FreshSlotsKept,
           \A p \in Servers : \A k \in Slots : ~cq[p].q[k].is_nack
    PROVE  /\ \A c : Given(c)' = Given(c) /\ \A s : CqHolders(c, s)' = CqHolders(c, s)
           /\ \A c \in QPs : Answers(c)' = Answers(c)
<1>1. \A q, k : k \in ToRead(cq[q], cq_pos[q]) => k \in Slots
  BY DEF ToRead, Stretch
<1>2. ASSUME NEW c PROVE Given(c)' = Given(c)
  <2>1. ASSUME NEW p \in Servers, NEW j \in Slots
        PROVE  <<p, j>> \in Given(c)' <=> <<p, j>> \in Given(c)
    <3>1. p \in QPs
      BY Roles
    <3>2. j \in ToRead(cq[p], cq_pos[p]) =>
             recv_slots'[p[1]][cq[p].q[j].slot_idx] = recv_slots[p[1]][cq[p].q[j].slot_idx]
      BY <3>1 DEF FreshSlotsKept
    <3>3. /\ j \in ToRead(cq'[p], cq_pos'[p]) <=> j \in ToRead(cq[p], cq_pos[p])
          /\ j \in ToRead(cq[p], cq_pos[p]) => cq'[p].q[j] = cq[p].q[j]
      BY <3>1 DEF SameFresh
    <3>4. <<p, j>> \in Given(c) <=>
             j \in ToRead(cq[p], cq_pos[p]) /\ recv_slots[p[1]][cq[p].q[j].slot_idx].of = c
      BY DEF Given
    <3>5. <<p, j>> \in Given(c)' <=>
             j \in ToRead(cq'[p], cq_pos'[p]) /\ recv_slots'[p[1]][cq'[p].q[j].slot_idx].of = c
      BY DEF Given
    <3>6. QED
      BY <3>2, <3>3, <3>4, <3>5
  <2>2. \A x \in Servers \X Slots : x = <<x[1], x[2]>> /\ x[1] \in Servers /\ x[2] \in Slots
    OBVIOUS
  <2>3. Given(c)' \subseteq Servers \X Slots /\ Given(c) \subseteq Servers \X Slots
    BY DEF Given
  <2>4. \A x : x \in Given(c)' <=> x \in Given(c)
    BY <2>1, <2>2, <2>3
  <2>5. QED
    BY <2>4
<1>3. ASSUME NEW c, NEW s PROVE CqHolders(c, s)' = CqHolders(c, s)
  BY DEF SameFresh, CqHolders
<1>4. \A c \in QPs : Answers(c)' = Answers(c)
  BY DEF SameFresh, Answers
<1>5. QED
  BY <1>2, <1>3, <1>4

\* Completion e of queue pair q, in slot k, is one more to be read.
GivenGrows(q, k, e) ==
    \A c : Given(c)' = Given(c) \union
        (IF q \in Servers /\ recv_slots'[q[1]][e.slot_idx].of = c THEN {<<q, k>>} ELSE {})
CqHoldersGrow(q, k, e) ==
    \A n, s : CqHolders(n, s)' = CqHolders(n, s) \union
        (IF q[1] = n /\ ~e.is_nack /\ e.slot_idx = s THEN {<<q, k>>} ELSE {})
AnswersGrow(q, k) ==
    (\A c \in QPs \ {q} : Answers(c)' = Answers(c)) /\ Answers(q)' = Answers(q) \union {k}

\* A completion is written.
LEMMA FreshGrows ==
    ASSUME NEW q \in QPs, NEW k, MoreFresh(q, k), \A p \in QPs \ {q} : SameFresh(p),
           FreshSlotsKept, \A p \in Servers : \A j \in Slots : ~cq[p].q[j].is_nack,
           NEW e, e = cq'[q].q[k]
    PROVE  GivenGrows(q, k, e) /\ CqHoldersGrow(q, k, e) /\ AnswersGrow(q, k)
<1>1. \A p, j : j \in ToRead(cq[p], cq_pos[p]) => j \in Slots
  BY DEF ToRead, Stretch
<1>2. ASSUME NEW c
      PROVE  Given(c)' = Given(c) \union
               (IF q \in Servers /\ recv_slots'[q[1]][e.slot_idx].of = c THEN {<<q, k>>} ELSE {})
  <2>1. ASSUME NEW p \in Servers, NEW j \in Slots
        PROVE  <<p, j>> \in Given(c)' <=>
                 \/ <<p, j>> \in Given(c)
                 \/ p = q /\ j = k /\ recv_slots'[q[1]][e.slot_idx].of = c
    <3>1. p \in QPs
      BY Roles
    <3>2. j \in ToRead(cq[p], cq_pos[p]) =>
             recv_slots'[p[1]][cq[p].q[j].slot_idx] = recv_slots[p[1]][cq[p].q[j].slot_idx]
      BY <3>1 DEF FreshSlotsKept
    <3>3. j \in ToRead(cq[p], cq_pos[p]) => cq'[p].q[j] = cq[p].q[j]
      BY <3>1 DEF SameFresh, MoreFresh
    <3>4. j \in ToRead(cq'[p], cq_pos'[p]) <=> j \in ToRead(cq[p], cq_pos[p]) \/ (p = q /\ j = k)
      BY <3>1 DEF SameFresh, MoreFresh
    <3>5. <<p, j>> \in Given(c) <=>
             j \in ToRead(cq[p], cq_pos[p]) /\ recv_slots[p[1]][cq[p].q[j].slot_idx].of = c
      BY DEF Given
    <3>6. <<p, j>> \in Given(c)' <=>
             j \in ToRead(cq'[p], cq_pos'[p]) /\ recv_slots'[p[1]][cq'[p].q[j].slot_idx].of = c
      BY DEF Given
    <3>7. k \notin ToRead(cq[q], cq_pos[q])
      BY DEF MoreFresh
    <3>8. QED
      BY <3>2, <3>3, <3>4, <3>5, <3>6, <3>7
  <2>2. Given(c)' \subseteq Servers \X Slots
    BY Zenon DEF Given
  <2>3. Given(c) \subseteq Servers \X Slots
    BY Zenon DEF Given
  <2>4. k \in Slots
    BY DEF MoreFresh
  <2>5. QED
    BY <2>1, <2>2, <2>3, <2>4
<1>3. ASSUME NEW n, NEW s
      PROVE  CqHolders(n, s)' = CqHolders(n, s) \union
               (IF q[1] = n /\ ~e.is_nack /\ e.slot_idx = s THEN {<<q, k>>} ELSE {})
  <2>1. ASSUME NEW p \in QPs, NEW j \in Slots
        PROVE  <<p, j>> \in CqHolders(n, s)' <=>
                 \/ <<p, j>> \in CqHolders(n, s)
                 \/ p = q /\ j = k /\ q[1] = n /\ ~e.is_nack /\ e.slot_idx = s
    BY DEF SameFresh, MoreFresh, CqHolders
  <2>2. CqHolders(n, s)' \subseteq QPs \X Slots /\ CqHolders(n, s) \subseteq QPs \X Slots /\ k \in Slots
    BY DEF CqHolders, MoreFresh
  <2>3. QED
    BY <2>1, <2>2
<1>4. (\A c \in QPs \ {q} : Answers(c)' = Answers(c)) /\ Answers(q)' = Answers(q) \union {k}
  BY DEF SameFresh, MoreFresh, Answers
<1>5. QED
  BY <1>2, <1>3, <1>4 DEF GivenGrows, CqHoldersGrow, AnswersGrow

\* A completion is polled.
LEMMA FreshShrinks ==
    ASSUME NEW q \in QPs, NEW k, LessFresh(q, k), \A p \in QPs \ {q} : SameFresh(p),
           recv_slots' = recv_slots, NEW e, e = cq[q].q[k]
    PROVE  /\ \A c : /\ Given(c)' = Given(c) \ {<<q, k>>}
                     /\ <<q, k>> \in Given(c) <=>
                           q \in Servers /\ recv_slots[q[1]][e.slot_idx].of = c
           /\ \A n, s : /\ CqHolders(n, s)' = CqHolders(n, s) \ {<<q, k>>}
                        /\ <<q, k>> \in CqHolders(n, s) <=>
                              q[1] = n /\ ~e.is_nack /\ e.slot_idx = s
           /\ \A c \in QPs \ {q} : Answers(c)' = Answers(c)
           /\ k \in Answers(q) /\ Answers(q)' = Answers(q) \ {k}
<1>1. k \in Slots
  BY DEF LessFresh, ToRead, Stretch
<1>2. ASSUME NEW c
      PROVE  /\ Given(c)' = Given(c) \ {<<q, k>>}
             /\ <<q, k>> \in Given(c) <=>
                   q \in Servers /\ recv_slots[q[1]][cq[q].q[k].slot_idx].of = c
  <2>1. ASSUME NEW p \in Servers, NEW j \in Slots
        PROVE  <<p, j>> \in Given(c)' <=> <<p, j>> \in Given(c) /\ <<p, j>> # <<q, k>>
    <3>1. CASE p = q
      BY <3>1 DEF LessFresh, Given
    <3>2. CASE p # q
      <4>1. SameFresh(p)
        BY <3>2, Roles
      <4>2. QED
        BY <3>2, <4>1 DEF SameFresh, Given
    <3>3. QED
      BY <3>1, <3>2
  <2>2. Given(c)' \subseteq Servers \X Slots
    BY Zenon DEF Given
  <2>3. Given(c) \subseteq Servers \X Slots
    BY Zenon DEF Given
  <2>4. <<q, k>> \in Given(c) <=> q \in Servers /\ recv_slots[q[1]][cq[q].q[k].slot_idx].of = c
    BY <1>1 DEF LessFresh, Given
  <2>5. QED
    BY <2>1, <2>2, <2>3, <2>4
<1>3. ASSUME NEW n, NEW s
      PROVE  /\ CqHolders(n, s)' = CqHolders(n, s) \ {<<q, k>>}
             /\ <<q, k>> \in CqHolders(n, s) <=>
                   q[1] = n /\ ~cq[q].q[k].is_nack /\ cq[q].q[k].slot_idx = s
  <2>1. ASSUME NEW p \in QPs, NEW j \in Slots
        PROVE  <<p, j>> \in CqHolders(n, s)' <=> <<p, j>> \in CqHolders(n, s) /\ <<p, j>> # <<q, k>>
    BY DEF SameFresh, LessFresh, CqHolders
  <2>2. CqHolders(n, s)' \subseteq QPs \X Slots /\ CqHolders(n, s) \subseteq QPs \X Slots
    BY DEF CqHolders
  <2>3. <<q, k>> \in CqHolders(n, s) <=>
          q[1] = n /\ ~cq[q].q[k].is_nack /\ cq[q].q[k].slot_idx = s
    BY <1>1 DEF LessFresh, CqHolders
  <2>4. QED
    BY <2>1, <2>2, <2>3
<1>4. (\A c \in QPs \ {q} : Answers(c)' = Answers(c))
      /\ k \in Answers(q) /\ Answers(q)' = Answers(q) \ {k}
  BY DEF SameFresh, LessFresh, Answers
<1>5. QED
  BY <1>2, <1>3, <1>4

\* One thread goes on.
LEMMA ThreadSteps ==
    ASSUME NEW q \in QPs, \A p \in QPs \ {q} : thread'[p] = thread[p], NEW t, t = thread'[q]
    PROVE  /\ \A c : Served(c)' = (Served(c) \ {q}) \union
                 (IF q \in Servers /\ t.pc \in Serving /\ t.arg.of = c THEN {q} ELSE {})
           /\ \A n, s : ThreadHolders(n, s)' = (ThreadHolders(n, s) \ {q}) \union
                 (IF q[1] = n /\ Holds(t) /\ t.slot = s THEN {q} ELSE {})
<1>1. ASSUME NEW c
      PROVE  Served(c)' = (Served(c) \ {q}) \union
               (IF q \in Servers /\ t.pc \in Serving /\ t.arg.of = c THEN {q} ELSE {})
  <2>1. ASSUME NEW p \in Servers
        PROVE  p \in Served(c)' <=>
                 \/ p \in Served(c) /\ p # q
                 \/ p = q /\ t.pc \in Serving /\ t.arg.of = c
    BY Roles DEF Served
  <2>2. Served(c)' \subseteq Servers /\ Served(c) \subseteq Servers
    BY DEF Served
  <2>3. QED
    BY <2>1, <2>2
<1>2. ASSUME NEW n, NEW s
      PROVE  ThreadHolders(n, s)' = (ThreadHolders(n, s) \ {q}) \union
               (IF q[1] = n /\ Holds(t) /\ t.slot = s THEN {q} ELSE {})
  <2>1. ASSUME NEW p \in QPs
        PROVE  p \in ThreadHolders(n, s)' <=>
                 \/ p \in ThreadHolders(n, s) /\ p # q
                 \/ p = q /\ q[1] = n /\ Holds(t) /\ t.slot = s
    BY DEF ThreadHolders
  <2>2. ThreadHolders(n, s)' \subseteq QPs /\ ThreadHolders(n, s) \subseteq QPs
    BY DEF ThreadHolders
  <2>3. QED
    BY <2>1, <2>2
<1>3. QED
  BY <1>1, <1>2
(***************************************************************************)
(* Messages.                                                               *)
(***************************************************************************)

\* A message is sent, or taken.
Sends(ch, ch2, i, n, m) ==
    /\ ch2[i][n] = Append(ch[i][n], m)
    /\ \A j, h \in Nodes : j # i \/ h # n => ch2[j][h] = ch[j][h]
Takes(ch, ch2, i, n) ==
    /\ ch2[i][n] = Tail(ch[i][n])
    /\ \A j, h \in Nodes : j # i \/ h # n => ch2[j][h] = ch[j][h]

\* What that does to the messages, whose places may change, and to the traces.
SentMessages(ch, ch2, i, n, m) ==
    \A j, h \in Nodes : \A k \in 1 .. Len(ch2[j][h]) :
        \/ \E k2 \in 1 .. Len(ch[j][h]) : ch2[j][h][k] = ch[j][h][k2]
        \/ j = i /\ h = n /\ ch2[j][h][k] = m
SentTraces(ch, ch2, n, m) ==
    \A c : IF IsTrace(m, n, c)
           THEN \E x : FlyingIn(ch2, c) = FlyingIn(ch, c) \union {x}
           ELSE FlyingIn(ch2, c) = FlyingIn(ch, c)
TakenMessages(ch, ch2, i, n) ==
    \A j, h \in Nodes : \A k \in 1 .. Len(ch2[j][h]) :
        \E k2 \in 1 .. Len(ch[j][h]) : ch2[j][h][k] = ch[j][h][k2]
TakenTraces(ch, ch2, i, n, m) ==
    \A c : /\ FlyingIn(ch, c) = {} => FlyingIn(ch2, c) = {}
           /\ Single(FlyingIn(ch, c)) =>
                 IF IsTrace(m, n, c) THEN FlyingIn(ch2, c) = {}
                                     ELSE Single(FlyingIn(ch2, c))
           /\ IsTrace(m, n, c) => <<i, n, 1>> \in FlyingIn(ch, c)

\* A trace in the channels, pointwise.
LEMMA FlyingTrace ==
    ASSUME NEW ch \in NetType, NEW c
    PROVE  /\ \A x \in FlyingIn(ch, c) : \E j, h \in Nodes, k \in Nat : x = <<j, h, k>>
           /\ \A j, h \in Nodes : \A k \in Nat :
                <<j, h, k>> \in FlyingIn(ch, c) <=>
                   k \in 1 .. Len(ch[j][h]) /\ IsTrace(ch[j][h][k], h, c)
<1>1. \A j, h \in Nodes : ch[j][h] \in Seq(MessageType) /\ DOMAIN ch[j][h] = 1 .. Len(ch[j][h])
  BY DEF NetType
<1>2. ASSUME NEW x \in FlyingIn(ch, c) PROVE \E j, h \in Nodes, k \in Nat : x = <<j, h, k>>
  <2>1. x \in Nodes \X Nodes \X Nat
    BY DEF FlyingIn
  <2>2. x[1] \in Nodes /\ x[2] \in Nodes /\ x[3] \in Nat /\ x = <<x[1], x[2], x[3]>>
    BY <2>1
  <2>3. QED
    BY <2>2
<1>3. ASSUME NEW j \in Nodes, NEW h \in Nodes, NEW k \in Nat
      PROVE  <<j, h, k>> \in FlyingIn(ch, c) <=>
                k \in DOMAIN ch[j][h] /\ IsTrace(ch[j][h][k], h, c)
  BY DEF FlyingIn
<1>4. QED
  BY <1>1, <1>2, <1>3

\* The daemon takes the first message of a channel: the places of the others
\* move up by one.
LEMMA FlyingTaken ==
    ASSUME NEW ch \in NetType, NEW i \in Nodes, NEW n \in Nodes, ch[i][n] # << >>,
           NEW ch2 \in NetType, Takes(ch, ch2, i, n)
    PROVE  /\ TakenMessages(ch, ch2, i, n)
           /\ \E k2 \in 1 .. Len(ch[i][n]) : Head(ch[i][n]) = ch[i][n][k2]
           /\ TakenTraces(ch, ch2, i, n, Head(ch[i][n]))
<1> DEFINE Up(j, h, k) == IF j = i /\ h = n THEN k + 1 ELSE k
<1>1. \A j, h \in Nodes : ch[j][h] \in Seq(MessageType) /\ Len(ch[j][h]) \in Nat
  BY DEF NetType
<1>2. ch2[i][n] = Tail(ch[i][n]) /\ \A j, h \in Nodes : j # i \/ h # n => ch2[j][h] = ch[j][h]
  BY DEF Takes
<1>3. /\ Len(ch[i][n]) \in Nat \ {0} /\ Head(ch[i][n]) = ch[i][n][1]
      /\ Len(ch2[i][n]) = Len(ch[i][n]) - 1
      /\ \A k \in 1 .. Len(ch[i][n]) - 1 : ch2[i][n][k] = ch[i][n][k + 1]
  <2>1. PICK T \in Seq(MessageType) : T = ch[i][n]
    BY <1>1
  <2>2. /\ Len(T) \in Nat \ {0} /\ Head(T) = T[1] /\ Len(Tail(T)) = Len(T) - 1
        /\ \A k \in 1 .. Len(T) - 1 : Tail(T)[k] = T[k + 1]
    BY <2>1
  <2>3. QED
    BY <1>2, <2>1, <2>2
<1>4. ASSUME NEW j \in Nodes, NEW h \in Nodes, NEW k \in Nat \ {0}
      PROVE  /\ k \in 1 .. Len(ch2[j][h]) <=> Up(j, h, k) \in 1 .. Len(ch[j][h])
             /\ k \in 1 .. Len(ch2[j][h]) => ch2[j][h][k] = ch[j][h][Up(j, h, k)]
  <2>1. CASE j = i /\ h = n
    BY <1>1, <1>3, <2>1
  <2>2. CASE j # i \/ h # n
    <3>1. ch2[j][h] = ch[j][h]
      BY <1>2, <2>2
    <3>2. QED
      BY <1>1, <2>2, <3>1
  <2>3. QED
    BY <2>1, <2>2
<1>5. ASSUME NEW j \in Nodes, NEW h \in Nodes, NEW k \in 1 .. Len(ch2[j][h])
      PROVE  \E k2 \in 1 .. Len(ch[j][h]) : ch2[j][h][k] = ch[j][h][k2]
  <2>1. k \in Nat \ {0}
    OBVIOUS
  <2>2. Up(j, h, k) \in 1 .. Len(ch[j][h]) /\ ch2[j][h][k] = ch[j][h][Up(j, h, k)]
    BY <1>4, <2>1
  <2> HIDE DEF Up
  <2>3. QED
    BY <2>2
<1>6. ASSUME NEW c, NEW j \in Nodes, NEW h \in Nodes, NEW k \in Nat \ {0}
      PROVE  <<j, h, k>> \in FlyingIn(ch2, c) <=> <<j, h, Up(j, h, k)>> \in FlyingIn(ch, c)
  <2>1. PICK u \in Nat : u = Up(j, h, k)
    OBVIOUS
  <2> HIDE DEF Up
  <2>2. <<j, h, k>> \in FlyingIn(ch2, c) <=> k \in 1 .. Len(ch2[j][h]) /\ IsTrace(ch2[j][h][k], h, c)
    BY FlyingTrace
  <2>3. <<j, h, u>> \in FlyingIn(ch, c) <=> u \in 1 .. Len(ch[j][h]) /\ IsTrace(ch[j][h][u], h, c)
    BY FlyingTrace
  <2>4. QED
    BY <1>4, <2>1, <2>2, <2>3
<1>7. \A c : \A j, h \in Nodes : <<j, h, 0>> \notin FlyingIn(ch2, c) /\ <<j, h, 0>> \notin FlyingIn(ch, c)
  <2>1. \A m : 0 \notin 1 .. m
    OBVIOUS
  <2>2. 0 \in Nat
    OBVIOUS
  <2>3. QED
    BY <2>1, <2>2, FlyingTrace
<1>8. ASSUME NEW c, NEW x \in FlyingIn(ch2, c)
      PROVE  \E j, h \in Nodes, k \in Nat \ {0} :
                x = <<j, h, k>> /\ <<j, h, Up(j, h, k)>> \in FlyingIn(ch, c)
  <2>1. PICK j, h \in Nodes, k \in Nat : x = <<j, h, k>>
    BY FlyingTrace
  <2>2. k # 0
    BY <1>7, <2>1
  <2>3. k \in Nat \ {0} /\ <<j, h, k>> \in FlyingIn(ch2, c)
    BY <2>1, <2>2
  <2> HIDE DEF Up
  <2>4. <<j, h, Up(j, h, k)>> \in FlyingIn(ch, c)
    BY <1>6, <2>3
  <2>5. QED
    BY <2>1, <2>3, <2>4
<1>9. ASSUME NEW c, FlyingIn(ch, c) = {} PROVE FlyingIn(ch2, c) = {}
  BY <1>8, <1>9
<1>10. ASSUME NEW c, IsTrace(Head(ch[i][n]), n, c) PROVE <<i, n, 1>> \in FlyingIn(ch, c)
  <2>1. 1 \in Nat /\ 1 \in 1 .. Len(ch[i][n])
    BY <1>3
  <2>2. IsTrace(ch[i][n][1], n, c)
    BY <1>3, <1>10
  <2>3. QED
    BY <2>1, <2>2, FlyingTrace
<1>11. ASSUME NEW c, Single(FlyingIn(ch, c)), IsTrace(Head(ch[i][n]), n, c)
       PROVE  FlyingIn(ch2, c) = {}
  <2>1. FlyingIn(ch, c) = {<<i, n, 1>>}
    BY <1>10, <1>11 DEF Single
  <2>2. \A j, h, k : <<j, h, k>> \in FlyingIn(ch, c) => j = i /\ h = n /\ k = 1
    BY <2>1
  <2>3. SUFFICES ASSUME NEW x \in FlyingIn(ch2, c) PROVE FALSE
    OBVIOUS
  <2>4. PICK j, h \in Nodes, k \in Nat \ {0} : <<j, h, Up(j, h, k)>> \in FlyingIn(ch, c)
    BY <1>8
  <2>5. Up(j, h, k) = 1 /\ j = i /\ h = n
    BY <2>2, <2>4
  <2>6. QED
    BY <2>5
<1>12. ASSUME NEW c, Single(FlyingIn(ch, c)), ~IsTrace(Head(ch[i][n]), n, c)
       PROVE  Single(FlyingIn(ch2, c))
  <2>1. PICK y : FlyingIn(ch, c) = {y}
    BY <1>12 DEF Single
  <2>2. PICK j, h \in Nodes, k \in Nat : y = <<j, h, k>>
    BY <2>1, FlyingTrace
  <2>3. k # 0 /\ ~(j = i /\ h = n /\ k = 1)
    BY <1>3, <1>7, <1>12, <2>1, <2>2, FlyingTrace
  <2> DEFINE k2 == IF j = i /\ h = n THEN k - 1 ELSE k
  <2>4. k2 \in Nat \ {0} /\ Up(j, h, k2) = k
    BY <2>3
  <2>5. <<j, h, k2>> \in FlyingIn(ch2, c)
    BY <1>6, <2>1, <2>2, <2>4
  <2>6. ASSUME NEW x \in FlyingIn(ch2, c) PROVE x = <<j, h, k2>>
    <3>1. PICK j3, h3 \in Nodes, k3 \in Nat \ {0} :
             x = <<j3, h3, k3>> /\ <<j3, h3, Up(j3, h3, k3)>> \in FlyingIn(ch, c)
      BY <1>8
    <3>2. <<j3, h3, Up(j3, h3, k3)>> = <<j, h, k>>
      BY <2>1, <2>2, <3>1
    <3>3. j3 = j /\ h3 = h /\ Up(j3, h3, k3) = k
      BY <3>2
    <3>4. k3 = k2
      BY <2>2, <3>3
    <3>5. QED
      BY <3>1, <3>3, <3>4
  <2> HIDE DEF k2
  <2>7. FlyingIn(ch2, c) = {<<j, h, k2>>}
    BY <2>5, <2>6
  <2>8. QED
    BY <2>7 DEF Single
<1> HIDE DEF Up
<1>13. \E k2 \in 1 .. Len(ch[i][n]) : Head(ch[i][n]) = ch[i][n][k2]
  <2>1. 1 \in 1 .. Len(ch[i][n])
    BY <1>3
  <2>2. QED
    BY <1>3, <2>1
<1>14. QED
  BY <1>5, <1>9, <1>10, <1>11, <1>12, <1>13 DEF TakenMessages, TakenTraces

\* A message is sent.
LEMMA FlyingSent ==
    ASSUME NEW ch \in NetType, NEW i \in Nodes, NEW n \in Nodes, NEW m \in MessageType,
           NEW ch2 \in NetType, Sends(ch, ch2, i, n, m)
    PROVE  SentMessages(ch, ch2, i, n, m) /\ SentTraces(ch, ch2, n, m)
<1> DEFINE l == Len(ch[i][n]) + 1
<1>1. \A j, h \in Nodes : ch[j][h] \in Seq(MessageType) /\ Len(ch[j][h]) \in Nat
  BY DEF NetType
<1>2. ch2[i][n] = Append(ch[i][n], m)
      /\ \A j, h \in Nodes : j # i \/ h # n => ch2[j][h] = ch[j][h]
  BY DEF Sends
<1>3. /\ Len(ch2[i][n]) = l /\ ch2[i][n][l] = m /\ l \in Nat
      /\ \A k \in 1 .. Len(ch[i][n]) : ch2[i][n][k] = ch[i][n][k]
  BY <1>1, <1>2
<1>4. ASSUME NEW j \in Nodes, NEW h \in Nodes, NEW k \in Nat
      PROVE  /\ k \in 1 .. Len(ch2[j][h]) <=> k \in 1 .. Len(ch[j][h]) \/ (j = i /\ h = n /\ k = l)
             /\ k \in 1 .. Len(ch[j][h]) => ch2[j][h][k] = ch[j][h][k]
  <2>1. CASE j = i /\ h = n
    <3>1. PICK u \in Nat : u = Len(ch[i][n])
      BY <1>1
    <3>2. Len(ch2[j][h]) = u + 1 /\ Len(ch[j][h]) = u /\ l = u + 1
      BY <1>3, <2>1, <3>1
    <3>3. k \in 1 .. u + 1 <=> k \in 1 .. u \/ k = u + 1
      BY <3>1
    <3> HIDE DEF l
    <3>4. QED
      BY <1>3, <2>1, <3>1, <3>2, <3>3
  <2>2. CASE j # i \/ h # n
    <3>1. ch2[j][h] = ch[j][h]
      BY <1>2, <2>2
    <3>2. QED
      BY <1>1, <2>2, <3>1
  <2>3. QED
    BY <2>1, <2>2
<1>5. ASSUME NEW j \in Nodes, NEW h \in Nodes, NEW k \in 1 .. Len(ch2[j][h])
      PROVE  \/ \E k2 \in 1 .. Len(ch[j][h]) : ch2[j][h][k] = ch[j][h][k2]
             \/ j = i /\ h = n /\ ch2[j][h][k] = m
  <2> HIDE DEF l
  <2> QED BY <1>3, <1>4
<1>6. ASSUME NEW c
      PROVE  FlyingIn(ch2, c) = FlyingIn(ch, c) \union
                                  (IF IsTrace(m, n, c) THEN {<<i, n, l>>} ELSE {})
  <2> HIDE DEF l
  <2>1. ASSUME NEW j \in Nodes, NEW h \in Nodes, NEW k \in Nat
        PROVE  <<j, h, k>> \in FlyingIn(ch2, c) <=>
                 \/ <<j, h, k>> \in FlyingIn(ch, c)
                 \/ j = i /\ h = n /\ k = l /\ IsTrace(m, n, c)
    <3>1. l \notin 1 .. Len(ch[i][n])
      BY <1>1 DEF l
    <3>2. <<j, h, k>> \in FlyingIn(ch2, c) <=> k \in 1 .. Len(ch2[j][h]) /\ IsTrace(ch2[j][h][k], h, c)
      BY FlyingTrace
    <3>3. <<j, h, k>> \in FlyingIn(ch, c) <=> k \in 1 .. Len(ch[j][h]) /\ IsTrace(ch[j][h][k], h, c)
      BY FlyingTrace
    <3>4. QED
      BY <1>3, <1>4, <3>1, <3>2, <3>3
  <2>2. \A x : x \in FlyingIn(ch2, c) \/ x \in FlyingIn(ch, c)
                => \E j, h \in Nodes, k \in Nat : x = <<j, h, k>>
    BY FlyingTrace
  <2>3. ASSUME NEW x
        PROVE  x \in FlyingIn(ch2, c) <=> x \in FlyingIn(ch, c) \/ (x = <<i, n, l>> /\ IsTrace(m, n, c))
    <3>1. CASE \E j, h \in Nodes, k \in Nat : x = <<j, h, k>>
      <4>1. PICK j, h \in Nodes, k \in Nat : x = <<j, h, k>>
        BY <3>1
      <4>2. x = <<i, n, l>> <=> j = i /\ h = n /\ k = l
        BY <4>1
      <4>3. QED
        BY <2>1, <4>1, <4>2
    <3>2. CASE ~(\E j, h \in Nodes, k \in Nat : x = <<j, h, k>>)
      BY <1>3, <2>2, <3>2
    <3>3. QED
      BY <3>1, <3>2
  <2>4. QED
    BY <2>3
<1> HIDE DEF l
<1>7. \A c : IF IsTrace(m, n, c)
             THEN \E x : FlyingIn(ch2, c) = FlyingIn(ch, c) \union {x}
             ELSE FlyingIn(ch2, c) = FlyingIn(ch, c)
  BY <1>6
<1>8. QED
  BY <1>5, <1>7 DEF SentMessages, SentTraces
(***************************************************************************)
(* The shared receive queue: which entries are in use, and which wait.     *)
(***************************************************************************)

\* The next slot, without the remainder.
LEMMA Next1Is ==
    ASSUME NEW i \in SrqSlots
    PROVE  Next1(i) = IF i + 1 < MAX_NUM_SRQ_SLOTS THEN i + 1 ELSE 0
<1> DEFINE M == MAX_NUM_SRQ_SLOTS
           x == i + 1
<1>1. M \in Nat \ {0} /\ i \in 0 .. M - 1
  BY RpcAssumption DEF SrqSlots
<1>2. x \in 0 .. 2 * M - 1 /\ x <= M
  BY <1>1
<1>3. Next1(i) = x % M
  BY DEF Next1
<1> HIDE DEF M, x
<1>4. x % M = IF x < M THEN x ELSE x - M
  BY <1>1, <1>2, Wrap
<1>5. QED
  BY <1>1, <1>2, <1>3, <1>4 DEF M, x

\* The slots are the numbers below MAX_NUM_SRQ_SLOTS.
LEMMA SrqIndices ==
    /\ MAX_NUM_SRQ_SLOTS \in Nat \ {0}
    /\ \A k \in SrqSlots : k \in Nat /\ k < MAX_NUM_SRQ_SLOTS
BY RpcAssumption DEF SrqSlots

\* Every entry in use is in the queue.
UsedInQueue(s) == \A k \in SrqSlots : s.q[k].valid => k \in InQueue(s)

\* A message takes the entry at the head, which was not in use; if it waits for a
\* core it is the last to wait.
LEMMA EnqueueEffect ==
    ASSUME NEW s \in SrqType, ~s.full, UsedInQueue(s), NEW e \in SrqEntries,
           NEW s2, s2 = enqueue_in_srq(s, e)
    PROVE  /\ s.head \in SrqSlots /\ ~s.q[s.head].valid
           /\ \A k \in SrqSlots : s2.q[k] = IF k = s.head THEN e ELSE s.q[k]
           /\ UsedInQueue(s2)
           /\ Next1(s.head) # s.dispatch_slot =>
                 \A k \in SrqSlots : Waits(s2, k) <=> Waits(s, k) \/ k = s.head
<1>1. /\ s.head \in SrqSlots /\ s.tail \in SrqSlots /\ s.dispatch_slot \in SrqSlots
      /\ s.q \in [SrqSlots -> SrqEntries]
  BY DEF SrqType
<1>2. /\ s2.q = [s.q EXCEPT ![s.head] = e] /\ s2.head = Next1(s.head) /\ s2.tail = s.tail
      /\ s2.dispatch_slot = s.dispatch_slot /\ (s2.full <=> Next1(s.head) = s.tail)
  BY DEF enqueue_in_srq, SrqType
<1>3. \A k \in SrqSlots : s2.q[k] = IF k = s.head THEN e ELSE s.q[k]
  BY <1>1, <1>2
<1>4. \A k \in SrqSlots : k \in InQueue(s) <=>
         IF s.tail <= s.head THEN s.tail <= k /\ k < s.head ELSE s.tail <= k \/ k < s.head
  BY DEF InQueue
<1>5. \A k \in SrqSlots : k \in InQueue(s2) <=>
         \/ Next1(s.head) = s.tail
         \/ IF s.tail <= Next1(s.head) THEN s.tail <= k /\ k < Next1(s.head)
                                       ELSE s.tail <= k \/ k < Next1(s.head)
  BY <1>2 DEF InQueue
<1>6. Next1(s.head) = IF s.head + 1 < MAX_NUM_SRQ_SLOTS THEN s.head + 1 ELSE 0
  BY <1>1, Next1Is
<1>7. s.head \notin InQueue(s)
  BY <1>1, <1>4 DEF SrqSlots
<1>8. ASSUME NEW k \in SrqSlots, k \in InQueue(s) \/ k = s.head PROVE k \in InQueue(s2)
  <2>1. /\ k \in Nat /\ k < MAX_NUM_SRQ_SLOTS /\ s.tail \in Nat /\ s.tail < MAX_NUM_SRQ_SLOTS
        /\ s.head \in Nat /\ s.head < MAX_NUM_SRQ_SLOTS /\ MAX_NUM_SRQ_SLOTS \in Nat
    BY <1>1, SrqIndices
  <2>2. \/ k = s.head
        \/ IF s.tail <= s.head THEN s.tail <= k /\ k < s.head ELSE s.tail <= k \/ k < s.head
    BY <1>4, <1>8
  <2>3. CASE s.head + 1 < MAX_NUM_SRQ_SLOTS
    BY <1>5, <1>6, <2>1, <2>2, <2>3
  <2>4. CASE ~(s.head + 1 < MAX_NUM_SRQ_SLOTS)
    BY <1>5, <1>6, <2>1, <2>2, <2>4
  <2>5. QED
    BY <2>3, <2>4
<1>9. UsedInQueue(s2)
  BY <1>1, <1>3, <1>8 DEF UsedInQueue
<1>10. ASSUME Next1(s.head) # s.dispatch_slot, NEW k \in SrqSlots
       PROVE  Waits(s2, k) <=> Waits(s, k) \/ k = s.head
  <2>1. /\ k \in Nat /\ k < MAX_NUM_SRQ_SLOTS
        /\ s.dispatch_slot \in Nat /\ s.dispatch_slot < MAX_NUM_SRQ_SLOTS
        /\ s.head \in Nat /\ s.head < MAX_NUM_SRQ_SLOTS /\ MAX_NUM_SRQ_SLOTS \in Nat
    BY <1>1, SrqIndices
  <2>2. CASE s.head + 1 < MAX_NUM_SRQ_SLOTS
    BY <1>2, <1>6, <1>10, <2>1, <2>2 DEF Waits
  <2>3. CASE ~(s.head + 1 < MAX_NUM_SRQ_SLOTS)
    BY <1>2, <1>6, <1>10, <2>1, <2>3 DEF Waits
  <2>4. QED
    BY <2>2, <2>3
<1>11. QED
  BY <1>1, <1>3, <1>7, <1>9, <1>10 DEF UsedInQueue

\* Then the entry at dispatch_slot, which may be the same one, goes to a core.
LEMMA DispatchEffect ==
    ASSUME NEW s \in SrqType, NEW e \in SrqEntries, NEW s2, s2 = enqueue_in_srq(s, e), s2 \in SrqType,
           NEW s3, s3 = advance_dispatch_slot(s2)
    PROVE  /\ s2.dispatch_slot = s.dispatch_slot /\ s.dispatch_slot \in SrqSlots
           /\ s.dispatch_slot = s.head \/ Waits(s, s.dispatch_slot)
           /\ s3.q = s2.q /\ InQueue(s3) = InQueue(s2)
           /\ \A k \in SrqSlots :
                 Waits(s3, k) <=> (Waits(s, k) \/ k = s.head) /\ k # s.dispatch_slot
<1>1. s.head \in SrqSlots /\ s.tail \in SrqSlots /\ s.dispatch_slot \in SrqSlots
  BY DEF SrqType
<1>2. s2.head = Next1(s.head) /\ s2.dispatch_slot = s.dispatch_slot
  BY DEF enqueue_in_srq, SrqType
<1>3. /\ s3.q = s2.q /\ s3.head = s2.head /\ s3.tail = s2.tail /\ s3.full = s2.full
      /\ s3.dispatch_slot = Next1(s2.dispatch_slot)
  BY DEF advance_dispatch_slot, SrqType
<1>4. /\ Next1(s.head) = IF s.head + 1 < MAX_NUM_SRQ_SLOTS THEN s.head + 1 ELSE 0
      /\ Next1(s.dispatch_slot) =
           IF s.dispatch_slot + 1 < MAX_NUM_SRQ_SLOTS THEN s.dispatch_slot + 1 ELSE 0
  BY <1>1, Next1Is
<1>5. s.dispatch_slot = s.head \/ Waits(s, s.dispatch_slot)
  BY <1>1, SrqIndices DEF Waits
<1>6. ASSUME NEW k \in SrqSlots
      PROVE  Waits(s3, k) <=> (Waits(s, k) \/ k = s.head) /\ k # s.dispatch_slot
  BY <1>1, <1>2, <1>3, <1>4, SrqIndices DEF Waits
<1>7. InQueue(s3) = InQueue(s2)
  BY <1>3 DEF InQueue
<1>8. QED
  BY <1>1, <1>2, <1>3, <1>5, <1>6, <1>7

\* A free head is not among those that wait.
LEMMA HeadDoesNotWait ==
    ASSUME NEW s \in SrqType
    PROVE  /\ ~Waits(s, s.head)
           /\ Next1(s.head) = s.dispatch_slot => \A k \in SrqSlots \ {s.head} : Waits(s, k)
<1>1. s.head \in SrqSlots /\ s.dispatch_slot \in SrqSlots
  BY DEF SrqType
<1>2. Next1(s.head) = IF s.head + 1 < MAX_NUM_SRQ_SLOTS THEN s.head + 1 ELSE 0
  BY <1>1, Next1Is
<1>3. ~Waits(s, s.head)
  BY <1>1, SrqIndices DEF Waits
<1>4. ASSUME Next1(s.head) = s.dispatch_slot, NEW k \in SrqSlots, k # s.head PROVE Waits(s, k)
  <2>1. /\ k \in Nat /\ k < MAX_NUM_SRQ_SLOTS /\ MAX_NUM_SRQ_SLOTS \in Nat
        /\ s.head \in Nat /\ s.head < MAX_NUM_SRQ_SLOTS
    BY <1>1, SrqIndices
  <2>2. QED
    BY <1>2, <1>4, <2>1 DEF Waits
<1>5. QED
  BY <1>3, <1>4

\* The tail moves over free entries only.
LEMMA TailOverFree ==
    ASSUME NEW s \in SrqType, ~s.full, UsedInQueue(s)
    PROVE  UsedInQueue(advance_srq_tail_multiple(s))
<1> DEFINE M == MAX_NUM_SRQ_SLOTS
           at(k) == (s.tail + k) % M
           d == TailSteps(s)
           s2 == advance_srq_tail_multiple(s)
           Stop(k) == s.q[at(k)].valid \/ at(k) = s.head
           Steps(x) == (\A k \in 0 .. x - 1 : ~s.q[at(k)].valid /\ at(k) # s.head) /\ Stop(x)
<1>1. M \in Nat \ {0} /\ s.tail \in 0 .. M - 1 /\ s.head \in 0 .. M - 1
  BY RpcAssumption DEF SrqType, SrqSlots
<1>2. \A k \in 0 .. M - 1 : at(k) = IF s.tail + k < M THEN s.tail + k ELSE s.tail + k - M
  <2>1. \A x \in 0 .. 2 * M - 1 : x % M = IF x < M THEN x ELSE x - M
    BY <1>1, Wrap
  <2>2. QED
    BY <1>1, <2>1
<1>3. d \in 0 .. M - 1 /\ Steps(d)
  <2>1. \E x \in 0 .. M - 1 : Steps(x)
    <3> DEFINE T == {x \in 0 .. M - 1 : Stop(x)}
    <3>1. T # {}
      <4> DEFINE x == IF s.tail <= s.head THEN s.head - s.tail ELSE s.head - s.tail + M
      <4>1. x \in 0 .. M - 1
        BY <1>1
      <4>2. at(x) = s.head
        <5>1. at(x) = IF s.tail + x < M THEN s.tail + x ELSE s.tail + x - M
          BY <1>2, <4>1
        <5>2. QED
          BY <1>1, <5>1
      <4>3. QED
        BY <4>1, <4>2
    <3>2. T \subseteq Nat
      BY <1>1
    <3> HIDE DEF T
    <3>3. PICK x \in T : \A y \in T : x <= y
      BY <3>1, <3>2, NatMin
    <3> USE DEF T
    <3>4. x \in 0 .. M - 1 /\ Stop(x)
      BY <3>3
    <3>5. ASSUME NEW k \in 0 .. x - 1 PROVE ~Stop(k)
      <4>1. k \in 0 .. M - 1 /\ ~(x <= k)
        BY <1>1, <3>4
      <4>2. QED
        BY <3>3, <4>1
    <3>6. Steps(x)
      BY <3>4, <3>5
    <3>7. QED
      BY <3>4, <3>6
  <2>2. d = CHOOSE x \in 0 .. M - 1 : Steps(x)
    BY DEF TailSteps
  <2> HIDE DEF d, Steps
  <2>3. QED
    BY <2>1, <2>2
<1>4. s2.q = s.q /\ s2.head = s.head /\ s2.tail = at(d) /\ s2.full = FALSE
  BY DEF advance_srq_tail_multiple, SrqType
<1> HIDE DEF s2, d
<1>5. \A k \in SrqSlots : k \in InQueue(s) <=>
         IF s.tail <= s.head THEN s.tail <= k /\ k < s.head ELSE s.tail <= k \/ k < s.head
  BY DEF InQueue
<1>6. \A k \in SrqSlots : k \in InQueue(s2) <=>
         IF at(d) <= s.head THEN at(d) <= k /\ k < s.head ELSE at(d) <= k \/ k < s.head
  BY <1>4 DEF InQueue
<1>7. ASSUME NEW i \in SrqSlots, s.q[i].valid PROVE i \in InQueue(s2)
  <2>1. i \in 0 .. M - 1 /\ i \in InQueue(s)
    BY <1>7 DEF UsedInQueue, SrqSlots
  <2> DEFINE x == IF s.tail <= i THEN i - s.tail ELSE i - s.tail + M
             h == IF s.tail <= s.head THEN s.head - s.tail ELSE s.head - s.tail + M
  <2>2. x \in 0 .. M - 1 /\ h \in 0 .. M - 1 /\ x < h
    BY <1>1, <1>5, <2>1
  <2>3. at(x) = i /\ at(h) = s.head
    <3>1. /\ at(x) = IF s.tail + x < M THEN s.tail + x ELSE s.tail + x - M
          /\ at(h) = IF s.tail + h < M THEN s.tail + h ELSE s.tail + h - M
      BY <1>2, <2>2
    <3>2. QED
      BY <1>1, <2>1, <3>1
  <2>4. ~(x < d)
    <3>1. SUFFICES ASSUME x < d PROVE FALSE
      OBVIOUS
    <3>2. x \in 0 .. d - 1
      BY <1>1, <1>3, <2>2, <3>1
    <3> HIDE DEF x, h
    <3>3. QED
      BY <1>3, <1>7, <2>3, <3>2
  <2>5. d <= x
    BY <1>1, <1>3, <2>2, <2>4
  <2>6. at(d) = IF s.tail + d < M THEN s.tail + d ELSE s.tail + d - M
    BY <1>2, <1>3
  <2> HIDE DEF at
  <2>7. QED
    BY <1>1, <1>3, <1>6, <2>1, <2>2, <2>5, <2>6
<1>8. QED
  BY <1>4, <1>7 DEF UsedInQueue, s2

\* rmc_recv gives an entry back: no other entry is lost, unless the SRQ was full
\* and LosesEntries holds.
LEMMA ResetEffect ==
    ASSUME NEW s \in SrqType, UsedInQueue(s), NEW idx \in SrqSlots, s.q[idx].valid,
           ~LosesEntries(s, idx), NEW s2, s2 = reset_srq_entry_invalid(s, idx)
    PROVE  /\ UsedInQueue(s2)
           /\ \A k \in SrqSlots :
                /\ s2.q[k].valid <=> s.q[k].valid /\ k # idx
                /\ s2.q[k].sending_nid = s.q[k].sending_nid
                /\ s2.q[k].sending_qp = s.q[k].sending_qp
                /\ Waits(s2, k) <=> Waits(s, k)
<1> DEFINE r == [s EXCEPT !.q[idx].valid = FALSE]
<1>1. /\ r \in SrqType /\ r.head = s.head /\ r.tail = s.tail /\ r.full = s.full
      /\ r.dispatch_slot = s.dispatch_slot
  BY DEF SrqType, SrqEntries
<1>2. \A k \in SrqSlots : /\ r.q[k].valid <=> s.q[k].valid /\ k # idx
                          /\ r.q[k].sending_nid = s.q[k].sending_nid
                          /\ r.q[k].sending_qp = s.q[k].sending_qp
  BY DEF SrqType, SrqEntries
<1>3. s2 = advance_srq_tail_multiple(r)
  BY DEF reset_srq_entry_invalid
<1> HIDE DEF r
<1>4. s2.q = r.q /\ s2.head = s.head /\ s2.dispatch_slot = s.dispatch_slot
  BY <1>1, <1>3 DEF advance_srq_tail_multiple, SrqType
<1>5. \A k \in SrqSlots : Waits(s2, k) <=> Waits(s, k)
  BY <1>4 DEF Waits
<1>6. UsedInQueue(s2)
  <2>1. CASE s.full
    BY <1>2, <1>4, <2>1 DEF LosesEntries, UsedInQueue
  <2>2. CASE ~s.full
    <3>1. InQueue(r) = InQueue(s)
      BY <1>1 DEF InQueue
    <3>2. UsedInQueue(r) /\ ~r.full
      BY <1>1, <1>2, <2>2, <3>1 DEF UsedInQueue
    <3>3. QED
      BY <1>1, <1>3, <3>2, TailOverFree
  <2>3. QED
    BY <2>1, <2>2
<1>7. QED
  BY <1>2, <1>4, <1>5, <1>6
(***************************************************************************)
(* What stays right when nothing happens to it.                            *)
(***************************************************************************)

\* A client begins another call only when no trace of the last one is left.
IdsKept ==
    \A c \in Clients :
        thread'[c].id = thread[c].id \/ (Gone(c) /\ ToRead(cq'[c], cq_pos'[c]) = {})

\* A call that has left a trace is the present one.
LEMMA LiveKept ==
    ASSUME IdsKept, NEW c \in Clients, ~Gone(c)
    PROVE  Live(c)' = Live(c)
BY DEF IdsKept, Live

\* Whose requests and responses these are.
LEMMA Ownership ==
    ASSUME NEW c
    PROVE  Live(c).of = c /\ Response(Live(c)).of = c
BY DEF Live, Request, Response

\* An entry that is to be served.
LEMMA SentKept ==
    ASSUME Inv, Calm, IdsKept, NEW q \in QPs, NEW k \in ToServe(wq[q], wq_pos[q]),
           NEW e, e = wq[q].q[k], e.op = "s"
    PROVE  SentOK(q, e)'
<1> DEFINE c == IF q \in Clients THEN q ELSE <<e.nid, e.qp_num_at_receiver>>
<1>1. SentOK(q, e) /\ k \in Slots
  BY DEF Calm, QueuePairOK, EntriesOK, ToServe, Stretch
<1>2. c \in Clients
  <2>1. CASE q \in Clients
    BY <2>1
  <2>2. CASE q \notin Clients
    BY <2>2, Roles DEF Inv, ServerOK, WqContents
  <2>3. QED
    BY <2>1, <2>2
<1>3. e.buf = IF q \in Clients THEN Live(c) ELSE Response(Live(c))
  BY <1>1 DEF SentOK
<1>4. e.buf.of = c
  BY <1>3, Ownership
<1>5. <<q, k>> \in Sent(c)
  BY <1>1, <1>4 DEF Sent
<1>6. Live(c)' = Live(c)
  BY <1>2, <1>5, LiveKept DEF Gone
<1>7. CASE q \in Clients
  BY <1>1, <1>6, <1>7 DEF SentOK
<1>8. CASE q \notin Clients
  BY <1>1, <1>6, <1>8 DEF SentOK
<1>9. QED
  BY <1>7, <1>8

\* A completion that is to be read.
LEMMA CompletionKept ==
    ASSUME Inv, Calm, IdsKept, FreshSlotsKept, NEW q \in QPs, NEW k \in ToRead(cq[q], cq_pos[q]),
           NEW e, e = cq[q].q[k], q \in Clients => thread'[q].id = thread[q].id
    PROVE  CompletionOK(q, e)'
<1>1. CompletionOK(q, e) /\ k \in Slots
  BY DEF Calm, QueuePairOK, CompletionsOK, ToRead, Stretch
<1>2. ~e.is_nack => recv_slots'[q[1]][e.slot_idx] = recv_slots[q[1]][e.slot_idx]
  BY DEF FreshSlotsKept
<1>3. CASE q \in Clients
  BY <1>1, <1>2, <1>3 DEF CompletionOK, Live
<1>4. CASE q \notin Clients
  <2> DEFINE c == <<e.sending_nid, e.sending_qp>>
  <2>1. q \in Servers /\ c \in Clients
    BY <1>4, Roles DEF Inv, ServerOK, CqInv
  <2>2. ~e.is_nack
    BY <1>1, <2>1 DEF Calm, QueuePairOK, CompletionsOK
  <2>3. recv_slots[q[1]][e.slot_idx] = Live(c)
    BY <1>1, <1>4 DEF CompletionOK
  <2>4. <<q, k>> \in Given(c)
    BY <1>1, <2>1, <2>3, Ownership DEF Given
  <2>5. Live(c)' = Live(c)
    BY <2>1, <2>4, LiveKept DEF Gone
  <2>6. QED
    BY <1>2, <1>4, <2>2, <2>3, <2>5 DEF CompletionOK
<1>5. QED
  BY <1>3, <1>4

\* A server's request.
LEMMA RequestKept ==
    ASSUME Inv, Calm, IdsKept, NEW q \in Servers, thread[q].pc \in Serving,
           NEW c, c = <<thread[q].nid, thread[q].qp>>
    PROVE  c \in Clients /\ thread[q].arg = Live(c) /\ Live(c)' = Live(c) /\ q \in Served(c)
<1>1. c \in Clients
  BY DEF Inv, ServerOK, ThreadInv, Serving
<1>2. thread[q].arg = Live(c)
  BY Roles DEF Calm, QueuePairOK, ThreadOK
<1>3. q \in Served(c)
  BY <1>2, Ownership DEF Served
<1>4. QED
  BY <1>1, <1>2, <1>3, LiveKept DEF Gone

\* A message.
LEMMA PayloadKept ==
    ASSUME Inv, Calm, IdsKept, NEW i \in Nodes, NEW n \in Nodes, NEW k \in 1 .. Len(net[i][n]),
           NEW m, m = net[i][n][k]
    PROVE  PayloadOK(i, n, m)'
<1> SUFFICES ASSUME m.type = "s" PROVE PayloadOK(i, n, m)'
  BY DEF PayloadOK
<1> DEFINE c == IF m.term THEN <<n, m.qp>> ELSE <<i, m.qp>>
<1>1. PayloadOK(i, n, m) /\ MessageOK(i, n, m)
  BY DEF Calm, Inv, MessagesOK, ChannelsOK
<1>2. c \in Clients
  BY <1>1 DEF MessageOK
<1>3. m.payload = IF m.term THEN Response(Live(c)) ELSE Live(c)
  BY <1>1 DEF PayloadOK
<1>4. m.payload.of = c
  BY <1>3, Ownership
<1>5. <<i, n, k>> \in Flying(c)
  <2>1. net \in NetType /\ k \in Nat
    BY DEF Inv, Shape
  <2>2. IsTrace(m, n, c)
    BY <1>4 DEF IsTrace
  <2> HIDE DEF c
  <2>3. QED
    BY <2>1, <2>2, FlyingTrace DEF Flying
<1>6. Live(c)' = Live(c)
  BY <1>2, <1>5, LiveKept DEF Gone
<1>7. CASE m.term
  BY <1>1, <1>6, <1>7 DEF PayloadOK
<1>8. CASE ~m.term
  BY <1>1, <1>6, <1>8 DEF PayloadOK
<1>9. QED
  BY <1>7, <1>8

\* An SRQ entry that waits.
LEMMA WaitingKept ==
    ASSUME Inv, Calm, IdsKept, NEW n \in Nodes, Serves(n), NEW s \in SrqSlots, Waits(srq[n], s),
           NEW c, c = <<srq[n].q[s].sending_nid, srq[n].q[s].sending_qp>>
    PROVE  /\ c \in Clients /\ recv_slots[n][s] = Live(c) /\ Live(c)' = Live(c)
           /\ <<n, s>> \in Queued(c) /\ srq[n].q[s].valid
<1>1. srq[n].q[s].valid /\ recv_slots[n][s] = Live(c)
  BY DEF Calm, SlotOK
<1>2. c \in Clients
  BY <1>1 DEF Inv, RequestsOK, Serves
<1>3. <<n, s>> \in Queued(c)
  BY <1>1, Ownership DEF Queued
<1>4. QED
  BY <1>1, <1>2, <1>3, LiveKept DEF Gone
\* What the WQ of a queue pair asks is right as long as nothing joins it.
LEMMA EntriesKept ==
    ASSUME Inv, Calm, IdsKept, NEW q \in QPs, thread'[q] = thread[q],
           Late(thread[q]) => WqSlot(q)' = WqSlot(q),
           \A k \in ToServe(wq'[q], wq_pos'[q]) :
               k \in ToServe(wq[q], wq_pos[q]) /\ wq'[q].q[k] = wq[q].q[k]
    PROVE  EntriesOK(q)'
<1>1. EntriesOK(q)
  BY DEF Calm, QueuePairOK
<1>2. ASSUME NEW k \in ToServe(wq'[q], wq_pos'[q]), wq'[q].q[k].op = "s"
      PROVE  SentOK(q, wq[q].q[k])'
  <2>1. PICK e : e = wq[q].q[k]
    OBVIOUS
  <2>2. SentOK(q, e)'
    BY <1>2, <2>1, SentKept
  <2>3. e = wq'[q].q[k]
    BY <2>1
  <2>4. QED
    BY <2>2, <2>3 DEF SentOK
<1>3. thread[q].pc = "send_late" =>
        /\ WqSlot(q)'.op = "s"
        /\ IF q \in Clients THEN SentOK(q, WqSlot(q))' ELSE WqSlot(q)'.buf = Response(thread[q].arg)
  BY <1>1 DEF EntriesOK, Late, SentOK, Live
<1>4. thread[q].pc = "recv_late" => WqSlot(q)'.op = "g"
  BY <1>1 DEF EntriesOK, Late
<1>5. QED
  BY <1>2, <1>3, <1>4 DEF EntriesOK
\* A thread that does not move.
LEMMA ThreadKept ==
    ASSUME Inv, Calm, IdsKept, NEW q \in QPs, thread'[q] = thread[q]
    PROVE  ThreadOK(q)'
<1>1. ThreadOK(q)
  BY DEF Calm, QueuePairOK
<1>2. CASE q \in Clients
  BY <1>1, <1>2 DEF ThreadOK, Live
<1>3. CASE q \notin Clients
  <2>1. q \in Servers
    BY <1>3, Roles
  <2>2. PICK c : c = <<thread[q].nid, thread[q].qp>>
    OBVIOUS
  <2>3. thread[q].pc \in Serving => thread[q].arg = Live(c) /\ Live(c)' = Live(c)
    BY <2>1, <2>2, RequestKept
  <2>4. QED
    BY <1>1, <1>3, <2>2, <2>3 DEF ThreadOK
<1>4. QED
  BY <1>2, <1>3

\* The completions that are to be read stay right, those that join must be.
LEMMA CompletionsStay ==
    ASSUME Inv, Calm, IdsKept, FreshSlotsKept, NEW q \in QPs,
           q \in Servers => \A k \in Slots : ~cq'[q].q[k].is_nack,
           \A k \in ToRead(cq'[q], cq_pos'[q]) :
               \/ k \in ToRead(cq[q], cq_pos[q]) /\ cq'[q].q[k] = cq[q].q[k]
               \/ CompletionOK(q, cq[q].q[k])'
    PROVE  CompletionsOK(q)'
<1>1. ASSUME NEW k \in ToRead(cq'[q], cq_pos'[q]) PROVE CompletionOK(q, cq[q].q[k])'
  <2>1. q \in Clients => thread'[q].id = thread[q].id
    BY <1>1 DEF IdsKept
  <2>2. CASE k \in ToRead(cq[q], cq_pos[q]) /\ cq'[q].q[k] = cq[q].q[k]
    <3>1. PICK e : e = cq[q].q[k]
      OBVIOUS
    <3>2. CompletionOK(q, e)'
      BY <2>1, <2>2, <3>1, CompletionKept
    <3>3. e = cq'[q].q[k]
      BY <2>2, <3>1
    <3>4. QED
      BY <3>2, <3>3 DEF CompletionOK
  <2>3. QED
    BY <1>1, <2>2
<1>2. QED
  BY <1>1 DEF CompletionsOK

\* A queue pair whose thread does not move, and whose WQ and CQ nothing joins.
LEMMA QueuePairStays ==
    ASSUME Inv, Calm, IdsKept, FreshSlotsKept, NEW q \in QPs, thread'[q] = thread[q],
           RingsOK(q)',
           Late(thread[q]) => WqSlot(q)' = WqSlot(q),
           \A k \in ToServe(wq'[q], wq_pos'[q]) :
               k \in ToServe(wq[q], wq_pos[q]) /\ wq'[q].q[k] = wq[q].q[k],
           q \in Servers => \A k \in Slots : ~cq'[q].q[k].is_nack,
           \A k \in ToRead(cq'[q], cq_pos'[q]) :
               \/ k \in ToRead(cq[q], cq_pos[q]) /\ cq'[q].q[k] = cq[q].q[k]
               \/ CompletionOK(q, cq[q].q[k])'
    PROVE  QueuePairOK(q)'
BY EntriesKept, ThreadKept, CompletionsStay DEF QueuePairOK

\* One that no step touches.
LEMMA QueuePairAlone ==
    ASSUME Inv, Calm, IdsKept, FreshSlotsKept, NEW q \in QPs, thread'[q] = thread[q],
           wq'[q] = wq[q], wq_pos'[q] = wq_pos[q], cq'[q] = cq[q], cq_pos'[q] = cq_pos[q]
    PROVE  QueuePairOK(q)' /\ SameTodo(q) /\ SameFresh(q)
<1>1. RingsOK(q) /\ CompletionsOK(q)
  BY DEF Calm, QueuePairOK
<1>2. RingsOK(q)'
  BY <1>1 DEF RingsOK
<1>3. WqSlot(q)' = WqSlot(q)
  BY DEF WqSlot
<1>4. q \in Servers => \A k \in Slots : ~cq'[q].q[k].is_nack
  BY <1>1 DEF CompletionsOK
<1>5. QueuePairOK(q)'
  BY <1>2, <1>3, <1>4, QueuePairStays
<1>6. QED
  BY <1>5 DEF SameTodo, SameFresh

\* Messages that stay in the channels.
LEMMA PayloadsStay ==
    ASSUME Inv, Calm, IdsKept, NEW i \in Nodes, NEW n \in Nodes, NEW k \in 1 .. Len(net'[i][n]),
           \/ \E k2 \in 1 .. Len(net[i][n]) : net'[i][n][k] = net[i][n][k2]
           \/ PayloadOK(i, n, net[i][n][k])'
    PROVE  PayloadOK(i, n, net[i][n][k])'
<1> SUFFICES ASSUME NEW k2 \in 1 .. Len(net[i][n]), net'[i][n][k] = net[i][n][k2]
             PROVE  PayloadOK(i, n, net[i][n][k])'
  OBVIOUS
<1>1. PICK m : m = net[i][n][k2]
  OBVIOUS
<1>2. PayloadOK(i, n, m)'
  BY <1>1, PayloadKept
<1>3. m = net'[i][n][k]
  BY <1>1
<1>4. QED
  BY <1>2, <1>3 DEF PayloadOK

\* An SRQ entry whose holders stay, or are replaced by others.
LEMMA SlotStays ==
    ASSUME Inv, Calm, IdsKept, NEW n \in Nodes, NEW s \in SrqSlots,
           UsedInQueue(srq'[n]),
           srq'[n].q[s].valid <=> srq[n].q[s].valid,
           Serves(n) => (Waits(srq'[n], s) <=> Waits(srq[n], s)),
           Serves(n) /\ Waits(srq[n], s) =>
               /\ srq'[n].q[s].sending_nid = srq[n].q[s].sending_nid
               /\ srq'[n].q[s].sending_qp = srq[n].q[s].sending_qp
               /\ recv_slots'[n][s] = recv_slots[n][s],
           Free(CqHolders(n, s), ThreadHolders(n, s), WqHolders(n, s)) =>
               Free(CqHolders(n, s), ThreadHolders(n, s), WqHolders(n, s))',
           Held(CqHolders(n, s), ThreadHolders(n, s), WqHolders(n, s)) =>
               Held(CqHolders(n, s), ThreadHolders(n, s), WqHolders(n, s))'
    PROVE  SlotOK(n, s)'
<1>1. SlotOK(n, s)
  BY DEF Calm
<1>2. srq'[n].q[s].valid => s \in InQueue(srq'[n])
  BY DEF UsedInQueue
<1>3. Serves(n) /\ Waits(srq[n], s) =>
        recv_slots'[n][s] = Live(<<srq[n].q[s].sending_nid, srq[n].q[s].sending_qp>>)'
  <2>1. PICK c : c = <<srq[n].q[s].sending_nid, srq[n].q[s].sending_qp>>
    OBVIOUS
  <2>2. SUFFICES ASSUME Serves(n), Waits(srq[n], s)
                 PROVE  recv_slots'[n][s] = Live(<<srq[n].q[s].sending_nid, srq[n].q[s].sending_qp>>)'
    OBVIOUS
  <2>3. recv_slots[n][s] = Live(c) /\ Live(c)' = Live(c)
    BY <2>1, <2>2, WaitingKept
  <2>4. c = <<srq'[n].q[s].sending_nid, srq'[n].q[s].sending_qp>>
    BY <2>1, <2>2
  <2>5. QED
    BY <2>2, <2>3, <2>4
<1>4. QED
  BY <1>1, <1>2, <1>3 DEF SlotOK, Serves

\* Calm, slot by slot: every entry in use is in the queue.
LEMMA CalmQueue == ASSUME Calm, NEW n \in Nodes PROVE UsedInQueue(srq[n])
BY DEF Calm, SlotOK, UsedInQueue

\* The traces of a call that stay where they are.
LEMMA CallStays ==
    ASSUME Calm, NEW c \in Clients, thread'[c].pc = "poll" <=> thread[c].pc = "poll",
           Sent(c)' = Sent(c), Flying(c)' = Flying(c), Queued(c)' = Queued(c),
           Given(c)' = Given(c), Served(c)' = Served(c), Answers(c)' = Answers(c)
    PROVE  CallOK(c)'
<1>1. CallOK(c)
  BY DEF Calm
<1>2. QED
  BY <1>1 DEF CallOK, Gone
(***************************************************************************)
(* The threads' steps keep Calm.                                           *)
(***************************************************************************)

\* A step of thread q alone: what is left to show.
LEMMA CallCalm ==
    ASSUME Inv, Calm, IdsKept, NEW q \in QPs, UNCHANGED daemonVars,
           \A p \in QPs \ {q} : wq'[p] = wq[p] /\ cq'[p] = cq[p] /\ thread'[p] = thread[p],
           QueuePairOK(q)',
           \A n \in Nodes : \A s \in SrqSlots :
               /\ Free(CqHolders(n, s), ThreadHolders(n, s), WqHolders(n, s)) =>
                      Free(CqHolders(n, s), ThreadHolders(n, s), WqHolders(n, s))'
               /\ Held(CqHolders(n, s), ThreadHolders(n, s), WqHolders(n, s)) =>
                      Held(CqHolders(n, s), ThreadHolders(n, s), WqHolders(n, s))',
           \A c \in Clients : CallOK(c)'
    PROVE  Calm'
<1>1. UNCHANGED <<wq_pos, cq_pos, srq, recv_slots, net, up>>
  BY DEF daemonVars
<1>2. FreshSlotsKept
  BY <1>1 DEF FreshSlotsKept
<1>3. ASSUME NEW p \in QPs PROVE QueuePairOK(p)'
  <2>1. CASE p = q
    BY <2>1
  <2>2. CASE p # q
    BY <1>1, <1>2, <2>2, QueuePairAlone
  <2>3. QED
    BY <2>1, <2>2
<1>4. ASSUME NEW i \in Nodes, NEW n \in Nodes, NEW k \in 1 .. Len(net'[i][n])
      PROVE  PayloadOK(i, n, net[i][n][k])'
  BY <1>1, PayloadsStay
<1>5. ASSUME NEW n \in Nodes, NEW s \in SrqSlots PROVE SlotOK(n, s)'
  <2>1. UsedInQueue(srq'[n])
    BY <1>1, CalmQueue
  <2>2. QED
    BY <1>1, <2>1, SlotStays
<1>6. \A n \in Nodes : up'[n]
  BY <1>1 DEF Calm
<1>7. QED
  BY <1>3, <1>4, <1>5, <1>6 DEF Calm

\* Messages and waiting requests are where they were.
LEMMA DaemonIdle ==
    ASSUME UNCHANGED daemonVars
    PROVE  \A c : Flying(c)' = Flying(c) /\ Queued(c)' = Queued(c)
BY DEF daemonVars, Flying, FlyingIn, Queued, IsTrace, Serves

\* A step of thread q that does not touch its CQ.
LEMMA CqIdle ==
    ASSUME Calm, UNCHANGED <<cq, daemonVars>>
    PROVE  /\ FreshSlotsKept /\ \A p \in QPs : SameFresh(p)
           /\ \A c : Given(c)' = Given(c) /\ \A s : CqHolders(c, s)' = CqHolders(c, s)
           /\ \A c \in QPs : Answers(c)' = Answers(c)
<1>1. FreshSlotsKept /\ \A p \in QPs : SameFresh(p)
  BY DEF FreshSlotsKept, SameFresh, daemonVars
<1>2. \A p \in Servers : \A k \in Slots : ~cq[p].q[k].is_nack
  BY Roles DEF Calm, QueuePairOK, CompletionsOK
<1>3. QED
  BY <1>1, <1>2, FreshSame

\* rmc_send and rmc_recv, up to the store of SR: nothing is to be served yet.
LEMMA PublishCalm ==
    ASSUME Inv, Calm, NEW q \in QPs,
           \/ q \in Clients /\ rmc_send_request(q)
           \/ rmc_send_response(q)
           \/ rmc_recv(q)
    PROVE  Calm'
<1>1. Shape /\ Shape'
  BY SendsShape DEF Inv
<1>2. /\ WqSlot(q) \in WqEntries /\ thread[q] \in ThreadType /\ wq[q] \in WqType
      /\ wq_pos[q] \in WqPosType /\ wq[q].head \in Slots
      /\ WqSlot(q) = wq[q].q[wq[q].head]
  BY <1>1, QPShape DEF WqSlot
<1>3. QueuePairOK(q)
  BY DEF Calm
<1>4. UNCHANGED <<cq, daemonVars>> /\ WqSlot(q).valid = 0
  BY DEF rmc_send_request, rmc_send_response, rmc_recv, HeadFree
<1>5. PICK e \in WqEntries :
         /\ Publish(q, e)
         /\ \/ /\ thread[q].pc = "recv" /\ Goto(q, "recv_late") /\ e.op = "g"
            \/ /\ thread[q].pc = "idle" /\ Goto(q, "send_late") /\ e.op = "s"
               /\ q \in Clients /\ e.nid = ServerNode[q] /\ e.buf = Live(q)
            \/ /\ thread[q].pc = "send" /\ Goto(q, "send_late") /\ e.op = "s"
               /\ e.buf = Response(thread[q].arg)
  <2>1. CASE q \in Clients /\ rmc_send_request(q)
    <3>1. ServerNode[q] \in Nodes /\ Live(q) \in Payloads
      BY <1>2, <2>1, RpcAssumption, PayloadTypes DEF ThreadType, Live
    <3> DEFINE g == [WqSlot(q) EXCEPT !.op = "s", !.nid = ServerNode[q], !.buf = Live(q)]
    <3>2. g \in WqEntries /\ g.op = "s" /\ g.nid = ServerNode[q] /\ g.buf = Live(q)
      BY <1>2, <3>1 DEF WqEntries
    <3>3. Publish(q, g) /\ thread[q].pc = "idle" /\ Goto(q, "send_late")
      BY <2>1 DEF rmc_send_request, Live
    <3> HIDE DEF g
    <3>4. QED
      BY <2>1, <3>2, <3>3
  <2>2. CASE rmc_send_response(q)
    <3>1. Response(thread[q].arg) \in Payloads /\ thread[q].nid \in Nodes
      BY <1>2, PayloadTypes DEF ThreadType
    <3> DEFINE g == [WqSlot(q) EXCEPT !.op = "s", !.nid = thread[q].nid, !.buf = Response(thread[q].arg)]
    <3>2. g \in WqEntries /\ g.op = "s" /\ g.buf = Response(thread[q].arg)
      BY <1>2, <3>1 DEF WqEntries
    <3>3. Publish(q, g) /\ thread[q].pc = "send" /\ Goto(q, "send_late")
      BY <2>2 DEF rmc_send_response
    <3> HIDE DEF g
    <3>4. QED
      BY <3>2, <3>3
  <2>3. CASE rmc_recv(q)
    <3> DEFINE g == [WqSlot(q) EXCEPT !.op = "g", !.nid = thread[q].nid]
    <3>1. g \in WqEntries /\ g.op = "g"
      BY <1>2 DEF WqEntries, ThreadType
    <3>2. Publish(q, g) /\ thread[q].pc = "recv" /\ Goto(q, "recv_late")
      BY <2>3 DEF rmc_recv
    <3> HIDE DEF g
    <3>3. QED
      BY <3>1, <3>2
  <2>4. QED
    BY <2>1, <2>2, <2>3
<1>6. PICK f : f = [e EXCEPT !.valid = 1, !.SR = wq[q].SR]
  OBVIOUS
<1>7. /\ \A p \in QPs \ {q} : wq'[p] = wq[p]
      /\ wq'[q] = [q |-> [wq[q].q EXCEPT ![wq[q].head] = f], head |-> wq[q].head, SR |-> wq[q].SR]
  BY <1>1, <1>5, <1>6, PublishType
<1>8. f.valid = 1 /\ f.SR = wq[q].SR /\ f.op = e.op /\ f.nid = e.nid /\ f.buf = e.buf
  BY <1>6 DEF WqEntries
<1>9. /\ \A p \in QPs \ {q} : thread'[p] = thread[p]
      /\ thread'[q].pc = (IF e.op = "g" THEN "recv_late" ELSE "send_late")
      /\ thread'[q].id = thread[q].id /\ thread'[q].arg = thread[q].arg
      /\ thread'[q].slot = thread[q].slot
      /\ thread'[q].nid = thread[q].nid /\ thread'[q].qp = thread[q].qp
  BY <1>1, <1>2, <1>5 DEF Goto, Shape, ThreadType
<1>10. IdsKept
  BY <1>9, Roles DEF IdsKept
<1>11. ~Late(thread[q]) /\ Late(thread'[q]) /\ (Holds(thread[q]) <=> Holds(thread'[q]))
       /\ (q \in Servers => (thread[q].pc \in Serving <=> thread'[q].pc \in Serving))
       /\ thread[q].pc # "poll" /\ thread'[q].pc # "poll"
  BY <1>5, <1>9, Roles DEF Late, Holds, Serving
<1>12. /\ WqMarks(wq'[q], wq_pos[q], thread'[q])
       /\ ToServe(wq'[q], wq_pos[q]) = ToServe(wq[q], wq_pos[q])
       /\ WqSlot(q)' = f
       /\ \A k \in ToServe(wq[q], wq_pos[q]) : wq'[q].q[k] = wq[q].q[k]
  <2> DEFINE r == wq[q]
             p == wq_pos[q]
             th == thread[q]
             r2 == wq'[q]
             th2 == thread'[q]
  <2>1. /\ r \in WqType /\ p \in WqPosType /\ ~Late(th) /\ Late(th2)
        /\ WqMarks(r, p, th) /\ r.q[r.head].valid = 0
    BY <1>2, <1>3, <1>4, <1>11 DEF QueuePairOK, RingsOK
  <2>2. /\ f.SR = r.SR /\ r2.head = r.head /\ r2.SR = r.SR
       /\ r2.q[r.head] = f /\ \A k \in Slots \ {r.head} : r2.q[k] = r.q[k]
    BY <1>2, <1>7, <1>8 DEF WqType
  <2> HIDE DEF r, p, th, r2, th2
  <2>3. /\ WqMarks(r2, p, th2) /\ ToServe(r2, p) = ToServe(r, p)
        /\ r2.head = r.head /\ r2.q[r.head] = f
        /\ \A k \in ToServe(r, p) : r2.q[k] = r.q[k]
    BY <1>8, <2>1, <2>2, PublishMarks
  <2>4. QED
    BY <2>3 DEF WqSlot, r, p, th, r2, th2
<1>13. wq_pos' = wq_pos /\ cq' = cq /\ cq_pos' = cq_pos /\ recv_slots' = recv_slots
  BY <1>4 DEF daemonVars
<1>14. \A p \in QPs : SameTodo(p)
  BY <1>7, <1>12, <1>13 DEF SameTodo
<1>15. EntriesOK(q)'
  <2>1. ASSUME NEW k \in ToServe(wq'[q], wq_pos'[q]), wq'[q].q[k].op = "s"
        PROVE  SentOK(q, wq[q].q[k])'
    <3>1. PICK g : g = wq[q].q[k]
      OBVIOUS
    <3>2. k \in ToServe(wq[q], wq_pos[q]) /\ wq'[q].q[k] = g
      BY <1>12, <1>13, <2>1, <3>1
    <3>3. SentOK(q, g)'
      BY <1>10, <2>1, <3>1, <3>2, SentKept
    <3>4. QED
      BY <3>2, <3>3 DEF SentOK
  <2>2. thread'[q].pc = "send_late" =>
          /\ f.op = "s"
          /\ IF q \in Clients THEN f.buf = Live(q)' /\ f.nid = ServerNode[q]
                              ELSE f.buf = Response(thread'[q].arg)
    <3>1. SUFFICES ASSUME thread'[q].pc = "send_late"
                   PROVE  /\ f.op = "s"
                          /\ IF q \in Clients THEN f.buf = Live(q)' /\ f.nid = ServerNode[q]
                                              ELSE f.buf = Response(thread'[q].arg)
      OBVIOUS
    <3>2. e.op = "s"
      BY <1>5, <1>9, <3>1
    <3>3. CASE q \in Clients
      <4>1. thread[q].pc # "send"
        BY <1>3, <3>3 DEF QueuePairOK, ThreadOK
      <4>2. e.buf = Live(q) /\ e.nid = ServerNode[q]
        BY <1>5, <3>2, <4>1
      <4>3. QED
        BY <1>8, <1>9, <3>2, <3>3, <4>2 DEF Live
    <3>4. CASE q \notin Clients
      BY <1>5, <1>8, <1>9, <3>2, <3>4
    <3>5. QED
      BY <3>3, <3>4
  <2>3. thread'[q].pc = "recv_late" => f.op = "g"
    BY <1>5, <1>8, <1>9
  <2>4. QED
    BY <1>12, <2>1, <2>2, <2>3 DEF EntriesOK, SentOK
<1>16. ThreadOK(q)'
  <2>1. ThreadOK(q)
    BY <1>3 DEF QueuePairOK
  <2>2. CASE q \in Clients
    BY <1>9, <1>11, <2>1, <2>2 DEF ThreadOK, Live
  <2>3. CASE q \notin Clients
    <3>1. q \in Servers
      BY <2>3, Roles
    <3>2. PICK c : c = <<thread[q].nid, thread[q].qp>>
      OBVIOUS
    <3>3. thread[q].pc \in Serving => thread[q].arg = Live(c) /\ Live(c)' = Live(c)
      BY <1>10, <3>1, <3>2, RequestKept
    <3>4. QED
      BY <1>9, <1>11, <2>3, <3>1, <3>2, <3>3 DEF ThreadOK
  <2>4. QED
    BY <2>2, <2>3
<1>17. FreshSlotsKept /\ \A c : Given(c)' = Given(c) /\ \A s : CqHolders(c, s)' = CqHolders(c, s)
  BY <1>4, CqIdle
<1>18. \A c \in QPs : Answers(c)' = Answers(c)
  BY <1>4, CqIdle
<1>19. QueuePairOK(q)'
  <2>1. CompletionsOK(q)'
    <3>1. q \in Servers => \A k \in Slots : ~cq'[q].q[k].is_nack
      BY <1>3, <1>13 DEF QueuePairOK, CompletionsOK
    <3>2. QED
      BY <1>10, <1>13, <1>17, <3>1, CompletionsStay
  <2>2. RingsOK(q)'
    BY <1>3, <1>12, <1>13 DEF QueuePairOK, RingsOK
  <2>3. QED
    BY <1>15, <1>16, <2>1, <2>2 DEF QueuePairOK
<1>20. \A c : Sent(c)' = Sent(c) /\ \A s : WqHolders(c, s)' = WqHolders(c, s)
  BY <1>14, TodoSame
<1>21. \A c : Served(c)' = Served(c) /\ \A s : ThreadHolders(c, s)' = ThreadHolders(c, s)
  <2>1. ASSUME NEW c PROVE Served(c)' = Served(c)
    <3>1. PICK t : t = thread'[q]
      OBVIOUS
    <3>2. Served(c)' = (Served(c) \ {q}) \union
             (IF q \in Servers /\ t.pc \in Serving /\ t.arg.of = c THEN {q} ELSE {})
      BY <1>9, <3>1, ThreadSteps
    <3>3. q \in Served(c) <=> q \in Servers /\ thread[q].pc \in Serving /\ thread[q].arg.of = c
      BY DEF Served
    <3>4. QED
      BY <1>9, <1>11, <3>1, <3>2, <3>3
  <2>2. ASSUME NEW c, NEW s PROVE ThreadHolders(c, s)' = ThreadHolders(c, s)
    <3>1. PICK t : t = thread'[q]
      OBVIOUS
    <3>2. ThreadHolders(c, s)' = (ThreadHolders(c, s) \ {q}) \union
             (IF q[1] = c /\ Holds(t) /\ t.slot = s THEN {q} ELSE {})
      BY <1>9, <3>1, ThreadSteps
    <3>3. q \in ThreadHolders(c, s) <=> q[1] = c /\ Holds(thread[q]) /\ thread[q].slot = s
      BY DEF ThreadHolders
    <3>4. QED
      BY <1>9, <1>11, <3>1, <3>2, <3>3
  <2>3. QED
    BY <2>1, <2>2
<1>22. ASSUME NEW c \in Clients PROVE CallOK(c)'
  <2>1. thread'[c].pc = "poll" <=> thread[c].pc = "poll"
    BY <1>9, <1>11, Roles
  <2>2. QED
    BY <1>4, <1>17, <1>18, <1>20, <1>21, <2>1, DaemonIdle, CallStays, Roles
<1>23. QED
  BY <1>4, <1>7, <1>9, <1>10, <1>13, <1>17, <1>19, <1>20, <1>21, <1>22, CallCalm
\* A thread that registers its queues is a client: it has no call under way, and
\* begins none.
LEMMA RegisterCalm ==
    ASSUME Inv, Calm, NEW q \in QPs, kal_reg_wq(q) \/ kal_reg_cq(q)
    PROVE  Calm'
<1>1. UNCHANGED <<wq, cq, daemonVars>> /\ thread[q].pc \in {"reg_wq", "reg_cq"}
  BY DEF kal_reg_wq, kal_reg_cq
<1>2. wq' = wq /\ wq_pos' = wq_pos /\ cq' = cq /\ cq_pos' = cq_pos /\ recv_slots' = recv_slots
  BY <1>1 DEF daemonVars
<1>3. QueuePairOK(q)
  BY DEF Calm
<1>4. q \in Clients
  BY <1>1, <1>3 DEF QueuePairOK, ThreadOK
<1>5. /\ \A p \in QPs \ {q} : thread'[p] = thread[p]
      /\ thread'[q].pc \in {"reg_cq", "idle"} /\ thread'[q].id = thread[q].id
  <2>1. Shape /\ thread[q] \in ThreadType
    BY QPShape DEF Inv
  <2>2. QED
    BY <1>4, <2>1 DEF kal_reg_wq, kal_reg_cq, Ready, Goto, Shape, ThreadType
<1>6. /\ ~Late(thread[q]) /\ ~Late(thread'[q]) /\ ~Holds(thread[q]) /\ ~Holds(thread'[q])
      /\ thread[q].pc # "poll" /\ thread'[q].pc # "poll"
      /\ thread[q].pc \notin Serving /\ thread'[q].pc \notin Serving
      /\ thread'[q].pc \notin {"send", "send_late", "recv_late"}
  BY <1>1, <1>5 DEF Late, Holds, Serving
<1>7. IdsKept
  BY <1>5, Roles DEF IdsKept
<1>8. FreshSlotsKept /\ \A p \in QPs : SameTodo(p)
  BY <1>2 DEF FreshSlotsKept, SameTodo
<1>9. QueuePairOK(q)'
  <2>1. RingsOK(q)'
    BY <1>2, <1>3, <1>6 DEF QueuePairOK, RingsOK, WqMarks
  <2>2. EntriesOK(q)'
    <3>1. ASSUME NEW k \in ToServe(wq'[q], wq_pos'[q]), wq'[q].q[k].op = "s"
          PROVE  SentOK(q, wq[q].q[k])'
      <4>1. PICK g : g = wq[q].q[k]
        OBVIOUS
      <4>2. SentOK(q, g)'
        BY <1>2, <1>7, <3>1, <4>1, SentKept
      <4>3. QED
        BY <1>2, <4>1, <4>2 DEF SentOK
    <3>2. QED
      BY <1>6, <3>1 DEF EntriesOK
  <2>3. ThreadOK(q)'
    BY <1>4, <1>6 DEF ThreadOK
  <2>4. CompletionsOK(q)'
    BY <1>2, <1>3, <1>7, <1>8, CompletionsStay DEF QueuePairOK, CompletionsOK
  <2>5. QED
    BY <2>1, <2>2, <2>3, <2>4 DEF QueuePairOK
<1>10. /\ \A c : Given(c)' = Given(c) /\ \A s : CqHolders(c, s)' = CqHolders(c, s)
       /\ \A c \in QPs : Answers(c)' = Answers(c)
  BY <1>1, CqIdle
<1>11. \A c : Sent(c)' = Sent(c) /\ \A s : WqHolders(c, s)' = WqHolders(c, s)
  BY <1>8, TodoSame
<1>12. \A c : Served(c)' = Served(c) /\ \A s : ThreadHolders(c, s)' = ThreadHolders(c, s)
  <2>1. PICK t : t = thread'[q]
    OBVIOUS
  <2>2. t.pc \notin Serving /\ ~Holds(t)
    BY <1>6, <2>1
  <2>3. ASSUME NEW c PROVE Served(c)' = Served(c)
    <3>1. Served(c)' = (Served(c) \ {q}) \union
             (IF q \in Servers /\ t.pc \in Serving /\ t.arg.of = c THEN {q} ELSE {})
      BY <1>5, <2>1, ThreadSteps
    <3>2. q \notin Served(c)
      BY <1>6 DEF Served
    <3>3. QED
      BY <2>2, <3>1, <3>2
  <2>4. ASSUME NEW c, NEW s PROVE ThreadHolders(c, s)' = ThreadHolders(c, s)
    <3>1. ThreadHolders(c, s)' = (ThreadHolders(c, s) \ {q}) \union
             (IF q[1] = c /\ Holds(t) /\ t.slot = s THEN {q} ELSE {})
      BY <1>5, <2>1, ThreadSteps
    <3>2. q \notin ThreadHolders(c, s)
      BY <1>6 DEF ThreadHolders
    <3>3. QED
      BY <2>2, <3>1, <3>2
  <2>5. QED
    BY <2>3, <2>4
<1>13. ASSUME NEW c \in Clients PROVE CallOK(c)'
  <2>1. thread'[c].pc = "poll" <=> thread[c].pc = "poll"
    BY <1>5, <1>6, Roles
  <2>2. QED
    BY <1>1, <1>10, <1>11, <1>12, <2>1, DaemonIdle, CallStays, Roles
<1>14. QED
  BY <1>1, <1>2, <1>5, <1>7, <1>9, <1>10, <1>11, <1>12, <1>13, CallCalm

\* A trace that goes from one place to another is still the only one.
LEMMA TraceMoves ==
    ASSUME NEW s, NEW f, NEW w, NEW g, NEW v, NEW a, OnlyOne(s, f, w, g, v, a)
    PROVE  /\ \A x, y : x \in s => OnlyOne(s \ {x}, f \union {y}, w, g, v, a)
           /\ \A x, y : x \in f => OnlyOne(s, {}, w \union {y}, g, v, a)
           /\ \A x, y : x \in f => OnlyOne(s, {}, w, g, v, a \union {y})
           /\ \A x, y : x \in f => OnlyOne(s, {} \union {y}, w, g, v, a)
           /\ \A x, y : x \in w => OnlyOne(s, f, w \ {x}, g \union {y}, v, a)
           /\ \A x, y : x \in g => OnlyOne(s, f, w, g \ {x}, v \union {y}, a)
           /\ \A x, y : x \in v => OnlyOne(s \union {y}, f, w, g, v \ {x}, a)
<1>1. \A y : Single({y})
  BY DEF Single
<1>2. ASSUME NEW x, NEW y, x \in s PROVE OnlyOne(s \ {x}, f \union {y}, w, g, v, a)
  <2>1. s = {x} /\ f = {} /\ w = {} /\ g = {} /\ v = {} /\ a = {}
    BY <1>2, Lone
  <2>2. s \ {x} = {} /\ f \union {y} = {y}
    BY <2>1
  <2>3. QED
    BY <1>1, <2>1, <2>2 DEF OnlyOne
<1>3. ASSUME NEW x, NEW y, x \in f PROVE OnlyOne(s, {}, w \union {y}, g, v, a)
  <2>1. f = {x} /\ s = {} /\ w = {} /\ g = {} /\ v = {} /\ a = {}
    BY <1>3, Lone
  <2>2. w \union {y} = {y}
    BY <2>1
  <2>3. QED
    BY <1>1, <2>1, <2>2 DEF OnlyOne
<1>4. ASSUME NEW x, NEW y, x \in f PROVE OnlyOne(s, {}, w, g, v, a \union {y})
  <2>1. f = {x} /\ s = {} /\ w = {} /\ g = {} /\ v = {} /\ a = {}
    BY <1>4, Lone
  <2>2. a \union {y} = {y}
    BY <2>1
  <2>3. QED
    BY <1>1, <2>1, <2>2 DEF OnlyOne
<1>5. ASSUME NEW x, NEW y, x \in f PROVE OnlyOne(s, {} \union {y}, w, g, v, a)
  <2>1. f = {x} /\ s = {} /\ w = {} /\ g = {} /\ v = {} /\ a = {}
    BY <1>5, Lone
  <2>2. {} \union {y} = {y}
    BY <2>1
  <2>3. QED
    BY <1>1, <2>1, <2>2 DEF OnlyOne
<1>6. ASSUME NEW x, NEW y, x \in w PROVE OnlyOne(s, f, w \ {x}, g \union {y}, v, a)
  <2>1. w = {x} /\ s = {} /\ f = {} /\ g = {} /\ v = {} /\ a = {}
    BY <1>6, Lone
  <2>2. w \ {x} = {} /\ g \union {y} = {y}
    BY <2>1
  <2>3. QED
    BY <1>1, <2>1, <2>2 DEF OnlyOne
<1>7. ASSUME NEW x, NEW y, x \in g PROVE OnlyOne(s, f, w, g \ {x}, v \union {y}, a)
  <2>1. g = {x} /\ s = {} /\ f = {} /\ w = {} /\ v = {} /\ a = {}
    BY <1>7, Lone
  <2>2. g \ {x} = {} /\ v \union {y} = {y}
    BY <2>1
  <2>3. QED
    BY <1>1, <2>1, <2>2 DEF OnlyOne
<1>8. ASSUME NEW x, NEW y, x \in v PROVE OnlyOne(s \union {y}, f, w, g, v \ {x}, a)
  <2>1. v = {x} /\ s = {} /\ f = {} /\ w = {} /\ g = {} /\ a = {}
    BY <1>8, Lone
  <2>2. s \union {y} = {y} /\ v \ {x} = {}
    BY <2>1
  <2>3. QED
    BY <1>1, <2>1, <2>2 DEF OnlyOne
<1>9. QED
  BY <1>2, <1>3, <1>4, <1>5, <1>6, <1>7, <1>8

\* So is a holder that is replaced by another.
LEMMA HolderMoves ==
    ASSUME NEW a, NEW b, NEW d, Held(a, b, d)
    PROVE  /\ \A x, y : x \in a => Held(a \ {x}, b \union {y}, d)
           /\ \A x, y : x \in b => Held(a, b \ {x}, d \union {y})
           /\ \A x : x \in d => Free(a, b, d \ {x})
<1>1. \A x : \A S : S = {x} => S \ {x} = {}
  OBVIOUS
<1>2. \A y : {} \union {y} = {y}
  OBVIOUS
<1>3. QED
  BY <1>1, <1>2, LoneHolder DEF Held, Free, Single
\* The late stores: the entry is now to be served.  A server's answer, a client's
\* request, or the slot that is given back goes from the thread to the WQ.
LEMMA LateCalm ==
    ASSUME Inv, Calm, NEW q \in QPs, rmc_send_late(q) \/ rmc_recv_late(q)
    PROVE  Calm'
<1>1. Shape /\ Shape' /\ Inv'
  BY LateShape, LateInv DEF Inv
<1>2. /\ WqSlot(q) \in WqEntries /\ thread[q] \in ThreadType /\ wq[q] \in WqType
      /\ wq_pos[q] \in WqPosType /\ wq[q].head \in Slots
      /\ WqSlot(q) = wq[q].q[wq[q].head]
  BY <1>1, QPShape DEF WqSlot
<1>3. QueuePairOK(q)
  BY DEF Calm
<1>4. UNCHANGED <<cq, daemonVars>>
  BY DEF rmc_send_late, rmc_recv_late
<1>5. PICK e \in WqEntries :
         /\ Finish(q, e)
         /\ e.SR = WqSlot(q).SR /\ e.valid = WqSlot(q).valid /\ e.op = WqSlot(q).op
         /\ e.nid = WqSlot(q).nid /\ e.buf = WqSlot(q).buf
         /\ \/ /\ rmc_send_late(q) /\ thread[q].pc = "send_late" /\ e.op = "s"
               /\ (q \in Servers => e.qp_num_at_receiver = thread[q].qp)
            \/ /\ rmc_recv_late(q) /\ thread[q].pc = "recv_late" /\ e.op = "g"
               /\ e.slot_idx = thread[q].slot
  <2>1. /\ thread[q].pc = "send_late" => WqSlot(q).op = "s"
        /\ thread[q].pc = "recv_late" => WqSlot(q).op = "g"
    BY <1>3 DEF QueuePairOK, EntriesOK
  <2>2. CASE rmc_send_late(q)
    <3> DEFINE g == [WqSlot(q) EXCEPT
                        !.qp_num_at_receiver = IF q \in Servers THEN thread[q].qp ELSE q[2],
                        !.send_qp_terminate = (q \in Servers)]
    <3>1. (IF q \in Servers THEN thread[q].qp ELSE q[2]) \in Int /\ (q \in Servers) \in BOOLEAN
      BY <1>2, QPType DEF ThreadType
    <3>2. /\ g \in WqEntries /\ g.SR = WqSlot(q).SR /\ g.valid = WqSlot(q).valid
          /\ g.op = WqSlot(q).op /\ g.nid = WqSlot(q).nid /\ g.buf = WqSlot(q).buf
          /\ (q \in Servers => g.qp_num_at_receiver = thread[q].qp)
      BY <1>2, <3>1 DEF WqEntries
    <3>3. Finish(q, g) /\ thread[q].pc = "send_late"
      BY <2>2 DEF rmc_send_late
    <3> HIDE DEF g
    <3>4. QED
      BY <2>1, <2>2, <3>2, <3>3
  <2>3. CASE rmc_recv_late(q)
    <3> DEFINE g == [WqSlot(q) EXCEPT !.slot_idx = thread[q].slot, !.dispatch_on_recv = (q \in Servers)]
    <3>1. thread[q].slot \in SrqSlots /\ (q \in Servers) \in BOOLEAN
      BY <1>2 DEF ThreadType
    <3>2. /\ g \in WqEntries /\ g.SR = WqSlot(q).SR /\ g.valid = WqSlot(q).valid
          /\ g.op = WqSlot(q).op /\ g.nid = WqSlot(q).nid /\ g.buf = WqSlot(q).buf
          /\ g.slot_idx = thread[q].slot
      BY <1>2, <3>1 DEF WqEntries
    <3>3. Finish(q, g) /\ thread[q].pc = "recv_late"
      BY <2>3 DEF rmc_recv_late
    <3> HIDE DEF g
    <3>4. QED
      BY <2>1, <2>3, <3>2, <3>3
  <2>4. QED
    BY <2>2, <2>3
<1>6. /\ \A p \in QPs \ {q} : wq'[p] = wq[p]
      /\ wq'[q] = [q |-> [wq[q].q EXCEPT ![wq[q].head] = e],
                   head |-> Advance(wq[q].head), SR |-> Phase(wq[q].head, wq[q].SR)]
  BY <1>1, <1>5, FinishType
<1>7. PICK t : t = thread'[q]
  OBVIOUS
<1>8. /\ \A p \in QPs \ {q} : thread'[p] = thread[p]
      /\ e.op = "s" => t.pc = "poll" /\ t.id = thread[q].id
      /\ e.op = "g" /\ q \in Servers =>
            /\ t.pc = "send" /\ t.id = thread[q].id /\ t.arg = thread[q].arg
            /\ t.nid = thread[q].nid /\ t.qp = thread[q].qp
      /\ e.op = "g" /\ q \notin Servers => t.pc = "idle"
  <2>1. CASE e.op = "s"
    <3>1. rmc_send_late(q)
      BY <1>5, <2>1
    <3>2. thread' = [thread EXCEPT ![q] = [Thread("poll") EXCEPT !.id = thread[q].id]]
      BY <3>1 DEF rmc_send_late
    <3>3. QED
      BY <1>1, <1>7, <2>1, <3>2 DEF Shape, Thread
  <2>2. CASE e.op = "g"
    <3>1. rmc_recv_late(q)
      BY <1>5, <2>2
    <3>2. thread' = [thread EXCEPT ![q] = IF q \in Servers THEN [@ EXCEPT !.pc = "send"] ELSE NextCall(@)]
      BY <3>1 DEF rmc_recv_late
    <3>3. QED
      BY <1>1, <1>2, <1>7, <2>2, <3>2 DEF Shape, ThreadType, NextCall, Thread
  <2>3. QED
    BY <1>5, <2>1, <2>2
<1>9. Late(thread[q]) /\ ~Late(t) /\ ~Holds(t) /\ (Holds(thread[q]) <=> e.op = "g")
  BY <1>5, <1>8 DEF Late, Holds
<1>10. q \in Clients => Gone(q) /\ Answers(q) = {}
  <2>1. thread[q].pc # "poll"
    BY <1>5
  <2>2. QED
    BY <2>1 DEF Calm, CallOK
<1>11. wq_pos' = wq_pos /\ cq' = cq /\ cq_pos' = cq_pos /\ recv_slots' = recv_slots
  BY <1>4 DEF daemonVars
<1>12. IdsKept
  <2>1. \A c \in Clients \ {q} : thread'[c].id = thread[c].id
    BY <1>8, Roles
  <2>2. q \in Clients => Gone(q) /\ ToRead(cq'[q], cq_pos'[q]) = {}
    BY <1>10, <1>11 DEF Answers
  <2>3. QED
    BY <2>1, <2>2 DEF IdsKept
<1> DEFINE k == wq[q].head
<1>13. /\ WqMarks(wq'[q], wq_pos[q], t)
       /\ ToServe(wq'[q], wq_pos[q]) = ToServe(wq[q], wq_pos[q]) \union {k}
       /\ k \in Slots /\ k \notin ToServe(wq[q], wq_pos[q]) /\ wq'[q].q[k] = e
       /\ \A j \in ToServe(wq[q], wq_pos[q]) : wq'[q].q[j] = wq[q].q[j]
  <2> DEFINE r == wq[q]
             p == wq_pos[q]
             th == thread[q]
             r2 == wq'[q]
  <2>1. /\ r \in WqType /\ p \in WqPosType /\ Late(th) /\ ~Late(t)
        /\ WqMarks(r, p, th) /\ e.SR = r.q[r.head].SR /\ e.valid = r.q[r.head].valid
    BY <1>2, <1>3, <1>5, <1>9 DEF QueuePairOK, RingsOK
  <2>2. /\ r2.head = Advance(r.head) /\ r2.SR = Phase(r.head, r.SR)
        /\ r2.q[r.head] = e /\ \A j \in Slots \ {r.head} : r2.q[j] = r.q[j]
    BY <1>2, <1>6 DEF WqType
  <2> HIDE DEF r, p, th, r2
  <2>3. /\ WqMarks(r2, p, t) /\ ToServe(r2, p) = ToServe(r, p) \union {r.head}
        /\ r.head \in Slots /\ r.head \notin ToServe(r, p) /\ r2.q[r.head] = e
        /\ \A j \in ToServe(r, p) : r2.q[j] = r.q[j]
    BY <2>1, <2>2, FinishMarks
  <2>4. QED
    BY <2>3 DEF r, p, th, r2
<1> HIDE DEF k
<1>14. MoreTodo(q, k) /\ \A p \in QPs \ {q} : SameTodo(p)
  BY <1>6, <1>11, <1>13 DEF MoreTodo, SameTodo
<1>15. /\ \A c : Sent(c)' = Sent(c) \union
                    (IF e.op = "s" /\ e.buf.of = c THEN {<<q, k>>} ELSE {})
       /\ \A n, s : WqHolders(n, s)' = WqHolders(n, s) \union
                    (IF e.op = "g" /\ q[1] = n /\ e.slot_idx = s THEN {<<q, k>>} ELSE {})
  BY <1>13, <1>14, TodoGrows
<1>16. /\ \A c : Served(c)' = (Served(c) \ {q}) \union
                    (IF q \in Servers /\ t.pc \in Serving /\ t.arg.of = c THEN {q} ELSE {})
       /\ \A n, s : ThreadHolders(n, s)' = ThreadHolders(n, s) \ {q}
  <2>1. \A n, s : ThreadHolders(n, s)' = (ThreadHolders(n, s) \ {q}) \union
                    (IF q[1] = n /\ Holds(t) /\ t.slot = s THEN {q} ELSE {})
    BY <1>7, <1>8, ThreadSteps
  <2>2. \A c : Served(c)' = (Served(c) \ {q}) \union
                    (IF q \in Servers /\ t.pc \in Serving /\ t.arg.of = c THEN {q} ELSE {})
    BY <1>7, <1>8, ThreadSteps
  <2>3. QED
    BY <1>9, <2>1, <2>2
<1>17. /\ FreshSlotsKept /\ \A c : Given(c)' = Given(c)
       /\ \A n, s : CqHolders(n, s)' = CqHolders(n, s)
       /\ \A c \in QPs : Answers(c)' = Answers(c)
  BY <1>4, CqIdle
<1>18. PICK b : /\ b = <<thread[q].nid, thread[q].qp>>
                /\ q \in Servers => /\ b \in Clients /\ thread[q].arg = Live(b)
                                    /\ Live(b)' = Live(b) /\ q \in Served(b)
  <2>1. thread[q].pc \in Serving
    BY <1>5 DEF Serving
  <2>2. PICK c : c = <<thread[q].nid, thread[q].qp>>
    OBVIOUS
  <2>3. q \in Servers => /\ c \in Clients /\ thread[q].arg = Live(c)
                         /\ Live(c)' = Live(c) /\ q \in Served(c)
    BY <1>12, <2>1, <2>2, RequestKept
  <2>4. QED
    BY <2>2, <2>3
<1>19. e.op = "s" => e.buf = (IF q \in Clients THEN Live(q) ELSE Response(thread[q].arg))
  <2>1. EntriesOK(q)
    BY <1>3 DEF QueuePairOK
  <2>2. QED
    BY <1>5, <2>1 DEF EntriesOK, SentOK
<1>20. e.op = "s" => SentOK(q, e)'
  <2>1. CASE q \in Clients
    <3>1. EntriesOK(q)
      BY <1>3 DEF QueuePairOK
    <3>2. e.op = "s" => e.nid = ServerNode[q] /\ t.id = thread[q].id
      BY <1>5, <1>8, <2>1, <3>1 DEF EntriesOK, SentOK
    <3>3. QED
      BY <1>7, <1>19, <2>1, <3>2 DEF SentOK, Live
  <2>2. CASE q \notin Clients
    <3>1. q \in Servers
      BY <2>2, Roles
    <3>2. e.op = "s" => e.nid = thread[q].nid /\ e.qp_num_at_receiver = thread[q].qp
      BY <1>2, <1>5, <3>1, Roles DEF Inv, ServerOK, WqContents
    <3>3. e.op = "s" => <<e.nid, e.qp_num_at_receiver>> = b /\ e.buf = Response(Live(b)')
      BY <1>18, <1>19, <2>2, <3>1, <3>2
    <3>4. QED
      BY <2>2, <3>3 DEF SentOK
  <2>3. QED
    BY <2>1, <2>2
<1>21. QueuePairOK(q)'
  <2>1. EntriesOK(q)'
    <3>1. ASSUME NEW j \in ToServe(wq'[q], wq_pos'[q]), wq'[q].q[j].op = "s"
          PROVE  SentOK(q, wq[q].q[j])'
      <4>1. CASE j = k
        BY <1>13, <1>20, <3>1, <4>1 DEF SentOK
      <4>2. CASE j # k
        <5>1. PICK g : g = wq[q].q[j]
          OBVIOUS
        <5>2. j \in ToServe(wq[q], wq_pos[q]) /\ wq'[q].q[j] = g
          BY <1>11, <1>13, <3>1, <4>2, <5>1
        <5>3. SentOK(q, g)'
          BY <1>12, <3>1, <5>1, <5>2, SentKept
        <5>4. QED
          BY <5>2, <5>3 DEF SentOK
      <4>3. QED
        BY <4>1, <4>2
    <3>2. thread'[q].pc \notin {"send_late", "recv_late"}
      BY <1>7, <1>9 DEF Late
    <3>3. QED
      BY <3>1, <3>2 DEF EntriesOK
  <2>2. ThreadOK(q)'
    <3>1. CASE q \in Clients
      <4>1. thread'[q].pc # "send" /\ ~Holds(thread'[q])
        BY <1>5, <1>7, <1>8, <1>9, <3>1, Roles
      <4>2. QED
        BY <3>1, <4>1 DEF ThreadOK
    <3>2. CASE q \notin Clients
      <4>1. q \in Servers
        BY <3>2, Roles
      <4>2. CASE e.op = "s"
        BY <1>7, <1>8, <3>2, <4>2 DEF ThreadOK, Serving
      <4>3. CASE e.op = "g"
        <5>1. thread'[q].pc = "send" /\ thread'[q].arg = Live(b)'
              /\ <<thread'[q].nid, thread'[q].qp>> = b
          BY <1>7, <1>8, <1>18, <4>1, <4>3
        <5>2. QED
          BY <3>2, <5>1 DEF ThreadOK
      <4>4. QED
        BY <1>5, <4>2, <4>3
    <3>3. QED
      BY <3>1, <3>2
  <2>3. CompletionsOK(q)'
    <3>1. q \in Servers => \A j \in Slots : ~cq'[q].q[j].is_nack
      BY <1>3, <1>11 DEF QueuePairOK, CompletionsOK
    <3>2. QED
      BY <1>11, <1>12, <1>17, <3>1, CompletionsStay
  <2>4. RingsOK(q)'
    BY <1>3, <1>7, <1>11, <1>13 DEF QueuePairOK, RingsOK
  <2>5. QED
    BY <2>1, <2>2, <2>3, <2>4 DEF QueuePairOK
<1>22. ASSUME NEW n \in Nodes, NEW s \in SrqSlots
       PROVE  /\ Free(CqHolders(n, s), ThreadHolders(n, s), WqHolders(n, s)) =>
                     Free(CqHolders(n, s), ThreadHolders(n, s), WqHolders(n, s))'
              /\ Held(CqHolders(n, s), ThreadHolders(n, s), WqHolders(n, s)) =>
                     Held(CqHolders(n, s), ThreadHolders(n, s), WqHolders(n, s))'
  <2>1. q \in ThreadHolders(n, s) <=> e.op = "g" /\ q[1] = n /\ e.slot_idx = s
    BY <1>5, <1>9 DEF ThreadHolders
  <2>2. CASE q \in ThreadHolders(n, s)
    <3>1. WqHolders(n, s)' = WqHolders(n, s) \union {<<q, k>>}
      BY <1>15, <2>1, <2>2
    <3>2. CqHolders(n, s)' = CqHolders(n, s) /\ ThreadHolders(n, s)' = ThreadHolders(n, s) \ {q}
      BY <1>16, <1>17
    <3>3. Held(CqHolders(n, s), ThreadHolders(n, s), WqHolders(n, s)) =>
            Held(CqHolders(n, s), ThreadHolders(n, s) \ {q}, WqHolders(n, s) \union {<<q, k>>})
      BY <2>2, HolderMoves
    <3>4. ~Free(CqHolders(n, s), ThreadHolders(n, s), WqHolders(n, s))
      BY <2>2 DEF Free
    <3>5. QED
      BY <3>1, <3>2, <3>3, <3>4
  <2>3. CASE q \notin ThreadHolders(n, s)
    <3>1. WqHolders(n, s)' = WqHolders(n, s)
      BY <1>15, <2>1, <2>3
    <3>2. CqHolders(n, s)' = CqHolders(n, s) /\ ThreadHolders(n, s)' = ThreadHolders(n, s)
      BY <1>16, <1>17, <2>3
    <3>3. QED
      BY <3>1, <3>2
  <2>4. QED
    BY <2>2, <2>3
<1>23. ASSUME NEW c \in Clients PROVE CallOK(c)'
  <2>1. /\ Flying(c)' = Flying(c) /\ Queued(c)' = Queued(c) /\ Given(c)' = Given(c)
        /\ Answers(c)' = Answers(c) /\ CallOK(c) /\ c \in QPs
    BY <1>4, <1>17, DaemonIdle, Roles DEF Calm
  <2>2. CASE q = c
    <3>1. q \notin Servers /\ Served(c)' = Served(c)
      <4>1. q \notin Servers
        BY <2>2, Roles
      <4>2. q \notin Served(c)
        BY <4>1 DEF Served
      <4>3. QED
        BY <1>16, <4>1, <4>2
    <3>2. Gone(c) /\ Answers(c) = {}
      BY <1>10, <2>2
    <3>3. CASE e.op = "s"
      <4>1. Sent(c)' = {<<q, k>>}
        BY <1>15, <1>19, <2>2, <3>2, <3>3, Ownership DEF Gone
      <4>2. OnlyOne(Sent(c), Flying(c), Queued(c), Given(c), Served(c), Answers(c))'
        BY <2>1, <3>1, <3>2, <4>1 DEF Gone, OnlyOne, Single
      <4>3. QED
        BY <1>7, <1>8, <2>2, <3>3, <4>2 DEF CallOK
    <3>4. CASE e.op = "g"
      <4>1. Sent(c)' = Sent(c)
        BY <1>15, <3>4
      <4>2. Gone(c)' /\ Answers(c)' = {}
        BY <2>1, <3>1, <3>2, <4>1 DEF Gone
      <4>3. thread'[c].pc # "poll"
        BY <1>7, <1>8, <2>2, <3>1, <3>4
      <4>4. QED
        BY <4>2, <4>3 DEF CallOK
    <3>5. QED
      BY <1>5, <3>3, <3>4
  <2>3. CASE q # c
    <3>1. thread'[c] = thread[c]
      BY <1>8, <2>1, <2>3
    <3>2. CASE q \in Served(c) /\ e.op = "s"
      <4>1. q \in Servers /\ thread[q].arg.of = c
        BY <3>2 DEF Served
      <4>2. e.buf.of = c
        <5>1. q \notin Clients /\ thread[q].arg = Live(b)
          BY <1>18, <4>1, Roles
        <5>2. e.buf = Response(Live(b))
          BY <1>19, <3>2, <5>1
        <5>3. Live(b).of = b /\ Response(Live(b)).of = b
          BY Ownership
        <5>4. QED
          BY <4>1, <5>1, <5>2, <5>3
      <4>3. Sent(c)' = Sent(c) \union {<<q, k>>} /\ Served(c)' = Served(c) \ {q}
        BY <1>8, <1>15, <1>16, <3>2, <4>2 DEF Serving
      <4>4. thread[c].pc = "poll"
        BY <2>1, <3>2 DEF CallOK, Gone
      <4>5. OnlyOne(Sent(c), Flying(c), Queued(c), Given(c), Served(c), Answers(c))
        BY <2>1, <4>4 DEF CallOK
      <4>6. OnlyOne(Sent(c) \union {<<q, k>>}, Flying(c), Queued(c), Given(c), Served(c) \ {q}, Answers(c))
        BY <3>2, <4>5, TraceMoves
      <4>7. QED
        BY <2>1, <3>1, <4>3, <4>4, <4>6 DEF CallOK
    <3>3. CASE ~(q \in Served(c) /\ e.op = "s")
      <4>1. e.op = "s" => e.buf.of # c
        <5>1. CASE q \in Clients
          BY <1>19, <2>3, <5>1, Ownership
        <5>2. CASE q \notin Clients
          BY <1>18, <1>19, <3>3, <5>2, Ownership, Roles
        <5>3. QED
          BY <5>1, <5>2
      <4>2. Sent(c)' = Sent(c)
        BY <1>15, <4>1
      <4>3. Served(c)' = Served(c)
        <5>1. CASE e.op = "s"
          BY <1>8, <1>16, <3>3, <5>1 DEF Serving
        <5>2. CASE e.op = "g"
          <6>1. q \in Served(c) <=> q \in Servers /\ t.pc \in Serving /\ t.arg.of = c
            BY <1>5, <1>8, <5>2 DEF Served, Serving
          <6>2. QED
            BY <1>16, <6>1
        <5>3. QED
          BY <1>5, <5>1, <5>2
      <4>4. QED
        BY <2>1, <3>1, <4>2, <4>3, CallStays
    <3>4. QED
      BY <3>2, <3>3
  <2>4. QED
    BY <2>2, <2>3
<1>24. QED
  BY <1>4, <1>6, <1>8, <1>11, <1>12, <1>21, <1>22, <1>23, CallCalm
\* A completion is polled: the slot it names, and a server's request, go from the
\* CQ to the thread; a client has its answer, and no trace of the call is left.
LEMMA PollCalm ==
    ASSUME Inv, Calm, NEW q \in QPs, rmc_poll_cq_rpc(q)
    PROVE  Calm'
<1>1. Shape
  BY DEF Inv
<1>2. QueuePairOK(q)
  BY DEF Calm
<1>3. /\ UNCHANGED <<wq, daemonVars>> /\ thread[q].pc = "poll"
      /\ cq[q].q[cq[q].tail].SR = cq[q].SR
  BY DEF rmc_poll_cq_rpc, CompletionVisible
<1>4. wq_pos' = wq_pos /\ wq' = wq /\ cq_pos' = cq_pos /\ recv_slots' = recv_slots
  BY <1>3 DEF daemonVars
<1>5. /\ cq[q] \in CqType /\ cq_pos[q] \in CqPosType /\ thread[q] \in ThreadType
      /\ cq[q].q[cq[q].tail] \in CqEntries
  BY <1>1, QPShape
<1>6. \A p \in QPs \ {q} : cq'[p] = cq[p] /\ thread'[p] = thread[p]
  BY <1>1, PollEffect, Zenon
<1>7. cq'[q] = [q |-> cq[q].q, tail |-> Advance(cq[q].tail), SR |-> Phase(cq[q].tail, cq[q].SR)]
  BY <1>1, PollEffect, Zenon
<1>8. PICK k, e, t : k = cq[q].tail /\ e = cq[q].q[k] /\ t = thread'[q]
  OBVIOUS
<1>9. /\ \A p \in QPs \ {q} : cq'[p] = cq[p] /\ thread'[p] = thread[p]
      /\ cq'[q].q = cq[q].q /\ cq'[q].tail = Advance(k) /\ cq'[q].SR = Phase(k, cq[q].SR)
  BY <1>6, <1>7, <1>8
<1>10. q \in Clients /\ e.is_nack => TestsNack
  <2>1. cq[q].tail \in ToRead(cq[q], cq_pos[q])
    BY <1>2, <1>3, <1>5, <1>7, PollMarks DEF QueuePairOK, RingsOK
  <2>2. CompletionOK(q, e)
    BY <1>2, <1>8, <2>1 DEF QueuePairOK, CompletionsOK
  <2>3. QED
    BY <2>2 DEF CompletionOK
<1>11. IF q \in Clients /\ e.is_nack
       THEN t.pc = "idle"
       ELSE /\ t.pc = "recv" /\ t.id = thread[q].id
            /\ t.nid = e.sending_nid /\ t.qp = e.sending_qp
            /\ t.slot = e.slot_idx /\ t.arg = recv_slots[q[1]][e.slot_idx]
  <2>1. CASE q \in Clients /\ e.is_nack
    <3>1. thread' = [thread EXCEPT ![q] = NextCall(@)]
      BY <1>10, <1>8, <2>1 DEF rmc_poll_cq_rpc
    <3>2. QED
      BY <1>1, <1>8, <2>1, <3>1 DEF Shape, NextCall, Thread
  <2>2. CASE ~(q \in Clients /\ e.is_nack)
    <3>1. thread' = [thread EXCEPT ![q] =
              [@ EXCEPT !.pc = "recv", !.nid = e.sending_nid, !.qp = e.sending_qp,
                        !.slot = e.slot_idx, !.arg = recv_slots[q[1]][e.slot_idx]]]
      BY <1>8, <2>2 DEF rmc_poll_cq_rpc
    <3>2. QED
      BY <1>1, <1>5, <1>8, <2>2, <3>1 DEF Shape, ThreadType
  <2>3. QED
    BY <2>1, <2>2
<1>12. /\ CqMarks(cq'[q], cq_pos[q]) /\ k \in ToRead(cq[q], cq_pos[q])
       /\ ToRead(cq'[q], cq_pos[q]) = ToRead(cq[q], cq_pos[q]) \ {k}
  <2> DEFINE c == cq[q]
             d == cq_pos[q]
             c2 == cq'[q]
  <2>1. /\ c \in CqType /\ d \in CqPosType /\ CqMarks(c, d) /\ c.q[c.tail].SR = c.SR
        /\ c2.q = c.q /\ c2.tail = Advance(c.tail) /\ c2.SR = Phase(c.tail, c.SR)
    BY <1>2, <1>3, <1>5, <1>8, <1>9 DEF QueuePairOK, RingsOK
  <2> HIDE DEF c, d, c2
  <2>2. /\ c.tail \in ToRead(c, d) /\ CqMarks(c2, d)
        /\ ToRead(c2, d) = ToRead(c, d) \ {c.tail}
    BY <2>1, PollMarks
  <2>3. QED
    BY <1>8, <2>2 DEF c, d, c2
<1>13. CompletionOK(q, e)
  BY <1>2, <1>8, <1>12 DEF QueuePairOK, CompletionsOK
<1>14. q \in Servers => ~e.is_nack /\ q \notin Clients
  <2>1. k \in Slots
    BY <1>5, <1>8 DEF CqType
  <2>2. QED
    BY <1>2, <1>8, <2>1, Roles DEF QueuePairOK, CompletionsOK
<1>15. q \in Clients => Gone(q) /\ Answers(q) = {k}
  <2>1. q \in Clients => OnlyOne(Sent(q), Flying(q), Queued(q), Given(q), Served(q), Answers(q))
    BY <1>3 DEF Calm, CallOK
  <2>2. k \in Answers(q)
    BY <1>12 DEF Answers
  <2>3. QED
    BY <2>1, <2>2, Lone DEF Gone
<1>16. IdsKept
  <2>1. \A c \in Clients \ {q} : thread'[c].id = thread[c].id
    BY <1>9, Roles
  <2>2. q \in Clients => Gone(q) /\ ToRead(cq'[q], cq_pos'[q]) = {}
    BY <1>4, <1>12, <1>15 DEF Answers
  <2>3. QED
    BY <2>1, <2>2 DEF IdsKept
<1>17. LessFresh(q, k) /\ \A p \in QPs \ {q} : SameFresh(p)
  BY <1>4, <1>9, <1>12 DEF LessFresh, SameFresh
<1>18. /\ \A c : /\ Given(c)' = Given(c) \ {<<q, k>>}
                 /\ <<q, k>> \in Given(c) <=> q \in Servers /\ recv_slots[q[1]][e.slot_idx].of = c
       /\ \A n, s : /\ CqHolders(n, s)' = CqHolders(n, s) \ {<<q, k>>}
                    /\ <<q, k>> \in CqHolders(n, s) <=> q[1] = n /\ ~e.is_nack /\ e.slot_idx = s
       /\ \A c \in QPs \ {q} : Answers(c)' = Answers(c)
       /\ Answers(q)' = Answers(q) \ {k}
  <2>1. recv_slots' = recv_slots
    BY <1>4
  <2>2. e = cq[q].q[k]
    BY <1>8
  <2>3. QED
    BY <1>17, <2>1, <2>2, FreshShrinks
<1>19. /\ \A c : Served(c)' = (Served(c) \ {q}) \union
                    (IF q \in Servers /\ t.pc \in Serving /\ t.arg.of = c THEN {q} ELSE {})
       /\ \A n, s : ThreadHolders(n, s)' = (ThreadHolders(n, s) \ {q}) \union
                    (IF q[1] = n /\ Holds(t) /\ t.slot = s THEN {q} ELSE {})
  BY <1>8, <1>9, ThreadSteps
<1>20. \A c : q \notin Served(c) /\ \A n, s : q \notin ThreadHolders(n, s)
  BY <1>3 DEF Served, Serving, ThreadHolders, Holds
<1>21. /\ \A c : Sent(c)' = Sent(c)
       /\ \A n, s : WqHolders(n, s)' = WqHolders(n, s)
  <2>1. \A p \in QPs : SameTodo(p)
    BY <1>4 DEF SameTodo
  <2>2. QED
    BY <2>1, TodoSame
<1>22. Holds(t) <=> ~(q \in Clients /\ e.is_nack)
  BY <1>11 DEF Holds
<1>23. FreshSlotsKept
  BY <1>4 DEF FreshSlotsKept
<1>24. QueuePairOK(q)'
  <2>1. ~Late(thread[q]) /\ ~Late(thread'[q])
    BY <1>3, <1>8, <1>11 DEF Late
  <2>2. RingsOK(q)'
    <3>1. WqMarks(wq[q], wq_pos[q], thread'[q])
      BY <1>2, <2>1 DEF QueuePairOK, RingsOK, WqMarks
    <3>2. QED
      BY <1>4, <1>12, <3>1 DEF RingsOK
  <2>3. EntriesOK(q)'
    <3>1. ASSUME NEW j \in ToServe(wq'[q], wq_pos'[q]), wq'[q].q[j].op = "s"
          PROVE  SentOK(q, wq[q].q[j])'
      <4>1. PICK g : g = wq[q].q[j]
        OBVIOUS
      <4>2. SentOK(q, g)'
        BY <1>4, <1>16, <3>1, <4>1, SentKept
      <4>3. QED
        BY <1>4, <4>1, <4>2 DEF SentOK
    <3>2. QED
      BY <2>1, <3>1 DEF EntriesOK, Late
  <2>4. CompletionsOK(q)'
    <3>1. q \in Servers => \A j \in Slots : ~cq'[q].q[j].is_nack
      BY <1>2, <1>9 DEF QueuePairOK, CompletionsOK
    <3>2. \A j \in ToRead(cq'[q], cq_pos'[q]) :
             j \in ToRead(cq[q], cq_pos[q]) /\ cq'[q].q[j] = cq[q].q[j]
      BY <1>4, <1>9, <1>12
    <3>3. QED
      BY <1>16, <1>23, <3>1, <3>2, CompletionsStay
  <2>5. ThreadOK(q)'
    <3>1. CASE q \in Clients
      <4>1. t.pc # "send" /\ (Holds(t) => t.arg = Response(Live(q)) /\ t.id = thread[q].id)
        BY <1>11, <1>13, <1>22, <3>1 DEF CompletionOK
      <4>2. QED
        BY <1>8, <3>1, <4>1 DEF ThreadOK, Live
    <3>2. CASE q \notin Clients
      <4>1. PICK c : c = <<e.sending_nid, e.sending_qp>>
        OBVIOUS
      <4>2. q \in Servers /\ c \in Clients
        BY <1>8, <1>12, <3>2, <4>1, Roles DEF Inv, ServerOK, CqInv
      <4>3. recv_slots[q[1]][e.slot_idx] = Live(c)
        BY <1>13, <3>2, <4>1 DEF CompletionOK
      <4>4. <<q, k>> \in Given(c)
        BY <1>18, <4>2, <4>3, Ownership
      <4>5. Live(c)' = Live(c)
        BY <1>16, <4>2, <4>4, LiveKept DEF Gone
      <4>6. t.arg = Live(c)' /\ <<t.nid, t.qp>> = c /\ t.pc \notin {"idle", "reg_wq", "reg_cq"}
        BY <1>11, <3>2, <4>1, <4>3, <4>5
      <4>7. QED
        BY <1>8, <3>2, <4>6 DEF ThreadOK
    <3>3. QED
      BY <3>1, <3>2
  <2>6. QED
    BY <2>2, <2>3, <2>4, <2>5 DEF QueuePairOK
<1>25. ASSUME NEW n \in Nodes, NEW s \in SrqSlots
       PROVE  /\ Free(CqHolders(n, s), ThreadHolders(n, s), WqHolders(n, s)) =>
                     Free(CqHolders(n, s), ThreadHolders(n, s), WqHolders(n, s))'
              /\ Held(CqHolders(n, s), ThreadHolders(n, s), WqHolders(n, s)) =>
                     Held(CqHolders(n, s), ThreadHolders(n, s), WqHolders(n, s))'
  <2>1. WqHolders(n, s)' = WqHolders(n, s) /\ CqHolders(n, s)' = CqHolders(n, s) \ {<<q, k>>}
    BY <1>18, <1>21
  <2>2. CASE <<q, k>> \in CqHolders(n, s)
    <3>1. q[1] = n /\ ~e.is_nack /\ e.slot_idx = s
      BY <1>18, <2>2
    <3>2. Holds(t) /\ t.slot = s
      BY <1>11, <1>22, <3>1
    <3>3. ThreadHolders(n, s)' = ThreadHolders(n, s) \union {q}
      BY <1>19, <1>20, <3>1, <3>2
    <3>4. Held(CqHolders(n, s), ThreadHolders(n, s), WqHolders(n, s)) =>
            Held(CqHolders(n, s) \ {<<q, k>>}, ThreadHolders(n, s) \union {q}, WqHolders(n, s))
      BY <2>2, HolderMoves
    <3>5. ~Free(CqHolders(n, s), ThreadHolders(n, s), WqHolders(n, s))
      BY <2>2 DEF Free
    <3>6. QED
      BY <2>1, <3>3, <3>4, <3>5
  <2>3. CASE <<q, k>> \notin CqHolders(n, s)
    <3>1. ~(q[1] = n /\ Holds(t) /\ t.slot = s)
      <4>1. ~(q[1] = n /\ ~e.is_nack /\ e.slot_idx = s)
        BY <1>18, <2>3
      <4>2. Holds(t) => t.slot = e.slot_idx /\ ~e.is_nack
        BY <1>11, <1>14, <1>22, Roles
      <4>3. QED
        BY <4>1, <4>2
    <3>2. ThreadHolders(n, s)' = ThreadHolders(n, s)
      BY <1>19, <1>20, <3>1
    <3>3. CqHolders(n, s)' = CqHolders(n, s)
      BY <2>1, <2>3
    <3>4. QED
      BY <2>1, <3>2, <3>3
  <2>4. QED
    BY <2>2, <2>3
<1>26. ASSUME NEW c \in Clients PROVE CallOK(c)'
  <2>1. /\ Flying(c)' = Flying(c) /\ Queued(c)' = Queued(c) /\ Sent(c)' = Sent(c)
        /\ CallOK(c) /\ c \in QPs /\ Given(c)' = Given(c) \ {<<q, k>>}
    BY <1>3, <1>18, <1>21, DaemonIdle, Roles DEF Calm
  <2>2. CASE q = c
    <3>1. q \notin Servers
      BY <2>2, Roles
    <3>2. Served(c)' = Served(c)
      BY <1>19, <1>20, <3>1
    <3>3. Gone(c)' /\ Answers(c)' = {}
      BY <1>15, <1>18, <2>1, <2>2, <3>2 DEF Gone
    <3>4. thread'[c].pc # "poll"
      BY <1>8, <1>11, <2>2
    <3>5. QED
      BY <3>3, <3>4 DEF CallOK
  <2>3. CASE q # c
    <3>1. thread'[c] = thread[c] /\ Answers(c)' = Answers(c)
      BY <1>9, <1>18, <2>1, <2>3
    <3>2. CASE <<q, k>> \in Given(c)
      <4>1. q \in Servers /\ recv_slots[q[1]][e.slot_idx].of = c
        BY <1>18, <3>2
      <4>2. t.pc = "recv" /\ t.arg.of = c
        BY <1>11, <1>14, <4>1
      <4>3. Served(c)' = Served(c) \union {q}
        BY <1>19, <1>20, <4>1, <4>2 DEF Serving
      <4>4. thread[c].pc = "poll"
        BY <2>1, <3>2 DEF CallOK, Gone
      <4>5. OnlyOne(Sent(c), Flying(c), Queued(c), Given(c), Served(c), Answers(c))
        BY <2>1, <4>4 DEF CallOK
      <4>6. OnlyOne(Sent(c), Flying(c), Queued(c), Given(c) \ {<<q, k>>}, Served(c) \union {q}, Answers(c))
        BY <3>2, <4>5, TraceMoves
      <4>7. QED
        BY <2>1, <3>1, <4>3, <4>4, <4>6 DEF CallOK
    <3>3. CASE <<q, k>> \notin Given(c)
      <4>1. ~(q \in Servers /\ t.arg.of = c)
        BY <1>11, <1>14, <1>18, <3>3
      <4>2. Served(c)' = Served(c)
        BY <1>19, <1>20, <4>1
      <4>3. Given(c)' = Given(c)
        BY <2>1, <3>3
      <4>4. QED
        BY <2>1, <3>1, <4>2, <4>3, CallStays
    <3>4. QED
      BY <3>2, <3>3
  <2>4. QED
    BY <2>2, <2>3
<1>27. QED
  BY <1>3, <1>4, <1>9, <1>16, <1>24, <1>25, <1>26, CallCalm
(***************************************************************************)
(* The daemons' steps keep Calm: a WQ entry is served.                     *)
(***************************************************************************)

\* The threads do not move.
LEMMA ThreadIdle ==
    ASSUME thread' = thread
    PROVE  /\ IdsKept /\ \A c : Live(c)' = Live(c)
           /\ \A c : Served(c)' = Served(c)
           /\ \A n, s : ThreadHolders(n, s)' = ThreadHolders(n, s)
<1>1. IdsKept
  BY DEF IdsKept
<1>2. \A c : Live(c)' = Live(c)
  BY DEF Live
<1>3. \A c : Served(c)' = Served(c)
  BY DEF Served
<1>4. \A n, s : ThreadHolders(n, s)' = ThreadHolders(n, s)
  BY DEF ThreadHolders
<1>5. QED
  BY <1>1, <1>2, <1>3, <1>4

\* The daemon is done with an entry: it was one to be served, and is no more.
LEMMA EntryServed ==
    ASSUME Inv, Calm, Deployment, NEW q \in QPs, EntryReady(q), EntryDone(q),
           NEW k, k = wq_pos[q].tail
    PROVE  /\ LessTodo(q, k) /\ \A p \in QPs \ {q} : SameTodo(p)
           /\ \A p \in QPs \ {q} : wq'[p] = wq[p] /\ wq_pos'[p] = wq_pos[p]
           /\ WqMarks(wq'[q], wq_pos'[q], thread[q])
           /\ wq'[q].head = wq[q].head
           /\ Late(thread[q]) => wq'[q].q[wq[q].head] = wq[q].q[wq[q].head]
<1>1. Shape
  BY DEF Inv
<1>2. /\ wq[q] \in WqType /\ wq_pos[q] \in WqPosType /\ k \in Slots
      /\ wq[q].q \in [Slots -> WqEntries] /\ wq[q].head \in Slots /\ wq[q].q[k] \in WqEntries
  BY <1>1, QPShape DEF Current
<1>3. WqMarks(wq[q], wq_pos[q], thread[q])
  BY DEF Calm, QueuePairOK, RingsOK
<1>4. /\ Current(q) = wq[q].q[k] /\ Current(q).SR = wq_pos[q].SR
      /\ ~(Late(thread[q]) /\ wq[q].head = k)
  BY ReadyEntry
<1>5. PICK f : f = [wq[q].q[k] EXCEPT !.valid = 0]
  OBVIOUS
<1>6. f.valid = 0 /\ f.SR = wq[q].q[k].SR
  BY <1>2, <1>5 DEF WqEntries
<1>7. \A p \in QPs \ {q} : wq'[p] = wq[p] /\ wq_pos'[p] = wq_pos[p]
  BY <1>1, EntryDoneType, Zenon
<1>8. wq'[q] = [q |-> [wq[q].q EXCEPT ![k] = f], head |-> wq[q].head, SR |-> wq[q].SR]
  <2>1. wq'[q] = [q |-> [wq[q].q EXCEPT ![wq_pos[q].tail] = [Current(q) EXCEPT !.valid = 0]],
                  head |-> wq[q].head, SR |-> wq[q].SR]
    BY <1>1, EntryDoneType, Zenon
  <2>2. QED
    BY <1>4, <1>5, <2>1
<1>9. wq_pos'[q] = [tail |-> Advance(wq_pos[q].tail), SR |-> Phase(wq_pos[q].tail, wq_pos[q].SR)]
  BY <1>1, EntryDoneType, Zenon
<1> DEFINE r == wq[q]
           p == wq_pos[q]
           th == thread[q]
           r2 == wq'[q]
           p2 == wq_pos'[q]
<1>10. /\ r \in WqType /\ p \in WqPosType /\ WqMarks(r, p, th) /\ r.q[p.tail].SR = p.SR
       /\ ~(Late(th) /\ r.head = p.tail) /\ f.valid = 0 /\ f.SR = r.q[p.tail].SR
       /\ r2.head = r.head /\ r2.SR = r.SR
       /\ r2.q[p.tail] = f /\ \A j \in Slots \ {p.tail} : r2.q[j] = r.q[j]
       /\ p2.tail = Advance(p.tail) /\ p2.SR = Phase(p.tail, p.SR)
  BY <1>2, <1>3, <1>4, <1>6, <1>8, <1>9
<1> HIDE DEF r, p, th, r2, p2
<1>11. /\ p.tail \in ToServe(r, p) /\ WqMarks(r2, p2, th)
       /\ ToServe(r2, p2) = ToServe(r, p) \ {p.tail}
       /\ r2.head = r.head /\ \A j \in Slots \ {p.tail} : r2.q[j] = r.q[j]
  BY <1>10, ServeMarks
<1>12. ToServe(r, p) \subseteq Slots
  BY DEF ToServe, Stretch
<1>13. /\ k \in ToServe(wq[q], wq_pos[q]) /\ WqMarks(wq'[q], wq_pos'[q], thread[q])
       /\ ToServe(wq'[q], wq_pos'[q]) = ToServe(wq[q], wq_pos[q]) \ {k}
       /\ wq'[q].head = wq[q].head /\ \A j \in Slots \ {k} : wq'[q].q[j] = wq[q].q[j]
       /\ ToServe(wq[q], wq_pos[q]) \subseteq Slots
  BY <1>11, <1>12 DEF r, p, th, r2, p2
<1>14. LessTodo(q, k)
  BY <1>13 DEF LessTodo
<1>15. \A j \in QPs \ {q} : SameTodo(j)
  BY <1>7 DEF SameTodo
<1>16. Late(thread[q]) => wq'[q].q[wq[q].head] = wq[q].q[wq[q].head]
  BY <1>2, <1>4, <1>13
<1>17. QED
  BY <1>7, <1>13, <1>14, <1>15, <1>16

\* What that leaves as it was.
LEMMA ServedCalm ==
    ASSUME Inv, Calm, Deployment, NEW q \in QPs, EntryReady(q), EntryDone(q),
           cq' = cq, cq_pos' = cq_pos, recv_slots' = recv_slots, thread' = thread
    PROVE  /\ IdsKept /\ \A p \in QPs : QueuePairOK(p)'
           /\ \A c : Served(c)' = Served(c) /\ Given(c)' = Given(c)
           /\ \A n, s : /\ ThreadHolders(n, s)' = ThreadHolders(n, s)
                        /\ CqHolders(n, s)' = CqHolders(n, s)
           /\ \A c \in QPs : Answers(c)' = Answers(c)
<1>1. IdsKept /\ FreshSlotsKept /\ \A p \in QPs : SameFresh(p)
  BY DEF IdsKept, FreshSlotsKept, SameFresh
<1>2. PICK k : k = wq_pos[q].tail
  OBVIOUS
<1>3. /\ LessTodo(q, k)
      /\ \A p \in QPs \ {q} : wq'[p] = wq[p] /\ wq_pos'[p] = wq_pos[p]
      /\ WqMarks(wq'[q], wq_pos'[q], thread[q]) /\ wq'[q].head = wq[q].head
      /\ Late(thread[q]) => wq'[q].q[wq[q].head] = wq[q].q[wq[q].head]
  BY <1>2, EntryServed
<1>4. QueuePairOK(q)'
  <2>1. RingsOK(q) /\ (q \in Servers => \A j \in Slots : ~cq'[q].q[j].is_nack)
    BY DEF Calm, QueuePairOK, CompletionsOK
  <2>2. RingsOK(q)'
    BY <1>3, <2>1 DEF RingsOK
  <2>3. Late(thread[q]) => WqSlot(q)' = WqSlot(q)
    BY <1>3 DEF WqSlot
  <2>4. \A j \in ToServe(wq'[q], wq_pos'[q]) :
           j \in ToServe(wq[q], wq_pos[q]) /\ wq'[q].q[j] = wq[q].q[j]
    BY <1>3 DEF LessTodo
  <2>5. QED
    BY <1>1, <2>1, <2>2, <2>3, <2>4, QueuePairStays
<1>5. \A p \in QPs \ {q} : QueuePairOK(p)'
  BY <1>1, <1>3, QueuePairAlone
<1>6. \A p \in Servers : \A j \in Slots : ~cq[p].q[j].is_nack
  BY Roles DEF Calm, QueuePairOK, CompletionsOK
<1>7. /\ \A c : Given(c)' = Given(c) /\ \A s : CqHolders(c, s)' = CqHolders(c, s)
      /\ \A c \in QPs : Answers(c)' = Answers(c)
  BY <1>1, <1>6, FreshSame
<1>8. /\ \A c : Served(c)' = Served(c)
      /\ \A n, s : ThreadHolders(n, s)' = ThreadHolders(n, s)
  BY ThreadIdle
<1>9. QED
  BY <1>1, <1>4, <1>5, <1>7, <1>8

\* An SRQ that no step touches, whose slots keep their holders.
LEMMA SlotAlone ==
    ASSUME Inv, Calm, IdsKept, NEW n \in Nodes, NEW s \in SrqSlots,
           srq'[n] = srq[n], recv_slots'[n] = recv_slots[n],
           CqHolders(n, s)' = CqHolders(n, s), ThreadHolders(n, s)' = ThreadHolders(n, s),
           WqHolders(n, s)' = WqHolders(n, s)
    PROVE  SlotOK(n, s)'
<1>1. UsedInQueue(srq'[n])
  BY CalmQueue
<1>2. QED
  BY <1>1, SlotStays

\* A message is sent to a daemon that is up.
LEMMA SendEffect ==
    ASSUME Shape, NEW ch \in NetType, NEW i \in Nodes, NEW n \in Nodes, NEW m \in MessageType, up[n],
           NEW ch2, ch2 = SendTo(ch, i, n, m)
    PROVE  ch2 \in NetType /\ SentMessages(ch, ch2, i, n, m) /\ SentTraces(ch, ch2, n, m)
<1>1. ch2 = [ch EXCEPT ![i][n] = Append(@, m)]
  BY DEF SendTo
<1>2. ch2 \in NetType
  <2>1. SendTo(ch, i, n, m) \in NetType
    BY NetTypes
  <2>2. QED
    BY <2>1
<1>3. Sends(ch, ch2, i, n, m)
  BY <1>1 DEF NetType, Sends
<1>4. SentMessages(ch, ch2, i, n, m) /\ SentTraces(ch, ch2, n, m)
  BY <1>2, <1>3, FlyingSent, Zenon
<1>5. QED
  BY <1>2, <1>4

\* The first message of a channel is taken.
LEMMA TakeEffect ==
    ASSUME Inv, NEW i \in Nodes, NEW n \in Nodes, net[i][n] # << >>,
           NEW m, m = Head(net[i][n]), NEW ch2, ch2 = Taken(i, n)
    PROVE  /\ ch2 \in NetType /\ TakenMessages(net, ch2, i, n) /\ TakenTraces(net, ch2, i, n, m)
           /\ \E k \in 1 .. Len(net[i][n]) : m = net[i][n][k]
           /\ m \in MessageType /\ MessageOK(i, n, m)
<1>1. ch2 \in NetType /\ m \in MessageType /\ MessageOK(i, n, m)
  BY TakenMessage
<1>2. PICK ch \in NetType : ch = net
  BY DEF Inv, Shape
<1>3. ch2 = [ch EXCEPT ![i][n] = Tail(@)]
  BY <1>2 DEF Taken
<1>4. Takes(ch, ch2, i, n)
  BY <1>3 DEF NetType, Takes
<1>5. /\ TakenMessages(ch, ch2, i, n) /\ TakenTraces(ch, ch2, i, n, Head(ch[i][n]))
      /\ \E k \in 1 .. Len(ch[i][n]) : Head(ch[i][n]) = ch[i][n][k]
  <2>1. ch[i][n] # << >>
    BY <1>2
  <2>2. QED
    BY <1>1, <1>4, <2>1, FlyingTaken, Zenon
<1>6. QED
  BY <1>1, <1>2, <1>5

\* case 's': the message takes the place of the entry.
LEMMA RmcSendCalm ==
    ASSUME Inv, Calm, Deployment, NEW q \in QPs, RmcSend(q)
    PROVE  Calm'
<1>1. Shape
  BY DEF Inv
<1>2. PICK k, e, m : /\ k = wq_pos[q].tail /\ e = Current(q)
                     /\ m = Message("s", e.send_qp_terminate, QpStamp(q, e), e.buf)
  OBVIOUS
<1>3. /\ EntryReady(q) /\ EntryDone(q) /\ e.op = "s" /\ net' = SendTo(net, q[1], e.nid, m)
      /\ cq' = cq /\ cq_pos' = cq_pos /\ recv_slots' = recv_slots /\ thread' = thread
      /\ srq' = srq /\ up' = up
  BY <1>2 DEF RmcSend
<1>4. /\ e \in WqEntries /\ e.nid \in Nodes /\ q[1] \in Nodes
      /\ e.send_qp_terminate \in BOOLEAN /\ e.buf \in Payloads
      /\ e.qp_num_at_receiver \in Int /\ q[2] \in Int /\ q = <<q[1], q[2]>>
  BY <1>1, <1>2, QPShape, QPType DEF WqEntries
<1>5. e = wq[q].q[k] /\ (q \in Clients => ~e.send_qp_terminate)
  BY <1>2, <1>3, ReadyEntry
<1>6. /\ LessTodo(q, k) /\ \A p \in QPs \ {q} : SameTodo(p)
  BY <1>2, <1>3, EntryServed
<1>7. k \in ToServe(wq[q], wq_pos[q])
  BY <1>6 DEF LessTodo
<1>8. /\ IdsKept /\ \A p \in QPs : QueuePairOK(p)'
      /\ \A c : Served(c)' = Served(c) /\ Given(c)' = Given(c)
      /\ \A n, s : /\ ThreadHolders(n, s)' = ThreadHolders(n, s)
                   /\ CqHolders(n, s)' = CqHolders(n, s)
      /\ \A c \in QPs : Answers(c)' = Answers(c)
  BY <1>3, ServedCalm
<1>9. /\ \A c : /\ Sent(c)' = Sent(c) \ {<<q, k>>}
                /\ <<q, k>> \in Sent(c) <=> e.op = "s" /\ e.buf.of = c
      /\ \A n, s : /\ WqHolders(n, s)' = WqHolders(n, s) \ {<<q, k>>}
                   /\ <<q, k>> \in WqHolders(n, s) <=> e.op = "g" /\ q[1] = n /\ e.slot_idx = s
  BY <1>5, <1>6, TodoShrinks
<1>10. /\ m.type = "s" /\ m.term = e.send_qp_terminate /\ m.qp = QpStamp(q, e)
       /\ m.payload = e.buf /\ m \in MessageType
  <2>1. QpStamp(q, e) \in Int
    BY <1>4 DEF QpStamp
  <2>2. QED
    BY <1>2, <1>4, <2>1 DEF Message, MessageType
<1>11. SentMessages(net, net', q[1], e.nid, m) /\ SentTraces(net, net', e.nid, m)
  <2>1. up[e.nid] /\ net \in NetType
    BY <1>1, <1>4 DEF Calm, Shape
  <2>2. QED
    BY <1>1, <1>3, <1>4, <1>10, <2>1, SendEffect
<1>12. PayloadOK(q[1], e.nid, m)'
  <2>1. SentOK(q, e)'
    BY <1>3, <1>5, <1>7, <1>8, SentKept
  <2>2. CASE q \in Clients
    <3>1. ~m.term /\ m.qp = q[2]
      BY <1>5, <1>10, <2>2 DEF QpStamp
    <3>2. m.payload = Live(q)' /\ e.nid = ServerNode[q]
      BY <1>10, <2>1, <2>2 DEF SentOK
    <3>3. <<q[1], m.qp>> = q
      BY <1>4, <3>1
    <3>4. QED
      BY <3>1, <3>2, <3>3 DEF PayloadOK
  <2>3. CASE q \notin Clients
    <3>1. e.send_qp_terminate
      BY <1>3, <1>5, <1>7, <2>3, Roles DEF Inv, ServerOK, WqContents
    <3>2. m.term /\ m.qp = e.qp_num_at_receiver
      BY <1>10, <3>1 DEF QpStamp
    <3>3. m.payload = Response(Live(<<e.nid, e.qp_num_at_receiver>>))'
      BY <1>10, <2>1, <2>3 DEF SentOK
    <3>4. QED
      BY <3>2, <3>3 DEF PayloadOK
  <2>4. QED
    BY <2>2, <2>3
<1>13. ASSUME NEW j \in Nodes, NEW h \in Nodes, NEW i \in 1 .. Len(net'[j][h])
       PROVE  PayloadOK(j, h, net[j][h][i])'
  <2>1. CASE \E k2 \in 1 .. Len(net[j][h]) : net'[j][h][i] = net[j][h][k2]
    BY <1>8, <2>1, PayloadsStay
  <2>2. CASE j = q[1] /\ h = e.nid /\ net'[j][h][i] = m
    BY <1>12, <2>2 DEF PayloadOK
  <2>3. \/ \E k2 \in 1 .. Len(net[j][h]) : net'[j][h][i] = net[j][h][k2]
        \/ j = q[1] /\ h = e.nid /\ net'[j][h][i] = m
    BY <1>11 DEF SentMessages
  <2>4. QED
    BY <2>1, <2>2, <2>3, Zenon
<1>14. ASSUME NEW n \in Nodes, NEW s \in SrqSlots PROVE SlotOK(n, s)'
  <2>1. WqHolders(n, s)' = WqHolders(n, s)
    BY <1>3, <1>9
  <2>2. QED
    BY <1>3, <1>8, <2>1, SlotAlone
<1>15. ASSUME NEW c \in Clients PROVE CallOK(c)'
  <2>1. /\ Queued(c)' = Queued(c) /\ Given(c)' = Given(c) /\ Served(c)' = Served(c)
        /\ Answers(c)' = Answers(c) /\ thread'[c] = thread[c] /\ CallOK(c)
    <3>1. Queued(c)' = Queued(c)
      BY <1>3 DEF Queued, Serves
    <3>2. QED
      BY <1>3, <1>8, <3>1, Roles DEF Calm
  <2>2. IsTrace(m, e.nid, c) <=> <<q, k>> \in Sent(c)
    BY <1>3, <1>9, <1>10 DEF IsTrace
  <2>3. CASE <<q, k>> \in Sent(c)
    <3>1. PICK x : Flying(c)' = Flying(c) \union {x}
      BY <1>11, <2>2, <2>3 DEF Flying, SentTraces
    <3>2. thread[c].pc = "poll"
      BY <2>1, <2>3 DEF CallOK, Gone
    <3>3. OnlyOne(Sent(c), Flying(c), Queued(c), Given(c), Served(c), Answers(c))
      BY <2>1, <3>2 DEF CallOK
    <3>4. OnlyOne(Sent(c) \ {<<q, k>>}, Flying(c) \union {x}, Queued(c), Given(c), Served(c), Answers(c))
      BY <2>3, <3>3, TraceMoves
    <3>5. Sent(c)' = Sent(c) \ {<<q, k>>}
      BY <1>9
    <3>6. QED
      BY <2>1, <3>1, <3>2, <3>4, <3>5 DEF CallOK
  <2>4. CASE <<q, k>> \notin Sent(c)
    <3>1. Flying(c)' = Flying(c)
      BY <1>11, <2>2, <2>4 DEF Flying, SentTraces
    <3>2. Sent(c)' = Sent(c)
      BY <1>9, <2>4
    <3>3. QED
      BY <2>1, <3>1, <3>2, CallStays
  <2>5. QED
    BY <2>3, <2>4
<1>16. \A n \in Nodes : up'[n]
  BY <1>3 DEF Calm
<1>17. QED
  BY <1>8, <1>13, <1>14, <1>15, <1>16 DEF Calm

\* An entry that is ready is one to be served.
LEMMA ReadyServed ==
    ASSUME Inv, Calm, Deployment, NEW q \in QPs, EntryReady(q)
    PROVE  wq_pos[q].tail \in ToServe(wq[q], wq_pos[q])
<1> DEFINE r == wq[q]
           p == wq_pos[q]
<1>1. /\ r.head \in Slots /\ r.SR \in Bits /\ p.tail \in Slots /\ p.SR \in Bits
      /\ r.q[p.tail].SR = p.SR /\ ~(Late(thread[q]) /\ r.head = p.tail)
  BY ReadyEntry, QPShape DEF Inv
<1>2. WqMarks(r, p, thread[q])
  BY DEF Calm, QueuePairOK, RingsOK
<1> HIDE DEF r, p
<1>3. r.q[p.tail].SR = Mark(p.tail, r.head, r.SR) /\ InOrder(p.tail, p.SR, r.head, r.SR)
  BY <1>1, <1>2 DEF WqMarks
<1>4. p.tail \in ToServe(r, p)
  BY <1>1, <1>3, StretchEnds DEF ToServe
<1>5. QED
  BY <1>4 DEF r, p

\* The two assertions of reset_srq_entry_invalid hold.
LEMMA ResetAllowed ==
    ASSUME Inv, Calm, Deployment, NEW q \in QPs, EntryReady(q), NEW e, e = Current(q), e.op = "g",
           NEW n \in Nodes, n = q[1], NEW k, k = wq_pos[q].tail, NEW s, s = e.slot_idx
    PROVE  /\ ~srq_empty(srq[n]) /\ srq[n].q[s].valid
           /\ e \in WqEntries /\ s \in SrqSlots /\ e = wq[q].q[k]
           /\ <<q, k>> \in WqHolders(n, s) /\ ~(Serves(n) /\ Waits(srq[n], s))
           /\ Held(CqHolders(n, s), ThreadHolders(n, s), WqHolders(n, s))
<1>1. e \in WqEntries /\ e = wq[q].q[k] /\ k \in Slots
  BY ReadyEntry, QPShape DEF Inv
<1>2. s \in SrqSlots
  BY <1>1 DEF WqEntries
<1>3. k \in ToServe(wq[q], wq_pos[q])
  BY ReadyServed
<1>4. <<q, k>> \in WqHolders(n, s)
  BY <1>1, <1>2, <1>3 DEF WqHolders
<1>5. ~Free(CqHolders(n, s), ThreadHolders(n, s), WqHolders(n, s))
  BY <1>4 DEF Free
<1>6. SlotOK(n, s)
  BY <1>2 DEF Calm
<1>7. /\ srq[n].q[s].valid /\ ~(Serves(n) /\ Waits(srq[n], s)) /\ s \in InQueue(srq[n])
      /\ Held(CqHolders(n, s), ThreadHolders(n, s), WqHolders(n, s))
  BY <1>5, <1>6 DEF SlotOK
<1>8. ~srq_empty(srq[n])
  <2>1. srq[n].head \in SrqSlots /\ srq[n].tail \in SrqSlots /\ s \in Nat
    BY <1>2, SrqIndices DEF Inv, Shape, SrqType
  <2>2. srq[n].head \in Nat /\ srq[n].tail \in Nat
    BY <2>1, SrqIndices
  <2>3. QED
    BY <1>7, <2>1, <2>2 DEF InQueue, srq_empty
<1>9. QED
  BY <1>1, <1>2, <1>4, <1>7, <1>8

\* case 'g': the slot is free again.
LEMMA RmcRecvCalm ==
    ASSUME Inv, Calm, Deployment, Setup, NEW q \in QPs, RmcRecv(q), ~mishap'
    PROVE  Calm'
<1>1. Shape
  BY DEF Inv
<1>2. PICK n, k, e, m : /\ n = q[1] /\ k = wq_pos[q].tail /\ e = Current(q)
                        /\ m = Message("g", FALSE, q[2], NoPayload)
  OBVIOUS
<1>3. /\ EntryReady(q) /\ e.op = "g" /\ net' = SendTo(net, n, e.nid, m)
      /\ cq' = cq /\ cq_pos' = cq_pos /\ recv_slots' = recv_slots /\ thread' = thread
      /\ ~LosesEntries(srq[n], e.slot_idx)
  BY <1>2 DEF RmcRecv
<1>4. n \in Nodes /\ q[2] \in Int
  BY <1>2, QPType
<1>5. PICK idx : idx = e.slot_idx
  OBVIOUS
<1>6. /\ ~srq_empty(srq[n]) /\ srq[n].q[idx].valid
      /\ e \in WqEntries /\ idx \in SrqSlots /\ e = wq[q].q[k]
      /\ <<q, k>> \in WqHolders(n, idx) /\ ~(Serves(n) /\ Waits(srq[n], idx))
      /\ Held(CqHolders(n, idx), ThreadHolders(n, idx), WqHolders(n, idx))
  BY <1>2, <1>3, <1>4, <1>5, ResetAllowed
<1>7. /\ srq' = [srq EXCEPT ![n] = reset_srq_entry_invalid(srq[n], idx)]
      /\ EntryDone(q) /\ up' = up
  <2>1. ~srq_empty(srq[q[1]]) /\ srq[q[1]].q[Current(q).slot_idx].valid
    <3>1. q[1] = n /\ Current(q).slot_idx = idx
      BY <1>2, <1>5
    <3>2. QED
      BY <1>6, <3>1
  <2>2. /\ srq' = [srq EXCEPT ![q[1]] = reset_srq_entry_invalid(@, Current(q).slot_idx)]
        /\ EntryDone(q) /\ up' = up
    BY <2>1 DEF RmcRecv, Setup
  <2>3. srq' = [srq EXCEPT ![n] = reset_srq_entry_invalid(@, idx)]
    BY <1>2, <1>5, <2>2
  <2>4. srq' = [srq EXCEPT ![n] = reset_srq_entry_invalid(srq[n], idx)]
    BY <1>1, <1>4, <2>3 DEF Shape
  <2>5. QED
    BY <2>2, <2>4
<1>8. /\ LessTodo(q, k) /\ \A p \in QPs \ {q} : SameTodo(p)
  BY <1>2, <1>3, <1>7, EntryServed
<1>9. /\ IdsKept /\ \A p \in QPs : QueuePairOK(p)'
      /\ \A c : Served(c)' = Served(c) /\ Given(c)' = Given(c)
      /\ \A h, s : /\ ThreadHolders(h, s)' = ThreadHolders(h, s)
                   /\ CqHolders(h, s)' = CqHolders(h, s)
      /\ \A c \in QPs : Answers(c)' = Answers(c)
  BY <1>3, <1>7, ServedCalm
<1>10. /\ \A c : /\ Sent(c)' = Sent(c) \ {<<q, k>>}
                 /\ <<q, k>> \in Sent(c) <=> e.op = "s" /\ e.buf.of = c
       /\ \A h, s : /\ WqHolders(h, s)' = WqHolders(h, s) \ {<<q, k>>}
                    /\ <<q, k>> \in WqHolders(h, s) <=> e.op = "g" /\ q[1] = h /\ e.slot_idx = s
  BY <1>6, <1>8, TodoShrinks
<1>11. m \in MessageType /\ m.type = "g" /\ e.nid \in Nodes
  BY <1>2, <1>4, <1>6, Zeros DEF Message, MessageType, WqEntries
<1>12. SentMessages(net, net', n, e.nid, m) /\ SentTraces(net, net', e.nid, m)
  <2>1. up[e.nid] /\ net \in NetType
    BY <1>1, <1>11 DEF Calm, Shape
  <2>2. QED
    BY <1>1, <1>3, <1>4, <1>11, <2>1, SendEffect
<1>13. ASSUME NEW j \in Nodes, NEW h \in Nodes, NEW i \in 1 .. Len(net'[j][h])
       PROVE  PayloadOK(j, h, net[j][h][i])'
  <2>1. CASE \E k2 \in 1 .. Len(net[j][h]) : net'[j][h][i] = net[j][h][k2]
    BY <1>9, <2>1, PayloadsStay
  <2>2. CASE net'[j][h][i] = m
    BY <1>11, <2>2 DEF PayloadOK
  <2>3. QED
    BY <1>12, <2>1, <2>2 DEF SentMessages
<1>14. /\ UsedInQueue(srq'[n])
       /\ \A s \in SrqSlots :
             /\ srq'[n].q[s].valid <=> srq[n].q[s].valid /\ s # idx
             /\ srq'[n].q[s].sending_nid = srq[n].q[s].sending_nid
             /\ srq'[n].q[s].sending_qp = srq[n].q[s].sending_qp
             /\ Waits(srq'[n], s) <=> Waits(srq[n], s)
  <2>1. PICK a, b : a \in SrqType /\ a = srq[n] /\ b = srq'[n]
    BY <1>1, <1>4 DEF Shape
  <2>2. b = reset_srq_entry_invalid(a, idx)
    BY <1>1, <1>4, <1>7, <2>1 DEF Shape
  <2>3. UsedInQueue(a) /\ a.q[idx].valid /\ ~LosesEntries(a, idx)
    BY <1>3, <1>4, <1>5, <1>6, <2>1, CalmQueue
  <2>4. /\ UsedInQueue(b)
        /\ \A s \in SrqSlots :
             /\ b.q[s].valid <=> a.q[s].valid /\ s # idx
             /\ b.q[s].sending_nid = a.q[s].sending_nid
             /\ b.q[s].sending_qp = a.q[s].sending_qp
             /\ Waits(b, s) <=> Waits(a, s)
    BY <1>6, <2>1, <2>2, <2>3, ResetEffect
  <2>5. QED
    BY <2>1, <2>4
<1>15. \A h \in Nodes \ {n} : srq'[h] = srq[h]
  BY <1>1, <1>7 DEF Shape
<1>16. ASSUME NEW h \in Nodes, NEW s \in SrqSlots PROVE SlotOK(h, s)'
  <2>1. CASE h = n /\ s = idx
    <3>1. Free(CqHolders(n, idx), ThreadHolders(n, idx), WqHolders(n, idx) \ {<<q, k>>})
      BY <1>6, HolderMoves
    <3>2. Free(CqHolders(n, idx)', ThreadHolders(n, idx)', WqHolders(n, idx)')
      BY <1>9, <1>10, <3>1
    <3>3. ~srq'[n].q[idx].valid /\ ~(Serves(n)' /\ Waits(srq'[n], idx))
      BY <1>6, <1>14 DEF Serves
    <3>4. QED
      BY <2>1, <3>2, <3>3 DEF SlotOK
  <2>2. CASE ~(h = n /\ s = idx)
    <3>1. WqHolders(h, s)' = WqHolders(h, s)
      BY <1>2, <1>5, <1>10, <2>2
    <3>2. CASE h # n
      BY <1>3, <1>9, <1>15, <3>1, <3>2, SlotAlone
    <3>3. CASE h = n
      BY <1>3, <1>9, <1>14, <2>2, <3>1, <3>3, SlotStays
    <3>4. QED
      BY <3>2, <3>3
  <2>3. QED
    BY <2>1, <2>2
<1>17. ASSUME NEW c \in Clients PROVE CallOK(c)'
  <2>1. Flying(c)' = Flying(c)
    BY <1>11, <1>12 DEF SentTraces, IsTrace, Flying
  <2>2. Sent(c)' = Sent(c)
    BY <1>3, <1>10
  <2>3. Queued(c)' = Queued(c)
    <3>1. \A h \in Nodes, s \in SrqSlots : Waits(srq'[h], s) <=> Waits(srq[h], s)
      BY <1>14, <1>15
    <3>2. QED
      BY <1>3, <3>1 DEF Queued, Serves
  <2>4. QED
    BY <1>3, <1>9, <2>1, <2>2, <2>3, CallStays, Roles
<1>18. \A h \in Nodes : up'[h]
  BY <1>7 DEF Calm
<1>19. QED
  BY <1>9, <1>13, <1>16, <1>17, <1>18 DEF Calm

(***************************************************************************)
(* The daemons' steps keep Calm: a message is taken.                       *)
(***************************************************************************)

\* What a call of client c has, were the messages those of ch.
CallIn(ch, c) ==
    IF thread[c].pc = "poll"
    THEN OnlyOne(Sent(c), FlyingIn(ch, c), Queued(c), Given(c), Served(c), Answers(c))
    ELSE /\ Sent(c) = {} /\ FlyingIn(ch, c) = {} /\ Queued(c) = {} /\ Given(c) = {}
         /\ Served(c) = {} /\ Answers(c) = {}
Lost(c) == Sent(c) = {} /\ Queued(c) = {} /\ Given(c) = {} /\ Served(c) = {} /\ Answers(c) = {}

\* A message that is the trace of a call is its only one.
LEMMA CallTakes ==
    ASSUME Calm, NEW c \in Clients, NEW i, NEW n, NEW m, NEW ch, TakenTraces(net, ch, i, n, m)
    PROVE  /\ ~IsTrace(m, n, c) => CallIn(ch, c)
           /\ IsTrace(m, n, c) => thread[c].pc = "poll" /\ Lost(c) /\ FlyingIn(ch, c) = {}
<1> DEFINE f == FlyingIn(net, c)
           g == FlyingIn(ch, c)
<1>1. /\ f = {} => g = {}
      /\ Single(f) /\ IsTrace(m, n, c) => g = {}
      /\ Single(f) /\ ~IsTrace(m, n, c) => Single(g)
      /\ IsTrace(m, n, c) => <<i, n, 1>> \in f
  BY DEF TakenTraces
<1>2. f = Flying(c) /\ CallOK(c)
  BY DEF Flying, Calm
<1> HIDE DEF f, g
<1>3. CASE thread[c].pc = "poll"
  <2>1. OnlyOne(Sent(c), f, Queued(c), Given(c), Served(c), Answers(c))
    BY <1>2, <1>3 DEF CallOK
  <2>2. ~IsTrace(m, n, c) => OnlyOne(Sent(c), g, Queued(c), Given(c), Served(c), Answers(c))
    BY <1>1, <2>1 DEF OnlyOne
  <2>3. IsTrace(m, n, c) => Lost(c) /\ Single(f)
    BY <1>1, <2>1 DEF OnlyOne, Lost, Single
  <2>4. QED
    BY <1>1, <1>3, <2>2, <2>3 DEF CallIn, g
<1>4. CASE thread[c].pc # "poll"
  BY <1>1, <1>2, <1>4 DEF CallOK, Gone, CallIn, g
<1>5. QED
  BY <1>3, <1>4

\* A step of a daemon that serves no entry.
LEMMA QueuesIdle ==
    ASSUME UNCHANGED <<wq, wq_pos, thread>>
    PROVE  /\ IdsKept /\ \A c : Live(c)' = Live(c)
           /\ \A c : Sent(c)' = Sent(c) /\ Served(c)' = Served(c)
           /\ \A n, s : /\ ThreadHolders(n, s)' = ThreadHolders(n, s)
                        /\ WqHolders(n, s)' = WqHolders(n, s)
<1>1. \A p \in QPs : SameTodo(p)
  BY DEF SameTodo
<1>2. QED
  BY <1>1, TodoSame, ThreadIdle

\* A step of a daemon that only takes and sends messages.
LEMMA MessagesOnly ==
    ASSUME Inv, Calm,
           UNCHANGED <<wq, wq_pos, cq, cq_pos, srq, recv_slots, up, thread>>,
           \A i, n \in Nodes : \A k \in 1 .. Len(net'[i][n]) : PayloadOK(i, n, net[i][n][k])',
           \A c \in Clients : CallIn(net', c)
    PROVE  Calm'
<1>1. /\ IdsKept /\ FreshSlotsKept /\ \A p \in QPs : SameFresh(p)
      /\ \A c : Sent(c)' = Sent(c) /\ Served(c)' = Served(c)
      /\ \A n, s : /\ ThreadHolders(n, s)' = ThreadHolders(n, s)
                   /\ WqHolders(n, s)' = WqHolders(n, s)
  BY QueuesIdle DEF FreshSlotsKept, SameFresh
<1>2. \A p \in QPs : QueuePairOK(p)'
  BY <1>1, QueuePairAlone
<1>3. \A p \in Servers : \A j \in Slots : ~cq[p].q[j].is_nack
  BY Roles DEF Calm, QueuePairOK, CompletionsOK
<1>4. /\ \A c : Given(c)' = Given(c) /\ \A s : CqHolders(c, s)' = CqHolders(c, s)
      /\ \A c \in QPs : Answers(c)' = Answers(c)
  BY <1>1, <1>3, FreshSame
<1>5. \A n \in Nodes : \A s \in SrqSlots : SlotOK(n, s)'
  BY <1>1, <1>4, SlotAlone
<1>6. ASSUME NEW c \in Clients PROVE CallOK(c)'
  <2>1. Queued(c)' = Queued(c)
    BY DEF Queued, Serves
  <2>2. Flying(c)' = FlyingIn(net', c)
    BY DEF Flying
  <2>3. Sent(c)' = Sent(c) /\ Served(c)' = Served(c) /\ Given(c)' = Given(c) /\ Answers(c)' = Answers(c)
    BY <1>1, <1>4, Roles
  <2>4. QED
    BY <2>1, <2>2, <2>3 DEF CallIn, CallOK, Gone
<1>7. \A n \in Nodes : up'[n]
  BY DEF Calm
<1>8. QED
  BY <1>2, <1>5, <1>6, <1>7 DEF Calm

\* The messages that stay, when one is taken.
LEMMA PayloadsTaken ==
    ASSUME Inv, Calm, IdsKept, NEW i, NEW n, NEW ch, TakenMessages(net, ch, i, n),
           NEW j \in Nodes, NEW h \in Nodes, NEW k \in 1 .. Len(ch[j][h]), NEW m, m = ch[j][h][k]
    PROVE  PayloadOK(j, h, m)'
<1>1. PICK k2 \in 1 .. Len(net[j][h]) : m = net[j][h][k2]
  BY DEF TakenMessages
<1>2. QED
  BY <1>1, PayloadKept

\* case 'g' of the messages.
LEMMA RecvAckCalm ==
    ASSUME Inv, Calm, NEW n \in Nodes, NEW i \in Nodes, RecvAck(i, n)
    PROVE  Calm'
<1>1. PICK m : m = Head(net[i][n])
  OBVIOUS
<1>2. /\ net[i][n] # << >> /\ m.type = "g" /\ net' = Taken(i, n)
      /\ UNCHANGED <<wq, wq_pos, cq, cq_pos, srq, recv_slots, up, thread>>
  BY <1>1 DEF RecvAck, Arrives
<1>3. TakenMessages(net, net', i, n) /\ TakenTraces(net, net', i, n, m)
  BY <1>1, <1>2, TakeEffect
<1>4. IdsKept
  BY <1>2, QueuesIdle
<1>5. \A j, h \in Nodes : \A k \in 1 .. Len(net'[j][h]) : PayloadOK(j, h, net[j][h][k])'
  <2>1. ASSUME NEW j \in Nodes, NEW h \in Nodes, NEW k \in 1 .. Len(net'[j][h])
        PROVE  PayloadOK(j, h, net[j][h][k])'
    <3>1. PICK p : p = net'[j][h][k]
      OBVIOUS
    <3>2. PayloadOK(j, h, p)'
      BY <1>3, <1>4, <3>1, PayloadsTaken
    <3>3. QED
      BY <3>1, <3>2 DEF PayloadOK
  <2>2. QED
    BY <2>1
<1>6. \A c \in Clients : CallIn(net', c)
  BY <1>2, <1>3, CallTakes DEF IsTrace
<1>7. QED
  BY <1>2, <1>5, <1>6, MessagesOnly

\* case 's' of the messages: the NACK takes the place of the request.
LEMMA RecvRequestFullCalm ==
    ASSUME Inv, Calm, NEW n \in Nodes, NEW i \in Nodes, RecvRequestFull(i, n)
    PROVE  Calm'
<1>1. Shape
  BY DEF Inv
<1>2. PICK m, ch, m2 : /\ m = Head(net[i][n]) /\ ch = Taken(i, n)
                       /\ m2 = Message("n", FALSE, m.qp, NoPayload)
  OBVIOUS
<1>3. /\ net[i][n] # << >> /\ m.type = "s" /\ ~m.term /\ net' = SendTo(ch, n, i, m2)
      /\ UNCHANGED <<wq, wq_pos, cq, cq_pos, srq, recv_slots, up, thread>>
  BY <1>2 DEF RecvRequestFull, Arrives
<1>4. /\ ch \in NetType /\ TakenMessages(net, ch, i, n) /\ TakenTraces(net, ch, i, n, m)
      /\ \E k \in 1 .. Len(net[i][n]) : m = net[i][n][k]
      /\ m \in MessageType
  BY <1>2, <1>3, TakeEffect
<1>5. m2 \in MessageType /\ m2.type = "n" /\ m2.qp = m.qp
  BY <1>2, <1>4, Zeros DEF Message, MessageType
<1>6. SentMessages(ch, net', n, i, m2) /\ SentTraces(ch, net', i, m2)
  <2>1. up[i]
    BY DEF Calm
  <2>2. QED
    BY <1>1, <1>3, <1>4, <1>5, <2>1, SendEffect
<1>7. IdsKept
  BY <1>3, QueuesIdle
<1>8. \A j, h \in Nodes : \A k \in 1 .. Len(net'[j][h]) : PayloadOK(j, h, net[j][h][k])'
  <2>1. ASSUME NEW j \in Nodes, NEW h \in Nodes, NEW k \in 1 .. Len(net'[j][h])
        PROVE  PayloadOK(j, h, net[j][h][k])'
    <3>1. CASE \E k2 \in 1 .. Len(ch[j][h]) : net'[j][h][k] = ch[j][h][k2]
      BY <1>4, <1>7, <3>1, PayloadsTaken DEF PayloadOK
    <3>2. CASE net'[j][h][k] = m2
      BY <1>5, <3>2 DEF PayloadOK
    <3>3. QED
      BY <1>6, <3>1, <3>2 DEF SentMessages
  <2>2. QED
    BY <2>1
<1>9. m.payload.of = <<i, m.qp>>
  <2>1. PayloadOK(i, n, m)
    BY <1>4 DEF Calm
  <2>2. m.payload = Live(<<i, m.qp>>)
    BY <1>3, <2>1 DEF PayloadOK
  <2>3. QED
    BY <2>2, Ownership
<1>10. ASSUME NEW c \in Clients PROVE CallIn(net', c)
  <2>1. IsTrace(m, n, c) <=> IsTrace(m2, i, c)
    BY <1>3, <1>5, <1>9 DEF IsTrace
  <2>2. CASE ~IsTrace(m, n, c)
    <3>1. FlyingIn(net', c) = FlyingIn(ch, c)
      BY <1>6, <2>1, <2>2 DEF SentTraces
    <3>2. CallIn(ch, c)
      BY <1>4, <2>2, CallTakes
    <3>3. QED
      BY <3>1, <3>2 DEF CallIn
  <2>3. CASE IsTrace(m, n, c)
    <3>1. PICK x : FlyingIn(net', c) = FlyingIn(ch, c) \union {x}
      BY <1>6, <2>1, <2>3 DEF SentTraces
    <3>2. thread[c].pc = "poll" /\ Lost(c) /\ FlyingIn(ch, c) = {}
      BY <1>4, <2>3, CallTakes
    <3>3. FlyingIn(net', c) = {x}
      BY <3>1, <3>2
    <3>4. QED
      BY <3>2, <3>3 DEF CallIn, OnlyOne, Single, Lost
  <2>4. QED
    BY <2>2, <2>3
<1>11. QED
  BY <1>3, <1>8, <1>10, MessagesOnly

\* The daemon writes a completion where none is to be read.
LEMMA DeliverEffect ==
    ASSUME Inv, Calm, NEW q \in QPs, NEW e \in CqEntries, DeliverTo(q, e),
           NEW k, k = cq_pos[q].head, k \notin ToRead(cq[q], cq_pos[q])
    PROVE  /\ MoreFresh(q, k) /\ \A p \in QPs \ {q} : SameFresh(p)
           /\ \A p \in QPs \ {q} : cq'[p] = cq[p] /\ cq_pos'[p] = cq_pos[p]
           /\ CqMarks(cq'[q], cq_pos'[q])
           /\ cq'[q].q[k].sending_nid = e.sending_nid /\ cq'[q].q[k].sending_qp = e.sending_qp
           /\ cq'[q].q[k].slot_idx = e.slot_idx /\ (cq'[q].q[k].is_nack <=> e.is_nack)
           /\ \A j \in Slots \ {k} : cq'[q].q[j] = cq[q].q[j]
<1>1. Shape
  BY DEF Inv
<1>2. /\ cq[q] \in CqType /\ cq_pos[q] \in CqPosType /\ k \in Slots
      /\ cq[q].q \in [Slots -> CqEntries]
  BY <1>1, QPShape
<1>3. CqMarks(cq[q], cq_pos[q])
  BY DEF Calm, QueuePairOK, RingsOK
<1>4. PICK f : f = [e EXCEPT !.SR = cq_pos[q].SR]
  OBVIOUS
<1>5. /\ f.SR = cq_pos[q].SR /\ f.sending_nid = e.sending_nid /\ f.sending_qp = e.sending_qp
      /\ f.slot_idx = e.slot_idx /\ (f.is_nack <=> e.is_nack)
  BY <1>4 DEF CqEntries
<1>6. \A p \in QPs \ {q} : cq'[p] = cq[p] /\ cq_pos'[p] = cq_pos[p]
  BY <1>1, DeliverType, Zenon
<1>7. cq'[q] = [q |-> [cq[q].q EXCEPT ![k] = f], tail |-> cq[q].tail, SR |-> cq[q].SR]
  <2>1. cq'[q] = [q |-> [cq[q].q EXCEPT ![cq_pos[q].head] = [e EXCEPT !.SR = cq_pos[q].SR]],
                  tail |-> cq[q].tail, SR |-> cq[q].SR]
    BY <1>1, DeliverType, Zenon
  <2>2. QED
    BY <1>4, <2>1
<1>8. cq_pos'[q] = [head |-> Advance(cq_pos[q].head), SR |-> Phase(cq_pos[q].head, cq_pos[q].SR)]
  BY <1>1, DeliverType, Zenon
<1> DEFINE c == cq[q]
           d == cq_pos[q]
           c2 == cq'[q]
           d2 == cq_pos'[q]
<1>9. /\ c \in CqType /\ d \in CqPosType /\ CqMarks(c, d) /\ d.head \notin ToRead(c, d)
      /\ f.SR = d.SR /\ c2.tail = c.tail /\ c2.SR = c.SR
      /\ c2.q[d.head] = f /\ \A j \in Slots \ {d.head} : c2.q[j] = c.q[j]
      /\ d2.head = Advance(d.head) /\ d2.SR = Phase(d.head, d.SR)
  BY <1>2, <1>3, <1>5, <1>7, <1>8
<1> HIDE DEF c, d, c2, d2
<1>10. /\ CqMarks(c2, d2) /\ ToRead(c2, d2) = ToRead(c, d) \union {d.head}
       /\ c2.q[d.head] = f /\ \A j \in Slots \ {d.head} : c2.q[j] = c.q[j]
  BY <1>9, DeliverMarks
<1>11. ToRead(c, d) \subseteq Slots
  BY DEF ToRead, Stretch
<1>12. /\ CqMarks(cq'[q], cq_pos'[q])
       /\ ToRead(cq'[q], cq_pos'[q]) = ToRead(cq[q], cq_pos[q]) \union {k}
       /\ cq'[q].q[k] = f /\ \A j \in Slots \ {k} : cq'[q].q[j] = cq[q].q[j]
       /\ ToRead(cq[q], cq_pos[q]) \subseteq Slots
  BY <1>10, <1>11 DEF c, d, c2, d2
<1>13. MoreFresh(q, k)
  BY <1>2, <1>12 DEF MoreFresh
<1>14. \A p \in QPs \ {q} : SameFresh(p)
  BY <1>6 DEF SameFresh
<1>15. QED
  BY <1>5, <1>6, <1>12, <1>13, <1>14

\* What a completion that is right leaves as it was, and what it adds.
LEMMA DeliveredCalm ==
    ASSUME Inv, Calm, NEW q \in QPs, NEW e \in CqEntries, DeliverTo(q, e), FreshSlotsKept,
           NEW k, k = cq_pos[q].head, k \notin ToRead(cq[q], cq_pos[q]),
           UNCHANGED <<wq, wq_pos, thread>>,
           q \in Clients => IF e.is_nack THEN TestsNack
                                          ELSE recv_slots'[q[1]][e.slot_idx] = Response(Live(q)),
           q \in Servers => ~e.is_nack /\ recv_slots'[q[1]][e.slot_idx] = Live(<<e.sending_nid, e.sending_qp>>)
    PROVE  /\ \A p \in QPs : QueuePairOK(p)'
           /\ GivenGrows(q, k, e) /\ CqHoldersGrow(q, k, e) /\ AnswersGrow(q, k)
<1>1. /\ IdsKept /\ \A c : Live(c)' = Live(c)
  BY QueuesIdle
<1>2. /\ MoreFresh(q, k) /\ \A p \in QPs \ {q} : SameFresh(p)
      /\ \A p \in QPs \ {q} : cq'[p] = cq[p] /\ cq_pos'[p] = cq_pos[p]
      /\ CqMarks(cq'[q], cq_pos'[q])
      /\ \A j \in Slots \ {k} : cq'[q].q[j] = cq[q].q[j]
  BY DeliverEffect
<1>3. PICK f : f = cq'[q].q[k]
  OBVIOUS
<1>4. /\ f.sending_nid = e.sending_nid /\ f.sending_qp = e.sending_qp
      /\ f.slot_idx = e.slot_idx /\ (f.is_nack <=> e.is_nack)
  BY <1>3, DeliverEffect
<1>5. \A p \in Servers : \A j \in Slots : ~cq[p].q[j].is_nack
  BY Roles DEF Calm, QueuePairOK, CompletionsOK
<1>6. GivenGrows(q, k, e) /\ CqHoldersGrow(q, k, e) /\ AnswersGrow(q, k)
  <2>1. GivenGrows(q, k, f) /\ CqHoldersGrow(q, k, f) /\ AnswersGrow(q, k)
    BY <1>2, <1>3, <1>5, FreshGrows
  <2>2. QED
    BY <1>4, <2>1 DEF GivenGrows, CqHoldersGrow
<1>7. QueuePairOK(q)'
  <2>1. RingsOK(q)'
    BY <1>2 DEF RingsOK, Calm, QueuePairOK
  <2>2. CompletionOK(q, cq[q].q[k])'
    <3>1. /\ (Live(q))' = Live(q)
          /\ (Live(<<e.sending_nid, e.sending_qp>>))' = Live(<<e.sending_nid, e.sending_qp>>)
      BY <1>1
    <3>2. /\ cq'[q].q[k].sending_nid = e.sending_nid /\ cq'[q].q[k].sending_qp = e.sending_qp
          /\ cq'[q].q[k].slot_idx = e.slot_idx /\ (cq'[q].q[k].is_nack <=> e.is_nack)
      BY <1>3, <1>4
    <3>3. QED
      BY <3>1, <3>2, Roles DEF CompletionOK
  <2>3. q \in Servers => \A j \in Slots : ~cq'[q].q[j].is_nack
    BY <1>2, <1>3, <1>4, <1>5
  <2>4. \A j \in ToRead(cq'[q], cq_pos'[q]) :
           \/ j \in ToRead(cq[q], cq_pos[q]) /\ cq'[q].q[j] = cq[q].q[j]
           \/ CompletionOK(q, cq[q].q[j])'
    BY <1>2, <2>2 DEF MoreFresh
  <2>5. WqSlot(q)' = WqSlot(q)
    BY DEF WqSlot
  <2>6. QED
    BY <1>1, <2>1, <2>3, <2>4, <2>5, QueuePairStays
<1>8. \A p \in QPs \ {q} : QueuePairOK(p)'
  BY <1>1, <1>2, QueuePairAlone
<1>9. QED
  BY <1>4, <1>6, <1>7, <1>8

\* case 'n': the client is told.
LEMMA RecvNackCalm ==
    ASSUME Inv, Calm, NEW n \in Nodes, NEW i \in Nodes, RecvNack(i, n), ~mishap'
    PROVE  Calm'
<1>1. Shape
  BY DEF Inv
<1>2. PICK m : m = Head(net[i][n])
  OBVIOUS
<1>3. PICK q : q = <<n, m.qp>>
  OBVIOUS
<1>4. PICK e : e = [CqSlot(q) EXCEPT !.sending_nid = i, !.is_nack = TRUE]
  OBVIOUS
<1>5. PICK k : k = cq_pos[q].head
  OBVIOUS
<1>6. /\ m = Head(net[i][n]) /\ q = <<n, m.qp>> /\ k = cq_pos[q].head
      /\ e = [CqSlot(q) EXCEPT !.sending_nid = i, !.is_nack = TRUE]
  BY <1>2, <1>3, <1>4, <1>5
<1>7. /\ net[i][n] # << >> /\ m.type = "n" /\ net' = Taken(i, n) /\ TestsNack
      /\ UNCHANGED <<wq, wq_pos, srq, recv_slots, thread>>
  BY <1>6, RpcAssumption DEF RecvNack, Arrives
<1>8. /\ TakenMessages(net, net', i, n) /\ TakenTraces(net, net', i, n, m) /\ MessageOK(i, n, m)
  BY <1>6, <1>7, TakeEffect
<1>9. q \in Clients /\ q \in QPs /\ q \notin Servers
  BY <1>6, <1>7, <1>8, Roles DEF MessageOK
<1>10. e \in CqEntries /\ e.is_nack
  BY <1>1, <1>6, <1>9, QPShape DEF CqEntries
<1>11. IsTrace(m, n, q) /\ \A c \in Clients \ {q} : ~IsTrace(m, n, c)
  BY <1>6, <1>7 DEF IsTrace
<1>12. thread[q].pc = "poll" /\ Lost(q) /\ FlyingIn(net', q) = {}
  BY <1>8, <1>9, <1>11, CallTakes
<1>13. DeliverTo(q, e) /\ up' = up
  <2>1. CqConnected(q)
    BY <1>12 DEF CqConnected
  <2>2. QED
    BY <1>6, <2>1, Zenon DEF RecvNack, Asserted
<1>14. k \notin ToRead(cq[q], cq_pos[q])
  BY <1>12 DEF Lost, Answers
<1>15. /\ IdsKept /\ FreshSlotsKept
       /\ \A c : Sent(c)' = Sent(c) /\ Served(c)' = Served(c)
       /\ \A h, s : /\ ThreadHolders(h, s)' = ThreadHolders(h, s)
                    /\ WqHolders(h, s)' = WqHolders(h, s)
  BY <1>7, QueuesIdle DEF FreshSlotsKept
<1>16. /\ \A p \in QPs : QueuePairOK(p)'
       /\ GivenGrows(q, k, e) /\ CqHoldersGrow(q, k, e) /\ AnswersGrow(q, k)
  <2>1. q \in Clients => IF e.is_nack THEN TestsNack
                                     ELSE recv_slots'[q[1]][e.slot_idx] = Response(Live(q))
    BY <1>7, <1>10
  <2>2. q \in Servers =>
          ~e.is_nack /\ recv_slots'[q[1]][e.slot_idx] = Live(<<e.sending_nid, e.sending_qp>>)
    BY <1>9
  <2>3. UNCHANGED <<wq, wq_pos, thread>>
    BY <1>7
  <2>4. QED
    BY <1>13, <1>6, <1>9, <1>10, <1>14, <1>15, <2>1, <2>2, <2>3, DeliveredCalm
<1>17. /\ \A c : Given(c)' = Given(c)
       /\ \A h, s : CqHolders(h, s)' = CqHolders(h, s)
       /\ \A c \in Clients \ {q} : Answers(c)' = Answers(c)
       /\ Answers(q)' = Answers(q) \union {k}
  BY <1>9, <1>10, <1>16, Roles DEF GivenGrows, CqHoldersGrow, AnswersGrow
<1>18. \A j, h \in Nodes : \A l \in 1 .. Len(net'[j][h]) : PayloadOK(j, h, net[j][h][l])'
  <2>1. ASSUME NEW j \in Nodes, NEW h \in Nodes, NEW l \in 1 .. Len(net'[j][h])
        PROVE  PayloadOK(j, h, net[j][h][l])'
    <3>1. PICK p : p = net'[j][h][l]
      OBVIOUS
    <3>2. PayloadOK(j, h, p)'
      BY <1>8, <1>15, <3>1, PayloadsTaken
    <3>3. QED
      BY <3>1, <3>2 DEF PayloadOK
  <2>2. QED
    BY <2>1
<1>19. \A h \in Nodes : \A s \in SrqSlots : SlotOK(h, s)'
  BY <1>7, <1>15, <1>17, SlotAlone
<1>20. ASSUME NEW c \in Clients PROVE CallOK(c)'
  <2>1. /\ Queued(c)' = Queued(c) /\ Flying(c)' = FlyingIn(net', c) /\ thread'[c] = thread[c]
        /\ Sent(c)' = Sent(c) /\ Served(c)' = Served(c) /\ Given(c)' = Given(c)
    BY <1>7, <1>15, <1>17 DEF Queued, Serves, Flying
  <2>2. CASE c # q
    <3>1. CallIn(net', c)
      BY <1>8, <1>11, <2>2, CallTakes
    <3>2. Answers(c)' = Answers(c)
      BY <1>17, <2>2
    <3>3. QED
      BY <2>1, <3>1, <3>2 DEF CallIn, CallOK, Gone
  <2>3. CASE c = q
    <3>1. Answers(c)' = {k}
      BY <1>12, <1>17, <2>3 DEF Lost
    <3>2. thread'[c].pc = "poll"
      BY <1>12, <2>1, <2>3
    <3>3. OnlyOne(Sent(c)', Flying(c)', Queued(c)', Given(c)', Served(c)', Answers(c)')
      BY <1>12, <2>1, <2>3, <3>1 DEF Lost, OnlyOne, Single
    <3>4. QED
      BY <3>2, <3>3 DEF CallOK
  <2>4. QED
    BY <2>2, <2>3
<1>21. \A h \in Nodes : up'[h]
  BY <1>13 DEF Calm
<1>22. QED
  BY <1>16, <1>18, <1>19, <1>20, <1>21 DEF Calm

\* A message takes the slot at the head, which was free.
LEMMA SlotTaken ==
    ASSUME Inv, Calm, NEW n \in Nodes, ~srq_full(srq[n]), NEW p \in Payloads, StoreInSlot(n, p),
           NEW h, h = srq[n].head
    PROVE  /\ FreshSlotsKept /\ h \in SrqSlots /\ recv_slots'[n][h] = p
           /\ \A s \in SrqSlots \ {h} : recv_slots'[n][s] = recv_slots[n][s]
           /\ \A j \in Nodes \ {n} : recv_slots'[j] = recv_slots[j]
           /\ ~srq[n].q[h].valid
           /\ Free(CqHolders(n, h), ThreadHolders(n, h), WqHolders(n, h))
<1>1. Shape
  BY DEF Inv
<1>2. PICK s \in SrqType : s = srq[n]
  BY <1>1 DEF Shape
<1>3. h \in SrqSlots
  BY <1>2 DEF SrqType
<1>4. /\ recv_slots'[n][h] = p /\ \A j \in Nodes \ {n} : recv_slots'[j] = recv_slots[j]
      /\ \A j \in SrqSlots \ {h} : recv_slots'[n][j] = recv_slots[n][j]
  BY <1>1, <1>3 DEF StoreInSlot, Shape
<1>5. ~s.q[h].valid
  <2>1. UsedInQueue(s) /\ ~s.full
    BY <1>2, CalmQueue DEF srq_full
  <2>2. h \notin InQueue(s)
    <3>1. s.head \in Nat /\ s.tail \in Nat
      BY <1>2, SrqIndices DEF SrqType
    <3>2. QED
      BY <1>2, <2>1, <3>1 DEF InQueue
  <2>3. QED
    BY <1>3, <2>1, <2>2 DEF UsedInQueue
<1>6. Free(CqHolders(n, h), ThreadHolders(n, h), WqHolders(n, h))
  <2>1. SlotOK(n, h)
    BY <1>3 DEF Calm
  <2>2. QED
    BY <1>2, <1>5, <2>1 DEF SlotOK
<1>7. FreshSlotsKept
  <2>1. ASSUME NEW q \in QPs, NEW k \in ToRead(cq[q], cq_pos[q]), ~cq[q].q[k].is_nack
        PROVE  recv_slots'[q[1]][cq[q].q[k].slot_idx] = recv_slots[q[1]][cq[q].q[k].slot_idx]
    <3>1. k \in Slots /\ q[1] \in Nodes
      BY QPType DEF ToRead, Stretch
    <3>2. cq[q].q[k].slot_idx \in SrqSlots
      BY <1>1, <3>1, QPShape DEF CqEntries
    <3>3. ~(q[1] = n /\ cq[q].q[k].slot_idx = h)
      <4>1. <<q, k>> \notin CqHolders(n, h)
        BY <1>6 DEF Free
      <4>2. QED
        BY <2>1, <3>1, <4>1 DEF CqHolders
    <3>4. QED
      BY <1>4, <3>1, <3>2, <3>3
  <2>2. QED
    BY <2>1 DEF FreshSlotsKept
<1>8. QED
  BY <1>2, <1>3, <1>4, <1>5, <1>6, <1>7

\* case 's' with terminate_to_senders_qp: the response goes to the client.
LEMMA RecvResponseCalm ==
    ASSUME Inv, Calm, Deployment, NEW n \in Nodes, NEW i \in Nodes, RecvResponse(i, n), ~mishap'
    PROVE  Calm'
<1>1. Shape
  BY DEF Inv
<1>2. PICK m : m = Head(net[i][n])
  OBVIOUS
<1>3. PICK q : q = <<n, m.qp>>
  OBVIOUS
<1>4. PICK h, k : h = srq[n].head /\ k = cq_pos[q].head
  OBVIOUS
<1>5. PICK e : e = [CqSlot(q) EXCEPT !.sending_nid = i, !.slot_idx = h]
  OBVIOUS
<1>6. /\ net[i][n] # << >> /\ m.type = "s" /\ m.term /\ net' = Taken(i, n)
      /\ UNCHANGED <<wq, wq_pos, thread>>
      /\ ~srq_full(srq[n]) /\ (q \in QPs => ~CqSlot(q).is_nack)
  BY <1>2, <1>3 DEF RecvResponse, Arrives
<1>7. /\ TakenMessages(net, net', i, n) /\ TakenTraces(net, net', i, n, m) /\ MessageOK(i, n, m)
      /\ \E l \in 1 .. Len(net[i][n]) : m = net[i][n][l]
      /\ m \in MessageType
  BY <1>2, <1>6, TakeEffect
<1>8. q \in Clients /\ q \in QPs /\ q \notin Servers /\ q[1] = n
  BY <1>3, <1>6, <1>7, Roles DEF MessageOK
<1>9. thread[q].pc = "poll"
  <2>1. PayloadOK(i, n, m)
    BY <1>7 DEF Calm
  <2>2. m.payload.of = q
    BY <1>3, <1>6, <2>1, Ownership DEF PayloadOK
  <2>3. QED
    BY <1>6, <1>7, <1>8, <2>2, CallTakes DEF IsTrace
<1>10. /\ srq' = [srq EXCEPT ![n] =
                     enqueue_in_srq(@, [valid |-> TRUE, sending_nid |-> i, sending_qp |-> -1])]
       /\ StoreInSlot(n, m.payload) /\ DeliverTo(q, e) /\ up' = up
  <2>1. CqConnected(q)
    BY <1>9 DEF CqConnected
  <2>2. QED
    BY <1>2, <1>3, <1>4, <1>5, <1>6, <1>8, <2>1 DEF RecvResponse, Asserted
<1>11. m.payload \in Payloads /\ m.payload = Response(Live(q)) /\ m.payload.of = q
  <2>1. PayloadOK(i, n, m)
    BY <1>7 DEF Calm
  <2>2. m.payload = Response(Live(q))
    BY <1>3, <1>6, <2>1 DEF PayloadOK
  <2>3. QED
    BY <1>7, <2>2, Ownership DEF MessageType
<1>12. /\ FreshSlotsKept /\ h \in SrqSlots /\ recv_slots'[n][h] = m.payload
       /\ \A s \in SrqSlots \ {h} : recv_slots'[n][s] = recv_slots[n][s]
       /\ \A j \in Nodes \ {n} : recv_slots'[j] = recv_slots[j]
       /\ ~srq[n].q[h].valid
       /\ Free(CqHolders(n, h), ThreadHolders(n, h), WqHolders(n, h))
  BY <1>4, <1>6, <1>10, <1>11, SlotTaken
<1>13. e \in CqEntries /\ ~e.is_nack /\ e.slot_idx = h
  <2>1. CqSlot(q) \in CqEntries /\ ~CqSlot(q).is_nack
    BY <1>1, <1>6, <1>8, QPShape
  <2>2. QED
    BY <1>5, <1>12, <2>1 DEF CqEntries
<1>14. IsTrace(m, n, q) /\ \A c \in Clients \ {q} : ~IsTrace(m, n, c)
  BY <1>6, <1>11 DEF IsTrace
<1>15. thread[q].pc = "poll" /\ Lost(q) /\ FlyingIn(net', q) = {}
  BY <1>7, <1>8, <1>14, CallTakes
<1>16. k \notin ToRead(cq[q], cq_pos[q])
  BY <1>4, <1>15 DEF Lost, Answers
<1>17. /\ IdsKept
       /\ \A c : Sent(c)' = Sent(c) /\ Served(c)' = Served(c)
       /\ \A j, s : /\ ThreadHolders(j, s)' = ThreadHolders(j, s)
                    /\ WqHolders(j, s)' = WqHolders(j, s)
  BY <1>6, QueuesIdle
<1>18. /\ \A p \in QPs : QueuePairOK(p)'
       /\ GivenGrows(q, k, e) /\ CqHoldersGrow(q, k, e) /\ AnswersGrow(q, k)
  <2>1. q \in Clients => IF e.is_nack THEN TestsNack
                                     ELSE recv_slots'[q[1]][e.slot_idx] = Response(Live(q))
    BY <1>8, <1>11, <1>12, <1>13
  <2>2. q \in Servers =>
          ~e.is_nack /\ recv_slots'[q[1]][e.slot_idx] = Live(<<e.sending_nid, e.sending_qp>>)
    BY <1>8
  <2>3. UNCHANGED <<wq, wq_pos, thread>>
    BY <1>6
  <2>4. QED
    BY <1>4, <1>8, <1>10, <1>12, <1>13, <1>16, <2>1, <2>2, <2>3, DeliveredCalm
<1>19. /\ \A c : Given(c)' = Given(c)
       /\ \A j, s : CqHolders(j, s)' = CqHolders(j, s) \union (IF j = n /\ s = h THEN {<<q, k>>} ELSE {})
       /\ \A c \in Clients \ {q} : Answers(c)' = Answers(c)
       /\ Answers(q)' = Answers(q) \union {k}
  BY <1>8, <1>13, <1>18, Roles DEF GivenGrows, CqHoldersGrow, AnswersGrow
<1>20. \A j, l \in Nodes : \A x \in 1 .. Len(net'[j][l]) : PayloadOK(j, l, net[j][l][x])'
  <2>1. ASSUME NEW j \in Nodes, NEW l \in Nodes, NEW x \in 1 .. Len(net'[j][l])
        PROVE  PayloadOK(j, l, net[j][l][x])'
    <3>1. PICK p : p = net'[j][l][x]
      OBVIOUS
    <3>2. PayloadOK(j, l, p)'
      BY <1>7, <1>17, <3>1, PayloadsTaken
    <3>3. QED
      BY <3>1, <3>2 DEF PayloadOK
  <2>2. QED
    BY <2>1
<1>21. ~Serves(n) /\ ~Serves(n)'
  BY <1>8 DEF Serves, Deployment
<1>22. /\ UsedInQueue(srq'[n])
       /\ \A s \in SrqSlots : srq'[n].q[s].valid <=> srq[n].q[s].valid \/ s = h
  <2>1. PICK a, b, f : /\ a \in SrqType /\ a = srq[n] /\ b = srq'[n]
                       /\ f = [valid |-> TRUE, sending_nid |-> i, sending_qp |-> -1]
    BY <1>1 DEF Shape
  <2>2. b = enqueue_in_srq(a, f) /\ f \in SrqEntries /\ f.valid
    BY <1>1, <1>10, <2>1 DEF Shape, SrqEntries
  <2>3. a \in SrqType /\ UsedInQueue(a) /\ ~a.full
    BY <1>6, <2>1, CalmQueue DEF srq_full
  <2>4. UsedInQueue(b) /\ \A s \in SrqSlots : b.q[s] = IF s = a.head THEN f ELSE a.q[s]
    BY <2>2, <2>3, EnqueueEffect
  <2>5. \A s \in SrqSlots : b.q[s].valid <=> a.q[s].valid \/ s = a.head
    BY <2>2, <2>4
  <2>6. QED
    BY <1>4, <2>1, <2>4, <2>5
<1>23. \A j \in Nodes \ {n} : srq'[j] = srq[j]
  BY <1>1, <1>10 DEF Shape
<1>24. ASSUME NEW j \in Nodes, NEW s \in SrqSlots PROVE SlotOK(j, s)'
  <2>1. CASE j # n
    BY <1>12, <1>17, <1>19, <1>23, <2>1, SlotAlone
  <2>2. CASE j = n /\ s # h
    BY <1>17, <1>19, <1>21, <1>22, <2>2, SlotStays
  <2>3. CASE j = n /\ s = h
    <3>1. Held(CqHolders(n, h)', ThreadHolders(n, h)', WqHolders(n, h)')
      BY <1>12, <1>17, <1>19 DEF Free, Held, Single
    <3>2. srq'[n].q[h].valid /\ h \in InQueue(srq'[n])
      BY <1>12, <1>22 DEF UsedInQueue
    <3>3. QED
      BY <1>21, <2>3, <3>1, <3>2 DEF SlotOK
  <2>4. QED
    BY <2>1, <2>2, <2>3
<1>25. ASSUME NEW c \in Clients PROVE CallOK(c)'
  <2>1. /\ Flying(c)' = FlyingIn(net', c) /\ thread'[c] = thread[c]
        /\ Sent(c)' = Sent(c) /\ Served(c)' = Served(c) /\ Given(c)' = Given(c)
    BY <1>6, <1>17, <1>19 DEF Flying
  <2>2. Queued(c)' = Queued(c)
    <3>1. \A j \in Nodes : Serves(j) => j # n
      BY <1>21
    <3>2. QED
      BY <1>12, <1>23, <3>1 DEF Queued, Serves
  <2>3. CASE c # q
    <3>1. CallIn(net', c)
      BY <1>7, <1>14, <2>3, CallTakes
    <3>2. Answers(c)' = Answers(c)
      BY <1>19, <2>3
    <3>3. QED
      BY <2>1, <2>2, <3>1, <3>2 DEF CallIn, CallOK, Gone
  <2>4. CASE c = q
    <3>1. Answers(c)' = {k}
      BY <1>15, <1>19, <2>4 DEF Lost
    <3>2. thread'[c].pc = "poll"
      BY <1>15, <2>1, <2>4
    <3>3. OnlyOne(Sent(c)', Flying(c)', Queued(c)', Given(c)', Served(c)', Answers(c)')
      BY <1>15, <2>1, <2>2, <2>4, <3>1 DEF Lost, OnlyOne, Single
    <3>4. QED
      BY <3>2, <3>3 DEF CallOK
  <2>5. QED
    BY <2>3, <2>4
<1>26. \A j \in Nodes : up'[j]
  BY <1>10 DEF Calm
<1>27. QED
  BY <1>18, <1>20, <1>24, <1>25, <1>26 DEF Calm

\* When every core of a node that serves is above the threshold, one of them has
\* an SRQ entry, and so the entries that wait do not take up the whole SRQ.
LEMMA BusyCores ==
    ASSUME Inv, Calm, NEW n \in Nodes, Serves(n), get_avail_core(n) = -1,
           ~srq[n].q[srq[n].head].valid
    PROVE  Next1(srq[n].head) # srq[n].dispatch_slot
<1>1. Shape
  BY DEF Inv
<1>2. PICK q \in Servers : q[1] = n
  BY DEF Serves
<1>3. q \in QPs /\ q = <<n, q[2]>> /\ q[2] \in Cores(n)
  BY <1>2, QPType, Roles DEF Cores
<1>4. rpcs_per_core[q] \in Int /\ ~(rpcs_per_core[q] <= REQ_THRESHOLD) /\ REQ_THRESHOLD \in Nat
  <2> DEFINE free == {i \in Cores(n) : rpcs_per_core[<<n, i>>] <= REQ_THRESHOLD}
             c == CHOOSE i \in free : \A j \in free : i <= j
  <2>1. ASSUME free # {} PROVE FALSE
    <3>1. free \subseteq Nat
      BY QPType DEF Cores
    <3>2. \E i \in free : \A j \in free : i <= j
      BY <2>1, <3>1, NatMin
    <3>3. c \in Nat
      BY <3>1, <3>2
    <3>4. get_avail_core(n) = c
      BY <2>1 DEF get_avail_core
    <3> HIDE DEF c
    <3>5. QED
      BY <3>3, <3>4
  <2>2. ~(rpcs_per_core[q] <= REQ_THRESHOLD)
    BY <1>3, <2>1
  <2>3. QED
    BY <1>1, <1>3, <2>2, QPShape, Bounds
<1>5. \/ ToRead(cq[q], cq_pos[q]) # {}
      \/ Holds(thread[q])
      \/ ToRelease(wq[q], wq_pos[q]) # {}
  <2>1. rpcs_per_core[q] = Occupancy(wq[q], wq_pos[q], cq[q], cq_pos[q], thread[q])
    BY <1>2 DEF Inv, ServerOK, Calm
  <2>2. SUFFICES ASSUME /\ ToRead(cq[q], cq_pos[q]) = {} /\ ~Holds(thread[q])
                        /\ ToRelease(wq[q], wq_pos[q]) = {}
                 PROVE  FALSE
    OBVIOUS
  <2>3. Cardinality({}) = 0
    BY FS_EmptySet
  <2>4. /\ Cardinality(ToRead(cq[q], cq_pos[q])) = 0
        /\ Cardinality(ToRelease(wq[q], wq_pos[q])) = 0
    BY <2>2, <2>3, Zenon
  <2>5. Occupancy(wq[q], wq_pos[q], cq[q], cq_pos[q], thread[q]) = 0
    BY <2>2, <2>4 DEF Occupancy
  <2>6. QED
    BY <1>4, <2>1, <2>5
<1>6. \E s \in SrqSlots : ~Free(CqHolders(n, s), ThreadHolders(n, s), WqHolders(n, s))
  <2>1. CASE ToRead(cq[q], cq_pos[q]) # {}
    <3>1. PICK k \in Slots : k \in ToRead(cq[q], cq_pos[q])
      BY <2>1 DEF ToRead, Stretch
    <3>2. cq[q].q[k].slot_idx \in SrqSlots /\ ~cq[q].q[k].is_nack
      BY <1>1, <1>2, <1>3, QPShape DEF CqEntries, Calm, QueuePairOK, CompletionsOK
    <3>3. <<q, k>> \in CqHolders(n, cq[q].q[k].slot_idx)
      BY <1>2, <1>3, <3>1, <3>2 DEF CqHolders
    <3>4. QED
      BY <3>2, <3>3 DEF Free
  <2>2. CASE Holds(thread[q])
    <3>1. thread[q].slot \in SrqSlots
      BY <1>1, <1>3, QPShape DEF ThreadType
    <3>2. q \in ThreadHolders(n, thread[q].slot)
      BY <1>2, <1>3, <2>2 DEF ThreadHolders
    <3>3. QED
      BY <3>1, <3>2 DEF Free
  <2>3. CASE ToRelease(wq[q], wq_pos[q]) # {}
    <3>1. PICK k \in ToServe(wq[q], wq_pos[q]) : wq[q].q[k].op = "g"
      BY <2>3 DEF ToRelease
    <3>2. k \in Slots
      BY DEF ToServe, Stretch
    <3>3. wq[q].q[k].slot_idx \in SrqSlots
      BY <1>1, <1>3, <3>2, QPShape DEF WqEntries
    <3>4. <<q, k>> \in WqHolders(n, wq[q].q[k].slot_idx)
      BY <1>2, <1>3, <3>1, <3>2 DEF WqHolders
    <3>5. QED
      BY <3>3, <3>4 DEF Free
  <2>4. QED
    BY <1>5, <2>1, <2>2, <2>3
<1>7. PICK s \in SrqSlots : srq[n].q[s].valid /\ ~Waits(srq[n], s) /\ s \in InQueue(srq[n])
  <2>1. PICK s \in SrqSlots : ~Free(CqHolders(n, s), ThreadHolders(n, s), WqHolders(n, s))
    BY <1>6
  <2>2. SlotOK(n, s)
    BY DEF Calm
  <2>3. QED
    BY <2>1, <2>2 DEF SlotOK
<1>8. PICK a \in SrqType : a = srq[n]
  BY <1>1 DEF Shape
<1>9. QED
  BY <1>7, <1>8, HeadDoesNotWait

\* A request: what it asks, of whom.
LEMMA RequestAsks ==
    ASSUME Setup, NEW n, NEW i, NEW m \in MessageType, m.type = "s", ~m.term,
           MessageOK(i, n, m), PayloadOK(i, n, m), NEW r, r = <<i, m.qp>>
    PROVE  /\ m.payload \in Payloads /\ m.qp \in Int /\ r \in Clients /\ Serves(n)
           /\ m.payload = Live(r) /\ m.payload.of = r
           /\ IsTrace(m, n, r) /\ \A c \in Clients \ {r} : ~IsTrace(m, n, c)
<1>1. r \in Clients
  BY DEF MessageOK
<1>2. m.payload = Live(r) /\ n = ServerNode[r]
  BY DEF PayloadOK
<1>3. m.payload \in Payloads /\ m.qp \in Int
  BY DEF MessageType
<1>4. m.payload.of = r
  BY <1>2, Ownership, Zenon
<1>5. Serves(n)
  BY <1>1, <1>2, Zenon DEF Setup, Serves
<1>6. IsTrace(m, n, r) /\ \A c \in Clients \ {r} : ~IsTrace(m, n, c)
  BY <1>4 DEF IsTrace
<1>7. QED
  BY <1>1, <1>2, <1>3, <1>4, <1>5, <1>6, Zenon

\* A request r has come to node n: its message is gone, its payload is in slot h,
\* which nobody refers to.
RequestStored(i, n, m, r, h) ==
    /\ TakenMessages(net, net', i, n) /\ TakenTraces(net, net', i, n, m)
    /\ r \in Clients /\ Serves(n) /\ m.payload = Live(r) /\ m.payload.of = r
    /\ IsTrace(m, n, r) /\ \A c \in Clients \ {r} : ~IsTrace(m, n, c)
    /\ UNCHANGED <<wq, wq_pos, thread>>
    /\ h \in SrqSlots /\ recv_slots'[n][h] = m.payload
    /\ \A s \in SrqSlots \ {h} : recv_slots'[n][s] = recv_slots[n][s]
    /\ \A j \in Nodes \ {n} : recv_slots'[j] = recv_slots[j]
    /\ ~srq[n].q[h].valid
    /\ Free(CqHolders(n, h), ThreadHolders(n, h), WqHolders(n, h))

\* Its entry has joined those that wait; those of D, one at most, have left.
QueueAfter(n, r, h, D) ==
    /\ D \in SUBSET SrqSlots
    /\ \A d \in D : D = {d} /\ (Waits(srq[n], d) \/ d = h)
    /\ ~Waits(srq[n], h) /\ UsedInQueue(srq'[n])
    /\ \A s \in SrqSlots \ {h} : srq'[n].q[s] = srq[n].q[s]
    /\ srq'[n].q[h].valid
    /\ r = <<srq'[n].q[h].sending_nid, srq'[n].q[h].sending_qp>>
    /\ \A s \in SrqSlots : Waits(srq'[n], s) <=> (Waits(srq[n], s) \/ s = h) /\ s \notin D
    /\ \A j \in Nodes \ {n} : srq'[j] = srq[j]

\* Completion y of a server of node n tells of the entry of D.
GivenAfter(n, D, y) ==
    /\ \A c : Given(c)' = IF \E d \in D : recv_slots'[n][d].of = c
                          THEN Given(c) \union {y} ELSE Given(c)
    /\ \A j, s : CqHolders(j, s)' = IF j = n /\ s \in D
                                    THEN CqHolders(j, s) \union {y} ELSE CqHolders(j, s)
    /\ \A c \in Clients : Answers(c)' = Answers(c)

\* Of the requests w of client c, those of D have left the entries that wait.
WaitsAfter(c, n, D, w) ==
    /\ Queued(c)' = w \ ({n} \X D)
    /\ \A d \in D : recv_slots'[n][d].of = c <=> <<n, d>> \in w

\* The requests that wait then, D being those given to a core.
LEMMA QueuedAfter ==
    ASSUME NEW i, NEW n \in Nodes, NEW m, NEW r, NEW h, RequestStored(i, n, m, r, h),
           NEW D, QueueAfter(n, r, h, D), NEW c,
           NEW w, w = Queued(c) \union (IF c = r THEN {<<n, h>>} ELSE {})
    PROVE  WaitsAfter(c, n, D, w)
<1>1. /\ D \in SUBSET SrqSlots /\ h \in SrqSlots /\ Serves(n) /\ ~Waits(srq[n], h)
      /\ recv_slots'[n][h].of = r
      /\ \A s \in SrqSlots \ {h} : recv_slots'[n][s] = recv_slots[n][s]
      /\ \A j \in Nodes \ {n} : recv_slots'[j] = recv_slots[j] /\ srq'[j] = srq[j]
      /\ \A s \in SrqSlots : Waits(srq'[n], s) <=> (Waits(srq[n], s) \/ s = h) /\ s \notin D
      /\ \A d \in D : Waits(srq[n], d) \/ d = h
  BY DEF QueueAfter, RequestStored
<1>2. ASSUME NEW j \in Nodes, NEW s \in SrqSlots
      PROVE  <<j, s>> \in Queued(c)' <=>
               (<<j, s>> \in Queued(c) \/ (c = r /\ j = n /\ s = h)) /\ ~(j = n /\ s \in D)
  <2>1. <<j, s>> \in Queued(c)' <=> Serves(j) /\ Waits(srq'[j], s) /\ recv_slots'[j][s].of = c
    BY DEF Queued, Serves
  <2>2. <<j, s>> \in Queued(c) <=> Serves(j) /\ Waits(srq[j], s) /\ recv_slots[j][s].of = c
    BY DEF Queued
  <2>3. CASE j # n
    BY <1>1, <2>1, <2>2, <2>3
  <2>4. CASE j = n /\ s = h
    BY <1>1, <2>1, <2>2, <2>4
  <2>5. CASE j = n /\ s # h
    BY <1>1, <2>1, <2>2, <2>5
  <2>6. QED
    BY <2>3, <2>4, <2>5
<1>3. Queued(c)' \subseteq Nodes \X SrqSlots /\ Queued(c) \subseteq Nodes \X SrqSlots
  BY DEF Queued
<1> DEFINE old == Queued(c)
           new == Queued(c)'
<1>4. \A j \in Nodes, s \in SrqSlots :
         <<j, s>> \in new <=> (<<j, s>> \in old \/ (c = r /\ j = n /\ s = h)) /\ ~(j = n /\ s \in D)
  BY <1>2, Zenon
<1>5. new \subseteq Nodes \X SrqSlots /\ old \subseteq Nodes \X SrqSlots
      /\ w = old \union (IF c = r THEN {<<n, h>>} ELSE {}) /\ w \subseteq Nodes \X SrqSlots
  BY <1>1, <1>3
<1> HIDE DEF old, new
<1>6. new = w \ ({n} \X D)
  <2>1. ASSUME NEW j \in Nodes, NEW s \in SrqSlots
        PROVE  <<j, s>> \in new <=> <<j, s>> \in w \ ({n} \X D)
    BY <1>4, <1>5
  <2>2. QED
    BY <1>5, <2>1
<1>7. ASSUME NEW d \in D
      PROVE  recv_slots'[n][d].of = c <=> <<n, d>> \in w
  <2>1. <<n, d>> \in old <=> Waits(srq[n], d) /\ recv_slots[n][d].of = c
    BY <1>1 DEF Queued, old
  <2>2. CASE d = h
    BY <1>1, <1>5, <2>1, <2>2
  <2>3. CASE d # h
    BY <1>1, <1>5, <2>1, <2>3
  <2>4. QED
    BY <2>2, <2>3
<1>8. QED
  BY <1>6, <1>7 DEF new, WaitsAfter

\* The SRQ entries after a request.
LEMMA RequestSlots ==
    ASSUME Inv, Calm, IdsKept, NEW i, NEW n \in Nodes, NEW m, NEW r, NEW h,
           RequestStored(i, n, m, r, h), NEW D, QueueAfter(n, r, h, D), NEW y, GivenAfter(n, D, y),
           \A j, s : /\ ThreadHolders(j, s)' = ThreadHolders(j, s)
                     /\ WqHolders(j, s)' = WqHolders(j, s),
           \A c : Live(c)' = Live(c),
           NEW j \in Nodes, NEW s \in SrqSlots
    PROVE  SlotOK(j, s)'
<1>1. /\ Serves(n) /\ Serves(n)' /\ m.payload = Live(r) /\ recv_slots'[n][h] = m.payload
      /\ h \in SrqSlots /\ ~srq[n].q[h].valid
      /\ Free(CqHolders(n, h), ThreadHolders(n, h), WqHolders(n, h))
      /\ \A l \in SrqSlots \ {h} : recv_slots'[n][l] = recv_slots[n][l]
      /\ \A l \in Nodes \ {n} : recv_slots'[l] = recv_slots[l]
  BY DEF RequestStored, Serves
<1>2. /\ \A d \in D : D = {d} /\ (Waits(srq[n], d) \/ d = h)
      /\ ~Waits(srq[n], h) /\ UsedInQueue(srq'[n])
      /\ \A l \in SrqSlots \ {h} : srq'[n].q[l] = srq[n].q[l]
      /\ srq'[n].q[h].valid
      /\ r = <<srq'[n].q[h].sending_nid, srq'[n].q[h].sending_qp>>
      /\ \A l \in SrqSlots : Waits(srq'[n], l) <=> (Waits(srq[n], l) \/ l = h) /\ l \notin D
      /\ \A l \in Nodes \ {n} : srq'[l] = srq[l]
  BY DEF QueueAfter
<1>3. CqHolders(j, s)' = IF j = n /\ s \in D THEN CqHolders(j, s) \union {y} ELSE CqHolders(j, s)
  BY DEF GivenAfter
<1>4. CASE j # n
  BY <1>1, <1>2, <1>3, <1>4, SlotAlone
<1>5. CASE j = n /\ s \in D
  <2>1. Free(CqHolders(n, s), ThreadHolders(n, s), WqHolders(n, s))
    <3>1. CASE s = h
      BY <1>1, <3>1
    <3>2. CASE Waits(srq[n], s)
      <4>1. SlotOK(n, s)
        BY DEF Calm
      <4>2. QED
        BY <1>1, <3>2, <4>1 DEF SlotOK
    <3>3. QED
      BY <1>2, <1>5, <3>1, <3>2
  <2>2. Held(CqHolders(n, s)', ThreadHolders(n, s)', WqHolders(n, s)')
    BY <1>3, <1>5, <2>1 DEF Free, Held, Single
  <2>3. srq'[n].q[s].valid
    <3>1. CASE s = h
      BY <1>2, <3>1
    <3>2. CASE s # h /\ Waits(srq[n], s)
      <4>1. SlotOK(n, s)
        BY DEF Calm
      <4>2. QED
        BY <1>1, <1>2, <3>2, <4>1 DEF SlotOK
    <3>3. QED
      BY <1>2, <1>5, <3>1, <3>2
  <2>4. s \in InQueue(srq'[n]) /\ ~Waits(srq'[n], s)
    BY <1>2, <1>5, <2>3 DEF UsedInQueue
  <2>5. QED
    BY <1>5, <2>2, <2>3, <2>4 DEF SlotOK
<1>6. CASE j = n /\ s \notin D /\ s = h
  <2>1. Free(CqHolders(n, s)', ThreadHolders(n, s)', WqHolders(n, s)')
    BY <1>1, <1>3, <1>6 DEF Free
  <2>2. srq'[n].q[s].valid /\ Waits(srq'[n], s) /\ s \in InQueue(srq'[n])
    BY <1>1, <1>2, <1>6 DEF UsedInQueue
  <2>3. (Live(<<srq[n].q[s].sending_nid, srq[n].q[s].sending_qp>>))' = Live(r)
    <3>1. Live(r)' = Live(r)
      OBVIOUS
    <3>2. QED
      BY <1>2, <1>6, <3>1 DEF Live
  <2>4. recv_slots'[n][s] = Live(r)
    BY <1>1, <1>6
  <2>5. QED
    BY <1>1, <1>6, <2>1, <2>2, <2>3, <2>4 DEF SlotOK
<1>7. CASE j = n /\ s \notin D /\ s # h
  <2>1. srq'[n].q[s] = srq[n].q[s] /\ recv_slots'[n][s] = recv_slots[n][s]
        /\ (Waits(srq'[n], s) <=> Waits(srq[n], s)) /\ CqHolders(n, s)' = CqHolders(n, s)
    BY <1>1, <1>2, <1>3, <1>7
  <2>2. QED
    BY <1>2, <1>7, <2>1, SlotStays
<1>8. QED
  BY <1>4, <1>5, <1>6, <1>7

\* The calls after a request: the message becomes an entry that waits, the entry
\* given to a core a completion.
LEMMA RequestCall ==
    ASSUME Inv, Calm, NEW i, NEW n \in Nodes, NEW m, NEW r, NEW h,
           RequestStored(i, n, m, r, h), NEW D, QueueAfter(n, r, h, D), NEW y, GivenAfter(n, D, y),
           \A c : Sent(c)' = Sent(c) /\ Served(c)' = Served(c),
           NEW c \in Clients
    PROVE  CallOK(c)'
<1>1. PICK w : w = Queued(c) \union (IF c = r THEN {<<n, h>>} ELSE {})
  OBVIOUS
<1> DEFINE gone == thread[c].pc # "poll" /\ Sent(c) = {} /\ FlyingIn(net', c) = {} /\ w = {}
                   /\ Given(c) = {} /\ Served(c) = {} /\ Answers(c) = {}
           one == /\ thread[c].pc = "poll"
                  /\ OnlyOne(Sent(c), FlyingIn(net', c), w, Given(c), Served(c), Answers(c))
<1>2. gone \/ one
  <2>1. CASE c = r
    <3>1. thread[c].pc = "poll" /\ Lost(c) /\ FlyingIn(net', c) = {}
      BY <2>1, CallTakes DEF RequestStored
    <3>2. w = {<<n, h>>}
      BY <1>1, <2>1, <3>1 DEF Lost
    <3>3. Single(w)
      BY <3>2 DEF Single
    <3>4. QED
      BY <3>1, <3>3 DEF Lost, OnlyOne
  <2>2. CASE c # r
    <3>1. CallIn(net', c)
      BY <2>2, CallTakes DEF RequestStored
    <3>2. w = Queued(c)
      BY <1>1, <2>2
    <3>3. QED
      BY <3>1, <3>2 DEF CallIn
  <2>3. QED
    BY <2>1, <2>2
<1>3. /\ Queued(c)' = w \ ({n} \X D)
      /\ \A d \in D : recv_slots'[n][d].of = c <=> <<n, d>> \in w
  <2>1. WaitsAfter(c, n, D, w)
    BY <1>1, QueuedAfter
  <2>2. QED
    BY <2>1 DEF WaitsAfter
<1>4. /\ Sent(c)' = Sent(c) /\ Flying(c)' = FlyingIn(net', c) /\ Served(c)' = Served(c)
      /\ Answers(c)' = Answers(c) /\ thread'[c] = thread[c]
  BY DEF Flying, GivenAfter, RequestStored
<1>5. Given(c)' = IF \E d \in D : recv_slots'[n][d].of = c THEN Given(c) \union {y} ELSE Given(c)
  BY DEF GivenAfter
<1>6. CASE \E d \in D : <<n, d>> \in w
  <2>1. PICK d \in D : <<n, d>> \in w /\ D = {d}
    BY <1>6 DEF QueueAfter
  <2>2. Queued(c)' = w \ {<<n, d>>} /\ Given(c)' = Given(c) \union {y}
    BY <1>3, <1>5, <2>1
  <2>3. one
    BY <1>2, <2>1
  <2>4. OnlyOne(Sent(c), FlyingIn(net', c), w \ {<<n, d>>}, Given(c) \union {y}, Served(c), Answers(c))
    BY <2>1, <2>3, TraceMoves
  <2>5. thread'[c].pc = "poll"
    BY <1>4, <2>3
  <2>6. QED
    BY <1>4, <2>2, <2>4, <2>5 DEF CallOK
<1>7. CASE \A d \in D : <<n, d>> \notin w
  <2>1. Given(c)' = Given(c)
    BY <1>3, <1>5, <1>7
  <2>2. Queued(c)' = w
    BY <1>3, <1>7
  <2>3. QED
    BY <1>2, <1>4, <2>1, <2>2 DEF CallOK, Gone
<1>8. QED
  BY <1>6, <1>7

\* The rest of the state after a request.
LEMMA RequestCalm ==
    ASSUME Inv, Calm, NEW i, NEW n \in Nodes, NEW m, NEW r, NEW h,
           RequestStored(i, n, m, r, h), NEW D, QueueAfter(n, r, h, D), NEW y, GivenAfter(n, D, y),
           \A p \in QPs : QueuePairOK(p)', UNCHANGED up
    PROVE  Calm'
<1>1. /\ IdsKept /\ \A c : Live(c)' = Live(c)
      /\ \A c : Sent(c)' = Sent(c) /\ Served(c)' = Served(c)
      /\ \A j, s : /\ ThreadHolders(j, s)' = ThreadHolders(j, s)
                   /\ WqHolders(j, s)' = WqHolders(j, s)
  BY QueuesIdle DEF RequestStored
<1>2. \A j, l \in Nodes : \A x \in 1 .. Len(net'[j][l]) : PayloadOK(j, l, net[j][l][x])'
  <2>1. TakenMessages(net, net', i, n)
    BY DEF RequestStored
  <2>2. ASSUME NEW j \in Nodes, NEW l \in Nodes, NEW x \in 1 .. Len(net'[j][l])
        PROVE  PayloadOK(j, l, net[j][l][x])'
    <3>1. PICK p : p = net'[j][l][x]
      OBVIOUS
    <3>2. PayloadOK(j, l, p)'
      BY <1>1, <2>1, <3>1, PayloadsTaken
    <3>3. QED
      BY <3>1, <3>2 DEF PayloadOK
  <2>3. QED
    BY <2>2
<1>3. \A j \in Nodes, s \in SrqSlots : SlotOK(j, s)'
  BY <1>1, RequestSlots
<1>4. \A c \in Clients : CallOK(c)'
  BY <1>1, RequestCall
<1>5. \A j \in Nodes : up'[j]
  BY DEF Calm
<1>6. QED
  BY <1>2, <1>3, <1>4, <1>5 DEF Calm

\* The SRQ after a request: f has joined it, d is the entry to give to a core.
QueueEffect(n, r, h, f, s2, d) ==
    /\ get_avail_core(n) = -1 /\ srq' = [srq EXCEPT ![n] = s2] => QueueAfter(n, r, h, {})
    /\ srq' = [srq EXCEPT ![n] = advance_dispatch_slot(s2)] => QueueAfter(n, r, h, {d})
    /\ d \in SrqSlots /\ s2.q[d].valid /\ (d = h \/ Waits(srq[n], d))
    /\ s2.q[d] = IF d = h THEN f ELSE srq[n].q[d]

\* Whose request entry d, which g is, holds.
GivenEntry(n, r, h, d, g) ==
    /\ d = h \/ Waits(srq[n], d)
    /\ d = h => <<g.sending_nid, g.sending_qp>> = r
    /\ d # h => g.sending_nid = srq[n].q[d].sending_nid /\ g.sending_qp = srq[n].q[d].sending_qp

\* The SRQ after a request, with or without a core that is free.
LEMMA RequestQueue ==
    ASSUME Inv, Calm, NEW n \in Nodes, Serves(n), ~srq_full(srq[n]),
           NEW h, h = srq[n].head, NEW f \in SrqEntries, f.valid,
           NEW r, r = <<f.sending_nid, f.sending_qp>>,
           NEW s2, s2 = enqueue_in_srq(srq[n], f), s2 \in SrqType,
           NEW d, d = s2.dispatch_slot, ~srq[n].q[h].valid
    PROVE  QueueEffect(n, r, h, f, s2, d)
<1>1. Shape
  BY DEF Inv
<1>2. PICK a, s3 : a \in SrqType /\ a = srq[n] /\ s3 = advance_dispatch_slot(s2)
  BY <1>1 DEF Shape
<1>3. UsedInQueue(a) /\ ~a.full /\ a.head = h /\ s2 = enqueue_in_srq(a, f)
  BY <1>2, CalmQueue DEF srq_full
<1>4. /\ h \in SrqSlots /\ UsedInQueue(s2)
      /\ \A k \in SrqSlots : s2.q[k] = IF k = h THEN f ELSE a.q[k]
      /\ Next1(h) # a.dispatch_slot =>
            \A k \in SrqSlots : Waits(s2, k) <=> Waits(a, k) \/ k = h
  BY <1>2, <1>3, EnqueueEffect
<1>5. /\ d \in SrqSlots /\ (d = h \/ Waits(a, d))
      /\ s3.q = s2.q /\ InQueue(s3) = InQueue(s2)
      /\ \A k \in SrqSlots : Waits(s3, k) <=> (Waits(a, k) \/ k = h) /\ k # d
  BY <1>2, <1>3, DispatchEffect
<1>6. ~Waits(a, h)
  BY <1>2, <1>3, HeadDoesNotWait
<1>7. s2.q[d].valid
  <2>1. SlotOK(n, d)
    BY <1>5 DEF Calm
  <2>2. CASE d = h
    BY <1>4, <1>5, <2>2
  <2>3. CASE d # h
    BY <1>2, <1>4, <1>5, <2>1, <2>3 DEF SlotOK
  <2>4. QED
    BY <2>2, <2>3
<1>8. ASSUME NEW b, b.q = s2.q, InQueue(b) = InQueue(s2), srq' = [srq EXCEPT ![n] = b]
      PROVE  /\ UsedInQueue(srq'[n]) /\ srq'[n] = b
             /\ \A s \in SrqSlots \ {h} : srq'[n].q[s] = srq[n].q[s]
             /\ srq'[n].q[h].valid
             /\ r = <<srq'[n].q[h].sending_nid, srq'[n].q[h].sending_qp>>
             /\ \A j \in Nodes \ {n} : srq'[j] = srq[j]
  <2>1. srq'[n] = b /\ \A j \in Nodes \ {n} : srq'[j] = srq[j]
    BY <1>1, <1>8 DEF Shape
  <2>2. UsedInQueue(b)
    BY <1>4, <1>8 DEF UsedInQueue
  <2>3. b.q[h] = f /\ \A s \in SrqSlots \ {h} : b.q[s] = srq[n].q[s]
    BY <1>2, <1>4, <1>8
  <2>4. QED
    BY <2>1, <2>2, <2>3
<1>9. ASSUME get_avail_core(n) = -1, srq' = [srq EXCEPT ![n] = s2] PROVE QueueAfter(n, r, h, {})
  <2>1. Next1(h) # a.dispatch_slot
    BY <1>2, <1>3, <1>9, BusyCores
  <2>2. /\ UsedInQueue(srq'[n]) /\ srq'[n] = s2
        /\ \A s \in SrqSlots \ {h} : srq'[n].q[s] = srq[n].q[s]
        /\ srq'[n].q[h].valid
        /\ r = <<srq'[n].q[h].sending_nid, srq'[n].q[h].sending_qp>>
        /\ \A j \in Nodes \ {n} : srq'[j] = srq[j]
    BY <1>8, <1>9
  <2>3. \A k \in SrqSlots : Waits(srq'[n], k) <=> (Waits(srq[n], k) \/ k = h) /\ k \notin {}
    BY <1>2, <1>4, <2>1, <2>2
  <2>4. ~Waits(srq[n], h)
    BY <1>2, <1>6
  <2>5. {} \in SUBSET SrqSlots /\ \A k \in {} : {} = {k} /\ (Waits(srq[n], k) \/ k = h)
    OBVIOUS
  <2>6. QED
    BY <2>2, <2>3, <2>4, <2>5, Zenon DEF QueueAfter
<1>10. ASSUME srq' = [srq EXCEPT ![n] = advance_dispatch_slot(s2)] PROVE QueueAfter(n, r, h, {d})
  <2>1. srq' = [srq EXCEPT ![n] = s3]
    BY <1>2, <1>10
  <2>2. /\ UsedInQueue(srq'[n]) /\ srq'[n] = s3
        /\ \A s \in SrqSlots \ {h} : srq'[n].q[s] = srq[n].q[s]
        /\ srq'[n].q[h].valid
        /\ r = <<srq'[n].q[h].sending_nid, srq'[n].q[h].sending_qp>>
        /\ \A j \in Nodes \ {n} : srq'[j] = srq[j]
    BY <1>5, <1>8, <2>1
  <2>3. \A k \in SrqSlots : Waits(srq'[n], k) <=> (Waits(srq[n], k) \/ k = h) /\ k \notin {d}
    BY <1>2, <1>5, <2>2
  <2>4. ~Waits(srq[n], h)
    BY <1>2, <1>6
  <2>5. {d} \in SUBSET SrqSlots /\ \A k \in {d} : {d} = {k} /\ (Waits(srq[n], k) \/ k = h)
    BY <1>2, <1>5
  <2>6. QED
    BY <2>2, <2>3, <2>4, <2>5, Zenon DEF QueueAfter
<1>11. s2.q[d] = IF d = h THEN f ELSE srq[n].q[d]
  BY <1>2, <1>4, <1>5
<1>12. QED
  BY <1>2, <1>5, <1>7, <1>9, <1>10, <1>11, Zenon DEF QueueEffect

\* case 's': a request waits for a core.
LEMMA RequestWaitsCalm ==
    ASSUME Inv, Calm, NEW i, NEW n \in Nodes, NEW m, NEW r, NEW h,
           RequestStored(i, n, m, r, h), FreshSlotsKept, QueueAfter(n, r, h, {}),
           UNCHANGED <<cq, cq_pos, up>>
    PROVE  Calm'
<1>1. UNCHANGED <<wq, wq_pos, thread>> /\ cq' = cq /\ cq_pos' = cq_pos
  BY DEF RequestStored
<1>2. IdsKept
  BY <1>1, QueuesIdle
<1>3. /\ \A p \in QPs : SameFresh(p)
      /\ \A p \in Servers : \A k \in Slots : ~cq[p].q[k].is_nack
  BY <1>1, Roles DEF SameFresh, Calm, QueuePairOK, CompletionsOK
<1>4. /\ \A c : Given(c)' = Given(c) /\ \A s : CqHolders(c, s)' = CqHolders(c, s)
      /\ \A c \in QPs : Answers(c)' = Answers(c)
  BY <1>3, FreshSame
<1>5. GivenAfter(n, {}, <<>>)
  BY <1>4, Roles DEF GivenAfter
<1>6. \A p \in QPs : QueuePairOK(p)'
  BY <1>1, <1>2, QueuePairAlone
<1>7. QED
  BY <1>5, <1>6, RequestCalm

\* case 's': a request goes to a core with room.
LEMMA RequestGivenCalm ==
    ASSUME Inv, Calm, Deployment, NEW i, NEW n \in Nodes, NEW m, NEW r, NEW h,
           RequestStored(i, n, m, r, h), FreshSlotsKept,
           NEW d \in SrqSlots, QueueAfter(n, r, h, {d}),
           NEW g \in SrqEntries, GivenEntry(n, r, h, d, g),
           NEW q \in QPs, q[1] = n, cq_pos[q].head \notin ToRead(cq[q], cq_pos[q]),
           NEW e \in CqEntries, DeliverTo(q, e), ~e.is_nack, e.slot_idx = d,
           e.sending_nid = g.sending_nid, e.sending_qp = g.sending_qp,
           UNCHANGED up
    PROVE  Calm'
<1>1. /\ UNCHANGED <<wq, wq_pos, thread>> /\ Serves(n)
      /\ recv_slots'[n][h] = Live(r) /\ \A s \in SrqSlots \ {h} : recv_slots'[n][s] = recv_slots[n][s]
  BY DEF RequestStored
<1>2. q \in Servers /\ q \notin Clients
  BY <1>1, Roles DEF Serves, Deployment
<1>3. recv_slots'[q[1]][e.slot_idx] = Live(<<e.sending_nid, e.sending_qp>>)
  <2>1. CASE d = h
    BY <1>1, <2>1 DEF GivenEntry
  <2>2. CASE d # h
    <3>1. SlotOK(n, d)
      BY DEF Calm
    <3>2. recv_slots[n][d] = Live(<<srq[n].q[d].sending_nid, srq[n].q[d].sending_qp>>)
      BY <1>1, <2>2, <3>1 DEF SlotOK, GivenEntry
    <3>3. QED
      BY <1>1, <2>2, <3>2 DEF GivenEntry
  <2>3. QED
    BY <2>1, <2>2
<1>4. PICK k : k = cq_pos[q].head
  OBVIOUS
<1>5. /\ \A p \in QPs : QueuePairOK(p)'
      /\ GivenGrows(q, k, e) /\ CqHoldersGrow(q, k, e) /\ AnswersGrow(q, k)
  BY <1>1, <1>2, <1>3, <1>4, DeliveredCalm
<1>6. GivenAfter(n, {d}, <<q, k>>)
  <2>1. ASSUME NEW c
        PROVE  Given(c)' = IF \E x \in {d} : recv_slots'[n][x].of = c
                           THEN Given(c) \union {<<q, k>>} ELSE Given(c)
    BY <1>2, <1>5 DEF GivenGrows
  <2>2. ASSUME NEW j, NEW s
        PROVE  CqHolders(j, s)' = IF j = n /\ s \in {d}
                                  THEN CqHolders(j, s) \union {<<q, k>>} ELSE CqHolders(j, s)
    BY <1>5 DEF CqHoldersGrow
  <2>3. \A c \in Clients : Answers(c)' = Answers(c)
    BY <1>2, <1>5, Roles DEF AnswersGrow
  <2>4. QED
    BY <2>1, <2>2, <2>3 DEF GivenAfter
<1>7. QED
  BY <1>5, <1>6, RequestCalm

\* A completion moves the daemon's cursor.
LEMMA DeliveredMoves ==
    ASSUME Shape, NEW q \in QPs, NEW e \in CqEntries, DeliverTo(q, e)
    PROVE  cq_pos'[q] # cq_pos[q]
<1>1. cq_pos'[q] = [head |-> Advance(cq_pos[q].head), SR |-> Phase(cq_pos[q].head, cq_pos[q].SR)]
  BY DeliverType, Zenon
<1>2. cq_pos[q].head \in Slots /\ cq_pos[q].SR \in Bits
  BY QPShape DEF CqPosType
<1>3. Advance(cq_pos[q].head) # cq_pos[q].head \/ Phase(cq_pos[q].head, cq_pos[q].SR) # cq_pos[q].SR
  <2>1. cq_pos[q].head \in Nat /\ MAX_NUM_WQ \in Nat
    BY <1>2, Bounds DEF Slots
  <2>2. QED
    BY <1>2, <2>1 DEF Advance, Phase, Bits
<1>4. QED
  BY <1>1, <1>3

\* case 's': a request.
LEMMA RecvRequestCalm ==
    ASSUME Inv, Calm, Deployment, Setup, NEW n \in Nodes, NEW i \in Nodes, RecvRequest(i, n)
    PROVE  Calm'
<1>1. Shape
  BY DEF Inv
<1>2. PICK m : m = Head(net[i][n])
  OBVIOUS
<1>3. PICK h, f, r : /\ h = srq[n].head
                     /\ f = [valid |-> TRUE, sending_nid |-> i, sending_qp |-> m.qp]
                     /\ r = <<i, m.qp>>
  OBVIOUS
<1>4. PICK s2 : s2 = enqueue_in_srq(srq[n], f)
  OBVIOUS
<1>5. PICK d : d = s2.dispatch_slot
  OBVIOUS
<1>6. PICK q : q = <<n, get_avail_core(n)>>
  BY Zenon
<1>7. d = s2.dispatch_slot /\ q = <<n, get_avail_core(n)>>
  BY <1>5, <1>6
<1>8. PICK e : e = [CqSlot(q) EXCEPT !.sending_nid = s2.q[d].sending_nid,
                                     !.sending_qp = s2.q[d].sending_qp, !.slot_idx = d]
  OBVIOUS
<1> DEFINE msg == Head(net[i][n])
           entry == [valid |-> TRUE, sending_nid |-> i, sending_qp |-> msg.qp]
           queued == enqueue_in_srq(srq[n], entry)
           slot == queued.dispatch_slot
           core == <<n, get_avail_core(n)>>
           completion == [CqSlot(core) EXCEPT !.sending_nid = queued.q[slot].sending_nid,
                                              !.sending_qp = queued.q[slot].sending_qp, !.slot_idx = slot]
<1>9. /\ net[i][n] # << >> /\ msg.type = "s" /\ ~msg.term /\ net' = Taken(i, n)
      /\ UNCHANGED <<wq, wq_pos, thread>>
      /\ ~srq_full(srq[n]) /\ StoreInSlot(n, msg.payload)
  <2>1. /\ Arrives(i, n, "s") /\ ~msg.term /\ net' = Taken(i, n)
        /\ UNCHANGED <<wq, wq_pos, thread>>
        /\ ~srq_full(srq[n]) /\ StoreInSlot(n, msg.payload)
    BY Zenon DEF RecvRequest
  <2>2. QED
    BY <2>1, Zenon DEF Arrives
<1>10. Serves(n)
  <2>1. /\ MessageOK(i, n, m) /\ m \in MessageType
        /\ \E l \in 1 .. Len(net[i][n]) : m = net[i][n][l]
    BY <1>2, <1>9, TakeEffect
  <2>2. PayloadOK(i, n, m)
    BY <2>1 DEF Calm
  <2>3. QED
    BY <1>2, <1>3, <1>9, <2>1, <2>2, RequestAsks
<1>11. \/ /\ get_avail_core(n) = -1
          /\ srq' = [srq EXCEPT ![n] = queued]
          /\ UNCHANGED <<cq, cq_pos, rpcs_per_core, up>>
       \/ /\ get_avail_core(n) # -1
          /\ srq' = [srq EXCEPT ![n] = advance_dispatch_slot(queued)]
          /\ DeliverTo(core, completion)
          /\ UNCHANGED up
       \/ ~queued.q[slot].valid
  <2>1. core \in QPs => CqConnected(core)
    <3>1. ASSUME core \in QPs PROVE core \in Servers
      <4>1. core[1] = n
        OBVIOUS
      <4> HIDE DEF core
      <4>2. QED
        BY <1>10, <3>1, <4>1, Roles DEF Serves, Deployment
    <3>2. ASSUME core \in Servers PROVE ThreadOK(core) /\ core \notin Clients
      BY <3>2, Roles DEF Calm, QueuePairOK
    <3> HIDE DEF core
    <3>3. QED
      BY <3>1, <3>2 DEF ThreadOK, CqConnected
  <2>2. get_avail_core(n) # -1 => core \in QPs
    BY AvailCore, Zenon
  <2>3. ~DEBUG_RMC
    BY DEF Setup
  <2>4. QED
    BY <2>1, <2>2, <2>3, Zenon DEF RecvRequest, Asserted
<1>12. /\ msg = m /\ queued = s2 /\ slot = d /\ core = q
  BY <1>2, <1>3, <1>4, <1>7
<1>13. completion = e
  <2> HIDE DEF queued, slot, core
  <2>1. QED
    BY <1>8, <1>12
<1> HIDE DEF msg, queued, slot, core, completion
<1>14. /\ net[i][n] # << >> /\ m.type = "s" /\ ~m.term /\ net' = Taken(i, n)
       /\ UNCHANGED <<wq, wq_pos, thread>>
       /\ ~srq_full(srq[n]) /\ StoreInSlot(n, m.payload)
  BY <1>9, <1>12
<1>15. \/ /\ get_avail_core(n) = -1
          /\ srq' = [srq EXCEPT ![n] = s2]
          /\ UNCHANGED <<cq, cq_pos, rpcs_per_core, up>>
       \/ /\ get_avail_core(n) # -1
          /\ srq' = [srq EXCEPT ![n] = advance_dispatch_slot(s2)]
          /\ DeliverTo(q, e)
          /\ UNCHANGED up
       \/ ~s2.q[d].valid
  BY <1>11, <1>12, <1>13
<1>16. /\ TakenMessages(net, net', i, n) /\ TakenTraces(net, net', i, n, m)
       /\ MessageOK(i, n, m) /\ m \in MessageType /\ PayloadOK(i, n, m)
  <2>1. /\ TakenMessages(net, net', i, n) /\ TakenTraces(net, net', i, n, m) /\ MessageOK(i, n, m)
        /\ \E l \in 1 .. Len(net[i][n]) : m = net[i][n][l]
        /\ m \in MessageType
    BY <1>2, <1>14, TakeEffect
  <2>2. PayloadOK(i, n, m)
    BY <2>1 DEF Calm
  <2>3. QED
    BY <2>1, <2>2
<1>17. /\ m.payload \in Payloads /\ m.qp \in Int /\ r \in Clients /\ Serves(n)
       /\ m.payload = Live(r) /\ m.payload.of = r
       /\ IsTrace(m, n, r) /\ \A c \in Clients \ {r} : ~IsTrace(m, n, c)
  BY <1>3, <1>14, <1>16, RequestAsks
<1>18. /\ FreshSlotsKept /\ h \in SrqSlots /\ recv_slots'[n][h] = m.payload
       /\ \A s \in SrqSlots \ {h} : recv_slots'[n][s] = recv_slots[n][s]
       /\ \A j \in Nodes \ {n} : recv_slots'[j] = recv_slots[j]
       /\ ~srq[n].q[h].valid
       /\ Free(CqHolders(n, h), ThreadHolders(n, h), WqHolders(n, h))
  BY <1>3, <1>14, <1>17, SlotTaken
<1>19. RequestStored(i, n, m, r, h)
  BY <1>14, <1>16, <1>17, <1>18, Zenon DEF RequestStored
<1>20. f \in SrqEntries /\ f.valid /\ r = <<f.sending_nid, f.sending_qp>>
  BY <1>3, <1>17 DEF SrqEntries
<1>21. s2 \in SrqType
  BY <1>1, <1>4, <1>20, SrqOperations DEF Shape
<1>22. QueueEffect(n, r, h, f, s2, d)
  BY <1>3, <1>4, <1>7, <1>14, <1>17, <1>18, <1>20, <1>21, RequestQueue
<1>23. /\ get_avail_core(n) = -1 /\ srq' = [srq EXCEPT ![n] = s2] => QueueAfter(n, r, h, {})
       /\ srq' = [srq EXCEPT ![n] = advance_dispatch_slot(s2)] => QueueAfter(n, r, h, {d})
       /\ d \in SrqSlots /\ s2.q[d].valid /\ (d = h \/ Waits(srq[n], d))
       /\ s2.q[d] = IF d = h THEN f ELSE srq[n].q[d]
  BY <1>22 DEF QueueEffect
<1>24. CASE /\ get_avail_core(n) = -1
            /\ srq' = [srq EXCEPT ![n] = s2]
            /\ UNCHANGED <<cq, cq_pos, rpcs_per_core, up>>
  BY <1>18, <1>19, <1>23, <1>24, RequestWaitsCalm
<1>25. CASE /\ get_avail_core(n) # -1
            /\ srq' = [srq EXCEPT ![n] = advance_dispatch_slot(s2)]
            /\ DeliverTo(q, e)
            /\ UNCHANGED up
  <2>1. q \in QPs /\ q[1] = n
    BY <1>7, <1>25, AvailCore
  <2>2. q \in Servers
    BY <1>17, <2>1, Roles DEF Serves, Deployment
  <2>3. PICK g : g = s2.q[d]
    OBVIOUS
  <2>4. g \in SrqEntries
    BY <1>21, <1>23, <2>3 DEF SrqType
  <2>5. CqSlot(q) \in CqEntries /\ ~CqSlot(q).is_nack
    <3>1. CqSlot(q) \in CqEntries /\ cq_pos[q].head \in Slots
      BY <1>1, <2>1, QPShape
    <3>2. QED
      BY <2>1, <2>2, <3>1 DEF CqSlot, Calm, QueuePairOK, CompletionsOK
  <2>6. /\ e \in CqEntries /\ ~e.is_nack /\ e.slot_idx = d
        /\ e.sending_nid = g.sending_nid /\ e.sending_qp = g.sending_qp
    BY <1>8, <1>23, <2>3, <2>4, <2>5 DEF CqEntries, SrqEntries
  <2>7. cq_pos[q].head \notin ToRead(cq[q], cq_pos[q])
    <3>1. cq_pos'[q] # cq_pos[q]
      BY <1>1, <1>25, <2>1, <2>6, DeliveredMoves
    <3>2. QED
      BY <2>2, <3>1, RecvRequestInv
  <2>8. QueueAfter(n, r, h, {d}) /\ d \in SrqSlots
    BY <1>23, <1>25
  <2>9. GivenEntry(n, r, h, d, g)
    BY <1>20, <1>23, <2>3 DEF GivenEntry
  <2>10. DeliverTo(q, e) /\ UNCHANGED up
    BY <1>25
  <2>11. QED
    BY <1>18, <1>19, <2>1, <2>4, <2>6, <2>7, <2>8, <2>9, <2>10, RequestGivenCalm
<1>26. QED
  BY <1>15, <1>23, <1>24, <1>25
(***************************************************************************)
(* The whole program.                                                      *)
(***************************************************************************)

\* Nothing is under way at first.
LEMMA InitCalm == ASSUME Init, Setup PROVE Calm
<1>1. /\ wq = [q \in QPs |-> [q |-> [k \in Slots |-> ZeroWqEntry], head |-> 0, SR |-> 1]]
      /\ wq_pos = [q \in QPs |-> [tail |-> 0, SR |-> 1]]
      /\ cq = [q \in QPs |-> [q |-> [k \in Slots |-> ZeroCqEntry], tail |-> 0, SR |-> 1]]
      /\ cq_pos = [q \in QPs |-> [head |-> 0, SR |-> 1]]
      /\ srq = [n \in Nodes |-> srq_init]
      /\ net = [j \in Nodes |-> [n \in Nodes |-> << >>]]
      /\ up = [n \in Nodes |-> TRUE]
      /\ thread = [q \in QPs |-> Thread(IF q \in Registered THEN Ready(q) ELSE "reg_wq")]
  BY DEF Init
<1>2. ASSUME NEW q \in QPs
      PROVE  /\ ToServe(wq[q], wq_pos[q]) = {} /\ ToRead(cq[q], cq_pos[q]) = {}
             /\ WqMarks(wq[q], wq_pos[q], thread[q]) /\ CqMarks(cq[q], cq_pos[q])
             /\ IF q \in Clients THEN thread[q].pc \in {"idle", "reg_wq"} ELSE thread[q].pc = "poll"
             /\ \A k \in Slots : ~cq[q].q[k].is_nack
  <2>1. /\ wq[q] = [q |-> [k \in Slots |-> ZeroWqEntry], head |-> 0, SR |-> 1]
        /\ wq_pos[q] = [tail |-> 0, SR |-> 1]
        /\ cq[q] = [q |-> [k \in Slots |-> ZeroCqEntry], tail |-> 0, SR |-> 1]
        /\ cq_pos[q] = [head |-> 0, SR |-> 1]
        /\ thread[q] = Thread(IF q \in Registered THEN Ready(q) ELSE "reg_wq")
    BY <1>1
  <2>2. /\ wq[q].head = 0 /\ wq[q].SR = 1 /\ wq_pos[q].tail = 0 /\ wq_pos[q].SR = 1
        /\ cq[q].tail = 0 /\ cq[q].SR = 1 /\ cq_pos[q].head = 0 /\ cq_pos[q].SR = 1
        /\ \A k \in Slots : wq[q].q[k].SR = 0 /\ wq[q].q[k].valid = 0
        /\ \A k \in Slots : cq[q].q[k].SR = 0 /\ ~cq[q].q[k].is_nack
    BY <2>1 DEF ZeroWqEntry, ZeroCqEntry
  <2>3. IF q \in Clients THEN thread[q].pc \in {"idle", "reg_wq"} ELSE thread[q].pc = "poll"
    BY <2>1, Roles DEF Thread, Ready, Setup
  <2>4. ToServe(wq[q], wq_pos[q]) = {} /\ ToRead(cq[q], cq_pos[q]) = {}
    BY <2>2 DEF ToServe, ToRead, Stretch, Slots
  <2>5. \A k \in Slots : k \in Nat /\ Mark(k, 0, 1) = 0
    BY DEF Slots, Mark
  <2>6. InOrder(0, 1, 0, 1)
    BY DEF InOrder
  <2>7. WqMarks(wq[q], wq_pos[q], thread[q])
    <3>1. ~Late(thread[q])
      BY <2>3 DEF Late
    <3>2. QED
      BY <2>2, <2>4, <2>5, <2>6, <3>1 DEF WqMarks
  <2>8. CqMarks(cq[q], cq_pos[q])
    BY <2>2, <2>5, <2>6 DEF CqMarks
  <2>9. QED
    BY <2>2, <2>4, <2>7, <2>8, <2>3
<1>3. ASSUME NEW q \in QPs PROVE QueuePairOK(q)
  <2>1. EntriesOK(q)
    BY <1>2 DEF EntriesOK
  <2>2. ThreadOK(q)
    BY <1>2 DEF ThreadOK, Holds, Serving
  <2>3. QED
    BY <1>2, <2>1, <2>2 DEF QueuePairOK, RingsOK, CompletionsOK
<1>4. ASSUME NEW n \in Nodes, NEW s \in SrqSlots PROVE SlotOK(n, s) /\ ~Waits(srq[n], s)
  <2>1. srq[n] = srq_init
    BY <1>1
  <2>2. ~srq[n].q[s].valid
    BY <2>1 DEF srq_init, ZeroSrqEntry
  <2>3. s \in Nat
    BY Bounds DEF SrqSlots
  <2>4. ~Waits(srq[n], s)
    BY <2>1, <2>3 DEF srq_init, Waits
  <2>5. CqHolders(n, s) = {} /\ WqHolders(n, s) = {}
    BY <1>2 DEF CqHolders, WqHolders
  <2>6. ThreadHolders(n, s) = {}
    BY <1>2 DEF ThreadHolders, Holds
  <2>7. QED
    BY <2>2, <2>4, <2>5, <2>6 DEF SlotOK, Free
<1>5. ASSUME NEW c \in Clients PROVE CallOK(c)
  <2>1. Sent(c) = {}
    BY <1>2 DEF Sent
  <2>2. Flying(c) = {}
    <3>1. \A j, n \in Nodes : DOMAIN net[j][n] = {}
      BY <1>1
    <3>2. QED
      BY <3>1 DEF Flying, FlyingIn
  <2>3. Queued(c) = {}
    BY <1>4 DEF Queued
  <2>4. Given(c) = {}
    BY <1>2, Roles DEF Given
  <2>5. Served(c) = {}
    BY <1>2, Roles DEF Served, Serving
  <2>6. Answers(c) = {} /\ thread[c].pc # "poll"
    BY <1>2, Roles DEF Answers
  <2>7. QED
    BY <2>1, <2>2, <2>3, <2>4, <2>5, <2>6 DEF CallOK, Gone
<1>6. \A j, n \in Nodes : \A k \in 1 .. Len(net[j][n]) : PayloadOK(j, n, net[j][n][k])
  BY <1>1
<1>7. \A n \in Nodes : up[n]
  BY <1>1
<1>8. QED
  BY <1>3, <1>4, <1>5, <1>6, <1>7 DEF Calm

\* Nothing changes.
LEMMA StutterCalm == ASSUME Inv, Calm, UNCHANGED vars PROVE Calm'
<1>1. /\ wq' = wq /\ wq_pos' = wq_pos /\ cq' = cq /\ cq_pos' = cq_pos /\ srq' = srq
      /\ recv_slots' = recv_slots /\ net' = net /\ up' = up /\ thread' = thread
  BY DEF vars
<1>2. IdsKept /\ FreshSlotsKept
  BY <1>1 DEF IdsKept, FreshSlotsKept
<1>3. \A q \in QPs : QueuePairOK(q)'
  BY <1>1, <1>2, QueuePairAlone
<1>4. ASSUME NEW n \in Nodes, NEW s \in SrqSlots PROVE SlotOK(n, s)'
  <2>1. /\ CqHolders(n, s)' = CqHolders(n, s) /\ ThreadHolders(n, s)' = ThreadHolders(n, s)
        /\ WqHolders(n, s)' = WqHolders(n, s)
    BY <1>1 DEF CqHolders, ThreadHolders, WqHolders
  <2>2. QED
    BY <1>1, <1>2, <2>1, SlotAlone
<1>5. ASSUME NEW c \in Clients PROVE CallOK(c)'
  <2>1. /\ Sent(c)' = Sent(c) /\ Flying(c)' = Flying(c) /\ Queued(c)' = Queued(c)
        /\ Given(c)' = Given(c) /\ Served(c)' = Served(c) /\ Answers(c)' = Answers(c)
    BY <1>1 DEF Sent, Flying, Queued, Serves, Given, Served, Answers
  <2>2. QED
    BY <1>1, <2>1, CallStays
<1>6. ASSUME NEW j \in Nodes, NEW n \in Nodes, NEW k \in 1 .. Len(net'[j][n])
      PROVE  PayloadOK(j, n, net[j][n][k])'
  <2>1. PICK m : m = net'[j][n][k]
    OBVIOUS
  <2>2. k \in 1 .. Len(net[j][n]) /\ m = net[j][n][k]
    BY <1>1, <2>1
  <2>3. PayloadOK(j, n, m)'
    BY <1>2, <2>2, PayloadKept
  <2>4. QED
    BY <2>1, <2>3 DEF PayloadOK
<1>7. \A n \in Nodes : up'[n]
  BY <1>1 DEF Calm
<1>8. QED
  BY <1>3, <1>4, <1>5, <1>6, <1>7 DEF Calm

\* Without a mishap every step keeps the program calm, and the daemon writes no
\* completion over one that has not been polled.
LEMMA NextCalm ==
    ASSUME Inv, ~mishap => Calm, Deployment, Setup, [Next]_vars
    PROVE  (~mishap => Calm)'
<1> SUFFICES ASSUME ~mishap' PROVE Calm'
  OBVIOUS
<1>1. CASE UNCHANGED vars
  <2>1. ~mishap
    BY <1>1 DEF vars
  <2>2. QED
    BY <1>1, <2>1, StutterCalm
<1>2. ASSUME NEW q \in QPs, kal_reg_wq(q) \/ kal_reg_cq(q) PROVE Calm'
  <2>1. ~mishap
    BY <1>2 DEF kal_reg_wq, kal_reg_cq, daemonVars
  <2>2. QED
    BY <1>2, <2>1, RegisterCalm
<1>3. ASSUME NEW q \in Clients, rmc_send_request(q) PROVE Calm'
  <2>1. ~mishap
    BY <1>3 DEF rmc_send_request, daemonVars
  <2>2. QED
    BY <1>3, <2>1, PublishCalm, Roles
<1>4. ASSUME NEW q \in QPs, Run(q) PROVE Calm'
  <2>1. ~mishap
    BY <1>4 DEF Run, rmc_send_late, rmc_poll_cq_rpc, rmc_recv, rmc_recv_late, rmc_send_response,
                daemonVars
  <2>2. QED
    BY <1>4, <2>1, PublishCalm, LateCalm, PollCalm DEF Run
<1>5. ASSUME NEW n \in Nodes, Daemon(n) PROVE Calm'
  <2>1. CASE \E q \in QPs : q[1] = n /\ (RmcSend(q) \/ RmcRecv(q))
    <3>1. PICK q \in QPs : RmcSend(q) \/ RmcRecv(q)
      BY <2>1
    <3>2. ~mishap
      BY <3>1 DEF RmcSend, RmcRecv
    <3>3. QED
      BY <3>1, <3>2, RmcSendCalm, RmcRecvCalm
  <2>2. ASSUME NEW i \in Nodes \ {n}, RecvResponse(i, n) PROVE Calm'
    <3>1. ~mishap
      BY <2>2, Zenon DEF RecvResponse
    <3>2. QED
      BY <2>2, <3>1, RecvResponseCalm
  <2>3. ASSUME NEW i \in Nodes \ {n}, RecvRequest(i, n) PROVE Calm'
    <3>1. ~mishap
      BY <2>3 DEF RecvRequest
    <3>2. QED
      BY <2>3, <3>1, RecvRequestCalm
  <2>4. ASSUME NEW i \in Nodes \ {n}, RecvRequestFull(i, n) \/ RecvAck(i, n) \/ RecvNack(i, n) PROVE Calm'
    <3>1. ~mishap
      BY <2>4 DEF RecvRequestFull, RecvAck, RecvNack
    <3>2. QED
      BY <2>4, <3>1, RecvRequestFullCalm, RecvAckCalm, RecvNackCalm
  <2>5. ASSUME NEW i \in Nodes \ {n}, PeerClosed(i, n) PROVE Calm'
    <3>1. ~mishap /\ ~up[i]
      BY <2>5 DEF PeerClosed
    <3>2. QED
      BY <3>1 DEF Calm
  <2>6. QED
    BY <1>5, <2>1, <2>2, <2>3, <2>4, <2>5 DEF Daemon
<1>6. QED
  BY <1>2, <1>1, <1>3, <1>4, <1>5 DEF Next

\* Who holds an SRQ entry.
LEMMA HoldersCalm ==
    ASSUME NEW n, NEW s
    PROVE  /\ Free(CqHolders(n, s), ThreadHolders(n, s), WqHolders(n, s)) <=> Holders(n, s) = {}
           /\ Held(CqHolders(n, s), ThreadHolders(n, s), WqHolders(n, s)) =>
                 \E h : Holders(n, s) = {h}
<1> DEFINE a == CqHolders(n, s)
           b == ThreadHolders(n, s)
           d == WqHolders(n, s)
           ta == {<<"cq", y[1], y[2]>> : y \in a}
           tb == {<<"thread", q, 0>> : q \in b}
           td == {<<"wq", y[1], y[2]>> : y \in d}
           own == {q \in QPs : q[1] = n}
           oa == {x \in own \X Slots :
                     x[2] \in Unread(x[1]) /\ ~cq[x[1]].q[x[2]].is_nack /\ cq[x[1]].q[x[2]].slot_idx = s}
           ob == {x \in own : thread[x].pc \in {"recv", "recv_late"} /\ thread[x].slot = s}
           od == {x \in own \X Slots :
                     /\ x[2] \in Unserved(x[1])
                     /\ wq[x[1]].q[x[2]].op = "g" /\ wq[x[1]].q[x[2]].slot_idx = s}
<1>1. oa = a
  <2>1. \A x : x \in oa <=> x \in a
    BY DEF CqHolders, Unread, ToRead
  <2>2. QED
    BY <2>1
<1>2. ob = b
  BY DEF ThreadHolders, Holds
<1>3. od = d
  <2>1. \A x : x \in od <=> x \in d
    BY DEF WqHolders, Unserved, ToServe
  <2>2. QED
    BY <2>1
<1>4. Holders(n, s) = {<<"cq", y[1], y[2]>> : y \in oa} \union {<<"thread", q, 0>> : q \in ob}
                        \union {<<"wq", y[1], y[2]>> : y \in od}
  BY DEF Holders
<1> HIDE DEF a, b, d, oa, ob, od
<1>5. Holders(n, s) = ta \union tb \union td
  BY <1>1, <1>2, <1>3, <1>4
<1>6. /\ a = {} <=> ta = {}
      /\ b = {} <=> tb = {}
      /\ d = {} <=> td = {}
  OBVIOUS
<1>7. /\ \A x : a = {x} => ta = {<<"cq", x[1], x[2]>>}
      /\ \A x : b = {x} => tb = {<<"thread", x, 0>>}
      /\ \A x : d = {x} => td = {<<"wq", x[1], x[2]>>}
  OBVIOUS
<1> HIDE DEF ta, tb, td
<1>8. Free(a, b, d) <=> Holders(n, s) = {}
  BY <1>5, <1>6 DEF Free
<1>9. ASSUME Held(a, b, d) PROVE \E h : Holders(n, s) = {h}
  <2>1. CASE Single(a) /\ b = {} /\ d = {}
    <3>1. PICK x : a = {x}
      BY <2>1 DEF Single
    <3>2. Holders(n, s) = {<<"cq", x[1], x[2]>>}
      BY <1>5, <1>6, <1>7, <2>1, <3>1
    <3>3. QED
      BY <3>2
  <2>2. CASE a = {} /\ Single(b) /\ d = {}
    <3>1. PICK x : b = {x}
      BY <2>2 DEF Single
    <3>2. Holders(n, s) = {<<"thread", x, 0>>}
      BY <1>5, <1>6, <1>7, <2>2, <3>1
    <3>3. QED
      BY <3>2
  <2>3. CASE a = {} /\ b = {} /\ Single(d)
    <3>1. PICK x : d = {x}
      BY <2>3 DEF Single
    <3>2. Holders(n, s) = {<<"wq", x[1], x[2]>>}
      BY <1>5, <1>6, <1>7, <2>3, <3>1
    <3>3. QED
      BY <3>2
  <2>4. QED
    BY <1>9, <2>1, <2>2, <2>3 DEF Held
<1>10. QED
  BY <1>8, <1>9 DEF a, b, d

\* A calm program's SRQ entries.
LEMMA CalmSlot ==
    ASSUME Inv, Calm, NEW n \in Nodes, NEW s \in SrqSlots
    PROVE  /\ Holders(n, s) = {} \/ \E h : Holders(n, s) = {h}
           /\ Holders(n, s) # {} => srq[n].q[s].valid
           /\ srq[n].q[s].valid => s \in InQueue(srq[n])
           /\ (srq[n].q[s].valid /\ Holders(n, s) = {}) <=> (Serves(n) /\ Waits(srq[n], s))
           /\ srq[n].q[s].valid /\ Holders(n, s) = {} =>
                 \E c \in Clients : thread[c].pc = "poll" /\ recv_slots[n][s] = Live(c)
<1>1. SlotOK(n, s)
  BY DEF Calm
<1>2. /\ Free(CqHolders(n, s), ThreadHolders(n, s), WqHolders(n, s)) <=> Holders(n, s) = {}
      /\ Held(CqHolders(n, s), ThreadHolders(n, s), WqHolders(n, s)) => \E h : Holders(n, s) = {h}
  BY HoldersCalm
<1>3. Held(CqHolders(n, s), ThreadHolders(n, s), WqHolders(n, s)) =>
        ~Free(CqHolders(n, s), ThreadHolders(n, s), WqHolders(n, s))
  BY DEF Held, Free, Single
<1>4. /\ Holders(n, s) = {} \/ \E h : Holders(n, s) = {h}
      /\ Holders(n, s) # {} => srq[n].q[s].valid
      /\ srq[n].q[s].valid => s \in InQueue(srq[n])
      /\ (srq[n].q[s].valid /\ Holders(n, s) = {}) <=> (Serves(n) /\ Waits(srq[n], s))
  BY <1>1, <1>2, <1>3 DEF SlotOK
<1>5. ASSUME Serves(n), Waits(srq[n], s)
      PROVE  \E c \in Clients : thread[c].pc = "poll" /\ recv_slots[n][s] = Live(c)
  <2>1. PICK c : c = <<srq[n].q[s].sending_nid, srq[n].q[s].sending_qp>>
    OBVIOUS
  <2>2. srq[n].q[s].valid /\ recv_slots[n][s] = Live(c)
    BY <1>1, <1>5, <2>1 DEF SlotOK
  <2>3. c \in Clients
    BY <1>5, <2>1, <2>2 DEF Inv, RequestsOK, Serves
  <2>4. <<n, s>> \in Queued(c)
    BY <1>5, <2>2, Ownership DEF Queued
  <2>5. thread[c].pc = "poll"
    BY <2>3, <2>4 DEF Calm, CallOK, Gone
  <2>6. QED
    BY <2>2, <2>3, <2>5
<1>6. QED
  BY <1>4, <1>5

\* The traces of a call.
LEMMA TracesCalm ==
    ASSUME Inv, Calm, NEW c \in Clients, thread[c].pc = "poll"
    PROVE  Cardinality(Traces(c)) = 1
<1> DEFINE s == {<<"sent", y[1], y[2]>> : y \in Sent(c)}
           f == {<<"net", y[1], y[2], y[3]>> : y \in Flying(c)}
           w == {<<"srq", y[1], y[2]>> : y \in Queued(c)}
           g == {<<"cq", y[1], y[2]>> : y \in Given(c)}
           v == {<<"served", q>> : q \in Served(c)}
           a == {<<"answer", c, i>> : i \in Answers(c)}
           ts == {<<"sent", y[1], y[2]>> : y \in {x \in QPs \X Slots :
                     /\ x[2] \in Unserved(x[1]) /\ wq[x[1]].q[x[2]].op = "s"
                     /\ wq[x[1]].q[x[2]].buf.of = c}}
           tf == TracesInNet(c)
           tw == {<<"srq", y[1], y[2]>> : y \in {x \in Nodes \X SrqSlots :
                     x[2] \in Backlog(x[1]) /\ recv_slots[x[1]][x[2]].of = c}}
           tg == {<<"cq", y[1], y[2]>> : y \in {x \in Servers \X Slots :
                     x[2] \in Unread(x[1]) /\ recv_slots[x[1][1]][cq[x[1]].q[x[2]].slot_idx].of = c}}
           tv == {<<"served", q>> : q \in {x \in Servers :
                     thread[x].pc \in Serving /\ thread[x].arg.of = c}}
           ta == {<<"answer", c, i>> : i \in Unread(c)}
<1>1. Traces(c) = ts \union tf \union tw \union tg \union tv \union ta
  BY DEF Traces
<1>2. ts = s
  BY DEF Sent, Unserved, ToServe
<1>3. tf = f
  <2>1. ASSUME NEW x \in tf PROVE x \in f
    <3>1. PICK j, n, k :
             /\ j \in Nodes /\ n \in Nodes /\ k \in DOMAIN net[j][n]
             /\ x = <<"net", j, n, k>> /\ IsTrace(net[j][n][k], n, c)
      BY <2>1 DEF IsTrace, TracesInNet
    <3>2. k \in Nat
      <4>1. net[j][n] \in Seq(MessageType)
        BY <3>1 DEF Inv, Shape, NetType
      <4>2. QED
        BY <3>1, <4>1
    <3>3. <<j, n, k>> \in Flying(c)
      BY <3>1, <3>2 DEF Flying, FlyingIn
    <3>4. QED
      BY <3>1, <3>3
  <2>2. ASSUME NEW x \in f PROVE x \in tf
    <3>1. PICK y \in Flying(c) : x = <<"net", y[1], y[2], y[3]>>
      OBVIOUS
    <3>2. PICK j, n, k :
             /\ j \in Nodes /\ n \in Nodes /\ k \in DOMAIN net[j][n]
             /\ y = <<j, n, k>> /\ IsTrace(net[j][n][k], n, c)
      BY DEF Flying, FlyingIn
    <3>3. <<j, n>> \in Nodes \X Nodes /\ x = <<"net", j, n, k>>
      BY <3>1, <3>2
    <3>4. x \in {<<"net", j, n, i>> : i \in {h \in DOMAIN net[j][n] : IsTrace(net[j][n][h], n, c)}}
      BY <3>2, <3>3
    <3>5. QED
      BY <3>3, <3>4 DEF IsTrace, TracesInNet
  <2>3. QED
    BY <2>1, <2>2
<1>4. tw = w
  <2>1. ASSUME NEW n \in Nodes, NEW i \in SrqSlots
        PROVE  i \in Backlog(n) <=> Serves(n) /\ Waits(srq[n], i)
    <3>1. /\ srq[n].q[i].valid => i \in InQueue(srq[n])
          /\ (srq[n].q[i].valid /\ Holders(n, i) = {}) <=> (Serves(n) /\ Waits(srq[n], i))
      BY CalmSlot
    <3>2. QED
      BY <3>1 DEF Backlog, Serves
  <2>2. QED
    BY <2>1 DEF Queued
<1>5. tg = g
  BY DEF Given, Unread, ToRead
<1>6. tv = v
  BY DEF Served
<1>7. ta = a
  BY DEF Answers, Unread, ToRead
<1> HIDE DEF ts, tf, tw, tg, tv, ta
<1>8. Traces(c) = s \union f \union w \union g \union v \union a
  BY <1>1, <1>2, <1>3, <1>4, <1>5, <1>6, <1>7
<1>9. /\ Sent(c) = {} => s = {}
      /\ Flying(c) = {} => f = {}
      /\ Queued(c) = {} => w = {}
      /\ Given(c) = {} => g = {}
      /\ Served(c) = {} => v = {}
      /\ Answers(c) = {} => a = {}
  OBVIOUS
<1>10. /\ \A x : Sent(c) = {x} => s = {<<"sent", x[1], x[2]>>}
       /\ \A x : Flying(c) = {x} => f = {<<"net", x[1], x[2], x[3]>>}
       /\ \A x : Queued(c) = {x} => w = {<<"srq", x[1], x[2]>>}
       /\ \A x : Given(c) = {x} => g = {<<"cq", x[1], x[2]>>}
       /\ \A x : Served(c) = {x} => v = {<<"served", x>>}
       /\ \A x : Answers(c) = {x} => a = {<<"answer", c, x>>}
  OBVIOUS
<1> HIDE DEF s, f, w, g, v, a
<1>11. OnlyOne(Sent(c), Flying(c), Queued(c), Given(c), Served(c), Answers(c))
  BY DEF Calm, CallOK
<1>12. OnlyOne(s, f, w, g, v, a)
  <2>1. /\ Single(Sent(c)) => Single(s)
        /\ Single(Flying(c)) => Single(f)
        /\ Single(Queued(c)) => Single(w)
        /\ Single(Given(c)) => Single(g)
        /\ Single(Served(c)) => Single(v)
        /\ Single(Answers(c)) => Single(a)
    BY <1>10, Zenon DEF Single
  <2>2. QED
    BY <1>9, <1>11, <2>1 DEF OnlyOne
<1>13. PICK x : s \union f \union w \union g \union v \union a = {x}
  BY <1>12 DEF OnlyOne, Single
<1>14. Cardinality({x}) = 1
  BY FS_Singleton
<1>15. QED
  BY <1>8, <1>13, <1>14

\* Before a reply to a client is delivered its CQ is empty.
LEMMA ReplyRoom ==
    ASSUME Inv, Calm, NEW n \in Nodes, NEW i \in Nodes, net[i][n] # << >>,
           NEW m, m = Head(net[i][n]), m.type = "n" \/ (m.type = "s" /\ m.term),
           NEW p, p = <<n, m.qp>>
    PROVE  p \in Clients /\ ToRead(cq[p], cq_pos[p]) = {}
<1>1. PICK ch : ch = Taken(i, n)
  OBVIOUS
<1>2. PICK k \in 1 .. Len(net[i][n]) :
         TakenTraces(net, ch, i, n, m) /\ MessageOK(i, n, m) /\ m = net[i][n][k] /\ m \in MessageType
  BY <1>1, TakeEffect
<1>3. p \in Clients
  BY <1>2 DEF MessageOK
<1>4. PayloadOK(i, n, m)
  BY <1>2 DEF Calm
<1>5. IsTrace(m, n, p)
  <2>1. CASE m.type = "n"
    BY <2>1 DEF IsTrace
  <2>2. CASE m.type = "s" /\ m.term
    <3>1. m.payload = Response(Live(p))
      BY <1>4, <2>2 DEF PayloadOK
    <3>2. m.payload.of = p
      BY <3>1, Ownership, Zenon
    <3>3. QED
      BY <2>2, <3>2 DEF IsTrace
  <2>3. QED
    BY <2>1, <2>2
<1>6. Lost(p)
  BY <1>2, <1>3, <1>5, CallTakes
<1>7. QED
  BY <1>3, <1>6 DEF Lost, Answers

\* A completion moves one cursor.
LEMMA DeliveredOnce ==
    ASSUME Shape, NEW p, NEW e, DeliverTo(p, e), NEW q \in QPs, cq_pos'[q] # cq_pos[q]
    PROVE  q = p
<1>1. cq_pos \in [QPs -> CqPosType]
  BY DEF Shape
<1>2. PICK x : cq_pos' = [cq_pos EXCEPT ![p] = x]
  BY DEF DeliverTo
<1>3. QED
  BY <1>1, <1>2

\* The daemon writes a completion only where there is room.
LEMMA DeliveryRoom ==
    ASSUME Inv, Calm, Deployment, Setup, NEW n \in Nodes, NEW i \in Nodes,
           RecvResponse(i, n) \/ RecvRequest(i, n) \/ RecvNack(i, n),
           NEW q \in Clients, cq_pos'[q] # cq_pos[q]
    PROVE  cq_pos[q].head \notin ToRead(cq[q], cq_pos[q])
<1>1. Shape /\ q \in QPs /\ q \notin Servers
  BY Roles DEF Inv
<1>2. PICK m : m = Head(net[i][n])
  OBVIOUS
<1>3. PICK p : p = <<n, m.qp>>
  OBVIOUS
<1>4. ASSUME RecvResponse(i, n) \/ RecvNack(i, n) PROVE ToRead(cq[q], cq_pos[q]) = {}
  <2>1. /\ net[i][n] # << >> /\ (m.type = "n" \/ (m.type = "s" /\ m.term))
        /\ UNCHANGED cq_pos \/ \E e : DeliverTo(p, e)
    <3>1. CASE RecvResponse(i, n)
      BY <1>2, <1>3, <3>1, Zenon DEF RecvResponse, Arrives
    <3>2. CASE RecvNack(i, n)
      BY <1>2, <1>3, <3>2, Zenon DEF RecvNack, Arrives
    <3>3. QED
      BY <1>4, <3>1, <3>2
  <2>2. p \in Clients /\ ToRead(cq[p], cq_pos[p]) = {}
    BY <1>2, <1>3, <2>1, ReplyRoom
  <2>3. p = q
    BY <1>1, <2>1, DeliveredOnce
  <2>4. QED
    BY <2>2, <2>3
<1>5. ASSUME RecvRequest(i, n) PROVE FALSE
  <2>1. /\ net[i][n] # << >> /\ m.type = "s" /\ ~m.term
    BY <1>2, <1>5, Zenon DEF RecvRequest, Arrives
  <2>2. PICK ch : ch = Taken(i, n)
    OBVIOUS
  <2>3. /\ m \in MessageType /\ MessageOK(i, n, m) /\ PayloadOK(i, n, m)
    <3>1. MessageOK(i, n, m) /\ m \in MessageType /\ \E k \in 1 .. Len(net[i][n]) : m = net[i][n][k]
      BY <1>2, <2>1, <2>2, TakeEffect
    <3>2. QED
      BY <3>1 DEF Calm
  <2>4. Serves(n)
    <3>1. <<i, m.qp>> \in Clients /\ n = ServerNode[<<i, m.qp>>]
      BY <2>1, <2>3 DEF MessageOK, PayloadOK
    <3>2. QED
      BY <3>1, Zenon DEF Setup, Serves
  <2>5. q[1] # n
    BY <2>4 DEF Serves, Deployment
  <2>6. PICK p0 : p0 = <<n, get_avail_core(n)>>
    BY Zenon
  <2>7. UNCHANGED cq_pos \/ \E e : DeliverTo(p0, e)
    BY <1>5, <2>6, Zenon DEF RecvRequest
  <2>8. q = p0
    BY <1>1, <2>7, DeliveredOnce
  <2>9. QED
    BY <2>5, <2>6, <2>8
<1>6. QED
  BY <1>4, <1>5

\* What CompletionsKept says of a step: the daemon writes no completion over one
\* that has not been polled.
RoomForCompletions == \A q \in QPs : cq_pos'[q] # cq_pos[q] => cq_pos[q].head \notin Unread(q)

\* A server's CQ has room because of the threshold, a client's because it waits for
\* one answer and a call has one trace: the message that is now taken.
LEMMA NextRoom ==
    ASSUME Inv, ~mishap => Calm, Deployment, Setup, [Next]_vars, ~mishap'
    PROVE  RoomForCompletions
<1>1. \A q : Unread(q) = ToRead(cq[q], cq_pos[q])
  BY DEF Unread, ToRead
<1>2. ServersKept
  BY NextInv, Zenon
<1>3. ASSUME NEW q \in Clients, cq_pos'[q] # cq_pos[q] PROVE cq_pos[q].head \notin Unread(q)
  <2>1. (\/ UNCHANGED vars \/ (\E p \in QPs : kal_reg_wq(p) \/ kal_reg_cq(p))
         \/ (\E p \in Clients : rmc_send_request(p)) \/ (\E p \in QPs : Run(p)))
           => UNCHANGED cq_pos
    <3>1. ASSUME NEW p \in QPs, kal_reg_wq(p) \/ kal_reg_cq(p) PROVE UNCHANGED cq_pos
      BY <3>1 DEF kal_reg_wq, kal_reg_cq, daemonVars
    <3>2. UNCHANGED vars => UNCHANGED cq_pos
      BY DEF vars
    <3>3. ASSUME NEW p \in Clients, rmc_send_request(p) PROVE UNCHANGED cq_pos
      BY <3>3 DEF rmc_send_request, daemonVars
    <3>4. ASSUME NEW p \in QPs, Run(p) PROVE UNCHANGED cq_pos
      BY <3>4 DEF Run, rmc_send_late, rmc_poll_cq_rpc, rmc_recv, rmc_recv_late, rmc_send_response,
                  daemonVars
    <3>5. QED
      BY <3>1, <3>2, <3>3, <3>4
  <2>2. PICK n \in Nodes : Daemon(n)
    BY <1>3, <2>1 DEF Next
  <2>3. (\E p \in QPs : RmcSend(p) \/ RmcRecv(p)) => UNCHANGED cq_pos
    BY DEF RmcSend, RmcRecv
  <2>4. PICK i \in Nodes \ {n} :
           \/ RecvResponse(i, n) \/ RecvRequest(i, n) \/ RecvRequestFull(i, n)
           \/ RecvAck(i, n) \/ RecvNack(i, n) \/ PeerClosed(i, n)
    BY <1>3, <2>2, <2>3 DEF Daemon
  <2>5. RecvRequestFull(i, n) \/ RecvAck(i, n) \/ PeerClosed(i, n) => UNCHANGED cq_pos
    BY DEF RecvRequestFull, RecvAck, PeerClosed
  <2>6. RecvResponse(i, n) \/ RecvRequest(i, n) \/ RecvNack(i, n)
    BY <1>3, <2>4, <2>5
  <2>7. Calm
    <3>1. CASE RecvResponse(i, n)
      BY <3>1, Zenon DEF RecvResponse
    <3>2. CASE RecvRequest(i, n)
      BY <3>2, Zenon DEF RecvRequest
    <3>3. CASE RecvNack(i, n)
      BY <3>3, Zenon DEF RecvNack
    <3>4. QED
      BY <2>6, <3>1, <3>2, <3>3
  <2>8. QED
    BY <1>1, <1>3, <2>6, <2>7, DeliveryRoom
<1>4. ASSUME NEW q \in Servers, cq_pos'[q] # cq_pos[q] PROVE cq_pos[q].head \notin Unread(q)
  BY <1>1, <1>2, <1>4 DEF ServersKept
<1>5. QED
  BY <1>3, <1>4, Roles DEF RoomForCompletions

\* While there is no mishap a state that is calm has the three properties of the
\* runs: SRQ entries have one holder, calls one trace, and no daemon has aborted.
LEMMA CalmProperties ==
    ASSUME Inv, ~mishap => Calm
    PROVE  SrqExact /\ CallsAnswered /\ NoAbort
<1> SUFFICES ASSUME Calm, ~mishap PROVE SrqExact /\ CallsAnswered /\ NoAbort
  BY DEF SrqExact, CallsAnswered, NoAbort
<1>1. ASSUME NEW n \in Nodes, NEW s \in SrqSlots
      PROVE  /\ Cardinality(Holders(n, s)) <= 1
             /\ Holders(n, s) # {} => srq[n].q[s].valid
             /\ srq[n].q[s].valid => s \in InQueue(srq[n])
             /\ srq[n].q[s].valid /\ Holders(n, s) = {} =>
                   \E c \in Clients : /\ thread[c].pc = "poll"
                                      /\ recv_slots[n][s] = Request(c, thread[c].id)
  <2>1. /\ Holders(n, s) = {} \/ \E h : Holders(n, s) = {h}
        /\ Holders(n, s) # {} => srq[n].q[s].valid
        /\ srq[n].q[s].valid => s \in InQueue(srq[n])
        /\ srq[n].q[s].valid /\ Holders(n, s) = {} =>
              \E c \in Clients : thread[c].pc = "poll" /\ recv_slots[n][s] = Live(c)
    BY CalmSlot
  <2>2. PICK hs : hs = Holders(n, s)
    OBVIOUS
  <2>3. Cardinality(hs) <= 1
    <3>1. CASE hs = {}
      <4>1. Cardinality({}) = 0
        BY FS_EmptySet
      <4>2. QED
        BY <3>1, <4>1
    <3>2. CASE \E h : hs = {h}
      <4>1. PICK h : hs = {h}
        BY <3>2
      <4>2. Cardinality({h}) = 1
        BY FS_Singleton
      <4>3. QED
        BY <4>1, <4>2
    <3>3. QED
      BY <2>1, <2>2, <3>1, <3>2
  <2>4. QED
    BY <2>1, <2>2, <2>3 DEF Live
<1>2. SrqExact
  BY <1>1 DEF SrqExact
<1>3. ASSUME NEW c \in Clients
      PROVE  /\ thread[c].pc = "poll" => Cardinality(Traces(c)) = 1
             /\ thread[c].pc = "recv" => thread[c].arg = Response(Request(c, thread[c].id))
  <2>1. ThreadOK(c)
    BY Roles DEF Calm, QueuePairOK
  <2>2. QED
    BY <2>1, TracesCalm DEF ThreadOK, Holds, Live
<1>4. CallsAnswered
  BY <1>3 DEF CallsAnswered
<1>5. NoAbort
  BY DEF Calm, NoAbort
<1>6. QED
  BY <1>2, <1>4, <1>5

(***************************************************************************)
(* Theorems about the whole program, up to the first mishap.               *)
(***************************************************************************)

\* The SRQ and its users agree: an entry is valid exactly while one completion,
\* one thread or one rmc_recv that is not served yet refers to it, or while it
\* waits for a core with the request of a client that polls; entries in use are
\* between tail and head (enqueue_in_srq, get_dispatch_entry_from_srq and
\* reset_srq_entry_invalid, rmcd.cpp).  For any number of clients, servers and
\* entries, as long as no daemon meets a case it does not handle.
THEOREM SrqCorrect ==
    ASSUME Deployment, Setup
    PROVE  Spec => []SrqExact
<1>1. Init => Inv /\ (~mishap => Calm)
  BY InitInv, InitCalm
<1>2. Inv /\ (~mishap => Calm) /\ [Next]_vars => Inv' /\ (~mishap => Calm)'
  BY NextInv, NextCalm
<1>3. Inv /\ (~mishap => Calm) => SrqExact
  BY CalmProperties
<1>4. QED
  BY <1>1, <1>2, <1>3, PTL DEF Spec

\* A call is never lost, duplicated or answered with another one's data: from
\* rmc_send to the poll of the answer there is exactly one trace of it, be it an
\* entry of the client's WQ, a message, an SRQ entry, a completion of a core, the
\* core that serves it, its rmc_send, or the client's completion; and what the
\* client reads in the receive slot is the response to what it asked.  A NACK
\* (RecvRequestFull) takes the place of the request, and ends the call.
THEOREM CallsCorrect ==
    ASSUME Deployment, Setup
    PROVE  Spec => []CallsAnswered
<1>1. Init => Inv /\ (~mishap => Calm)
  BY InitInv, InitCalm
<1>2. Inv /\ (~mishap => Calm) /\ [Next]_vars => Inv' /\ (~mishap => Calm)'
  BY NextInv, NextCalm
<1>3. Inv /\ (~mishap => Calm) => CallsAnswered
  BY CalmProperties
<1>4. QED
  BY <1>1, <1>2, <1>3, PTL DEF Spec

\* Where the serving cores have registered and the daemons are no debugging builds
\* (Setup), no assertion fails as long as nobody meets a case that is not
\* handled: reset_srq_entry_invalid is given entries that are in use,
\* get_dispatch_entry_from_srq finds a request at dispatch_slot, the completion
\* queues that a response, a request and a NACK go to are connected
\* (assert(cq->connected), thrice), and no peer has died.  Setup cannot be
\* dropped: a core that has not registered, and the assertion on the occupancy in
\* a debugging build, take a daemon down; nor can the exception: a response that
\* finds the SRQ full and a NACK to a client that does not test for one are
\* cases that are not handled.
THEOREM AbortFree ==
    ASSUME Deployment, Setup
    PROVE  Spec => []NoAbort
<1>1. Init => Inv /\ (~mishap => Calm)
  BY InitInv, InitCalm
<1>2. Inv /\ (~mishap => Calm) /\ [Next]_vars => Inv' /\ (~mishap => Calm)'
  BY NextInv, NextCalm
<1>3. Inv /\ (~mishap => Calm) => NoAbort
  BY CalmProperties
<1>4. QED
  BY <1>1, <1>2, <1>3, PTL DEF Spec

\* The daemon does not look at the tail of a CQ before it writes: up to the first
\* mishap it has room all the same, at the cores by the threshold of
\* get_avail_core, at the callers by rmc_send's wait for the one answer.
THEOREM RoomKept ==
    ASSUME Deployment, Setup
    PROVE  Spec => [][~mishap' => RoomForCompletions]_vars
<1>1. Init => Inv /\ (~mishap => Calm)
  BY InitInv, InitCalm
<1>2. Inv /\ (~mishap => Calm) /\ [Next]_vars => Inv' /\ (~mishap => Calm)'
  BY NextInv, NextCalm
<1>3. Inv /\ (~mishap => Calm) /\ [Next]_vars => [~mishap' => RoomForCompletions]_vars
  BY NextRoom
<1>4. QED
  BY <1>1, <1>2, <1>3, PTL DEF Spec

\* The property the run checks, for the behaviours in which no daemon ever meets a
\* case it does not handle: no completion is written over before it is polled.
COROLLARY CompletionsCorrect ==
    ASSUME Deployment, Setup
    PROVE  Spec /\ []~mishap => CompletionsKept
<1>1. Spec => [][~mishap' => RoomForCompletions]_vars
  BY RoomKept
<1>2. ~mishap' /\ (~mishap' => RoomForCompletions) =>
         \A q \in QPs : cq_pos'[q] # cq_pos[q] => cq_pos[q].head \notin Unread(q)
  BY DEF RoomForCompletions
<1>3. QED
  BY <1>1, <1>2, PTL DEF CompletionsKept
=========================================================================

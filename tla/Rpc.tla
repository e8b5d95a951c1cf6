------------------------------- MODULE Rpc -------------------------------
(***************************************************************************)
(* Remote procedure calls over soNUMA queue pairs.  On every node one RMC  *)
(* daemon (rmcd.cpp, main) serves the work queues of the node's threads    *)
(* and the sockets to the other nodes; threads call rmc_send and rmc_recv  *)
(* (sonuma_daemon.cpp) and rmc_poll_cq_rpc (sonuma.h).  A request that     *)
(* arrives at a node takes an entry of its shared receive queue (SRQ) and  *)
(* is dispatched to a core that has room, a response takes an SRQ entry    *)
(* and goes straight to the queue pair that sent the request, and          *)
(* rmc_recv gives an entry back.  A request that finds the SRQ full is     *)
(* answered with a NACK.  A thread registers its queues (kal_reg_wq,       *)
(* kal_reg_cq) before it uses them, at any time after the daemon has       *)
(* started.                                                                *)
(*                                                                         *)
(* The daemon's loop serves one WQ entry or one message per step, from any *)
(* queue pair or socket that has one: the round-robin order of the loop is *)
(* not relied on.  Sockets are reliable FIFO channels while both daemons   *)
(* live.  A failed assertion aborts the daemon; those of a debugging build *)
(* do so where DEBUG_RMC is TRUE.  Message ids, lengths and debugging      *)
(* output are left out: nothing in the daemon depends on them.             *)
(***************************************************************************)
EXTENDS Integers, Sequences, FiniteSets

CONSTANTS
    node_cnt,              \* number of nodes
    Clients,               \* queue pairs <<node, qp>> of threads that call
    Servers,               \* queue pairs <<node, qp>> of threads that serve
    ServerNode,            \* [Clients -> node]: whom a client calls
    MAX_NUM_WQ,            \* entries of a WQ and of a CQ
    MAX_NUM_SRQ_SLOTS,     \* entries of a node's SRQ and receive slots
    REQ_THRESHOLD,         \* see get_avail_core
    CallIds,               \* a client numbers its calls modulo CallIds
    Registered,            \* queue pairs whose threads registered them at the start
    TestsNack,             \* do clients test is_nack when rmc_poll_cq_rpc returns?
    DEBUG_RMC,             \* is the daemon a debugging build?
    RaceWindow             \* may the daemon act between the stores of a call?

Nodes == 0 .. node_cnt - 1
QPs == Clients \union Servers
Slots == 0 .. MAX_NUM_WQ - 1
SrqSlots == 0 .. MAX_NUM_SRQ_SLOTS - 1

\* The queue pairs of node n are numbered from 0; so are its cores.
Cores(n) == {q[2] : q \in {p \in QPs : p[1] = n}}

ASSUME RpcAssumption ==
    /\ node_cnt \in Nat \ {0}
    /\ QPs \subseteq Nodes \X Nat
    /\ Clients \cap Servers = {}
    /\ ServerNode \in [Clients -> Nodes]
    /\ MAX_NUM_WQ \in 1 .. 255
    /\ MAX_NUM_SRQ_SLOTS \in 1 .. 2^16 - 1
    /\ REQ_THRESHOLD \in Nat
    /\ CallIds \in Nat \ {0}
    /\ Registered \subseteq QPs
    /\ TestsNack \in BOOLEAN /\ DEBUG_RMC \in BOOLEAN /\ RaceWindow \in BOOLEAN

\* Payloads: what a client asks, what a server answers, and a cleared slot.
Request(c, k) == [kind |-> "req", of |-> c, id |-> k]
Response(p) == [p EXCEPT !.kind = "ret"]
NoPayload == [kind |-> "none", of |-> <<0, 0>>, id |-> 0]

Payloads == [kind : {"req", "ret", "none"}, of : Clients \union {<<0, 0>>}, id : 0 .. CallIds - 1]

VARIABLES
    wq,            \* [QPs -> [q, head, SR]]: work queues, in shared memory
    wq_pos,        \* [QPs -> [tail, SR]]: the daemon's local_wq_tail, _SR
    cq,            \* [QPs -> [q, tail, SR]]: completion queues
    cq_pos,        \* [QPs -> [head, SR]]: the daemon's local_cq_head, _SR
    srq,           \* [Nodes -> rpc_srq]
    recv_slots,    \* [Nodes -> [SrqSlots -> payload]]
    rpcs_per_core, \* [QPs -> Int]
    net,           \* [Nodes -> [Nodes -> Seq(message)]]: net[from][to]
    up,            \* [Nodes -> BOOLEAN]: the daemon has not aborted
    thread,        \* [QPs -> the thread's place and local variables]
    mishap         \* ghost: a case that is not handled has been met: see RmcRecv,
                   \* RecvResponse and RecvNack

vars == <<wq, wq_pos, cq, cq_pos, srq, recv_slots, rpcs_per_core, net, up, thread, mishap>>

(***************************************************************************)
(* Rings.                                                                  *)
(***************************************************************************)
\* Mutant: the bound tested one too late.
AdvancePastEnd(i) == IF i + 1 > MAX_NUM_WQ THEN 0 ELSE i + 1

Advance(i) == IF i + 1 >= MAX_NUM_WQ THEN 0 ELSE i + 1
Phase(i, sr) == IF i + 1 >= MAX_NUM_WQ THEN 1 - sr ELSE sr

ZeroWqEntry ==
    [op |-> "none", SR |-> 0, valid |-> 0, nid |-> 0, buf |-> NoPayload,
     slot_idx |-> 0, qp_num_at_receiver |-> 0,
     send_qp_terminate |-> FALSE, dispatch_on_recv |-> FALSE]

ZeroCqEntry == [SR |-> 0, sending_nid |-> 0, sending_qp |-> 0, slot_idx |-> 0, is_nack |-> FALSE]

\* The daemon writes the CQ entry at its head: e, made from what the slot
\* held, then SR, and the local head moves.
CqSlot(q) == cq[q].q[cq_pos[q].head]

DeliverTo(q, e) ==
    LET h == cq_pos[q].head
    IN /\ cq' = [cq EXCEPT ![q].q[h] = [e EXCEPT !.SR = cq_pos[q].SR]]
       /\ cq_pos' = [cq_pos EXCEPT ![q] = [head |-> Advance(h), SR |-> Phase(h, cq_pos[q].SR)]]

(***************************************************************************)
(* The shared receive queue.                                               *)
(***************************************************************************)
ZeroSrqEntry == [valid |-> FALSE, sending_nid |-> 0, sending_qp |-> 0]

srq_init ==
    [q |-> [s \in SrqSlots |-> ZeroSrqEntry],
     head |-> 0, tail |-> 0, dispatch_slot |-> 0, full |-> FALSE]

srq_empty(s) == ~s.full /\ s.head = s.tail
srq_full(s) == s.full

Next1(i) == (i + 1) % MAX_NUM_SRQ_SLOTS

\* enqueue_in_srq of an entry, with advance_srq_head
enqueue_in_srq(s, e) ==
    [s EXCEPT !.q[s.head] = e,
              !.head = Next1(s.head),
              !.full = (Next1(s.head) = s.tail)]

\* Mutant: advance_srq_tail in its place: over one entry, in use or not.
TailOneStep(s) == IF s.tail = s.head THEN 0 ELSE 1

\* How far advance_srq_tail_multiple moves: over free entries, up to the head.
TailSteps(s) ==
    CHOOSE d \in 0 .. MAX_NUM_SRQ_SLOTS - 1 :
        LET at(k) == (s.tail + k) % MAX_NUM_SRQ_SLOTS
        IN /\ \A k \in 0 .. d - 1 : ~s.q[at(k)].valid /\ at(k) # s.head
           /\ s.q[at(d)].valid \/ at(d) = s.head

advance_srq_tail_multiple(s) ==
    [s EXCEPT !.tail = (s.tail + TailSteps(s)) % MAX_NUM_SRQ_SLOTS,
              !.full = FALSE]

\* reset_srq_entry_invalid, once its two assertions hold
reset_srq_entry_invalid(s, idx) ==
    advance_srq_tail_multiple([s EXCEPT !.q[idx].valid = FALSE])

\* The entries from the tail up to the head.
InQueue(s) ==
    {i \in SrqSlots : IF s.full THEN TRUE
                      ELSE IF s.tail <= s.head THEN s.tail <= i /\ i < s.head
                      ELSE s.tail <= i \/ i < s.head}

\* advance_srq_tail_multiple stops at once when the SRQ is full, for the tail is
\* then the head: other entries in use are left outside the queue.
LosesEntries(s, idx) == s.full /\ \E i \in SrqSlots \ {idx} : s.q[i].valid

\* Mutant: the next slot to dispatch is taken from the tail of the queue.
DispatchSlotFromTail(s) == [s EXCEPT !.dispatch_slot = s.tail]

advance_dispatch_slot(s) == [s EXCEPT !.dispatch_slot = Next1(s.dispatch_slot)]

\* Mutant: the threshold is not looked at.
AnyCore(n) == CHOOSE i \in Cores(n) : \A j \in Cores(n) : i <= j

\* get_avail_core: the first core at or below the threshold, -1 if none.
get_avail_core(n) ==
    LET free == {i \in Cores(n) : rpcs_per_core[<<n, i>>] <= REQ_THRESHOLD}
    IN IF free = {} THEN -1 ELSE CHOOSE i \in free : \A j \in free : i <= j

(***************************************************************************)
(* alloc_wq, alloc_cq, srq_init and main up to its loop.                   *)
(***************************************************************************)
Thread(pc) == [pc |-> pc, id |-> 0, nid |-> 0, qp |-> 0, slot |-> 0, arg |-> NoPayload]

\* What a thread does once its queues are registered.
Ready(q) == IF q \in Clients THEN "idle" ELSE "poll"

\* wq->connected and cq->connected: set by the registration, and never cleared.
WqConnected(q) == thread[q].pc # "reg_wq"
CqConnected(q) == thread[q].pc \notin {"reg_wq", "reg_cq"}

Init ==
    /\ wq = [q \in QPs |-> [q |-> [i \in Slots |-> ZeroWqEntry], head |-> 0, SR |-> 1]]
    /\ wq_pos = [q \in QPs |-> [tail |-> 0, SR |-> 1]]
    /\ cq = [q \in QPs |-> [q |-> [i \in Slots |-> ZeroCqEntry], tail |-> 0, SR |-> 1]]
    /\ cq_pos = [q \in QPs |-> [head |-> 0, SR |-> 1]]
    /\ srq = [n \in Nodes |-> srq_init]
    /\ recv_slots = [n \in Nodes |-> [s \in SrqSlots |-> NoPayload]]
    /\ rpcs_per_core = [q \in QPs |-> 0]
    /\ net = [m \in Nodes |-> [n \in Nodes |-> << >>]]
    /\ up = [n \in Nodes |-> TRUE]
    /\ thread = [q \in QPs |-> Thread(IF q \in Registered THEN Ready(q) ELSE "reg_wq")]
    /\ mishap = FALSE

daemonVars == <<wq_pos, cq_pos, srq, recv_slots, rpcs_per_core, net, up, mishap>>

(***************************************************************************)
(* The library, called by thread q.  rmc_send and rmc_recv store the       *)
(* entry's SR, which the daemon polls, before its last two fields.         *)
(***************************************************************************)
WqSlot(q) == wq[q].q[wq[q].head]

HeadFree(q) == WqSlot(q).valid = 0

\* The stores up to SR ...
Publish(q, e) ==
    wq' = [wq EXCEPT ![q].q[wq[q].head] = [e EXCEPT !.valid = 1, !.SR = wq[q].SR]]

\* ... and the later ones, after which the head moves.
Finish(q, e) ==
    wq' = [wq EXCEPT ![q] = [q |-> [@.q EXCEPT ![wq[q].head] = e],
                             head |-> Advance(@.head),
                             SR |-> Phase(@.head, @.SR)]]

Goto(q, pc) == thread' = [thread EXCEPT ![q].pc = pc]

\* A thread attaches to the queues that the daemon has allocated for it.
kal_reg_wq(q) ==
    /\ thread[q].pc = "reg_wq"
    /\ Goto(q, "reg_cq")
    /\ UNCHANGED <<wq, cq, daemonVars>>

kal_reg_cq(q) ==
    /\ thread[q].pc = "reg_cq"
    /\ Goto(q, Ready(q))
    /\ UNCHANGED <<wq, cq, daemonVars>>

\* A client begins a call: rmc_send(..., FALSE).  Its buffer holds the request.
rmc_send_request(q) ==
    /\ thread[q].pc = "idle"
    /\ HeadFree(q)
    /\ Publish(q, [WqSlot(q) EXCEPT !.op = "s", !.nid = ServerNode[q],
                                    !.buf = Request(q, thread[q].id)])
    /\ Goto(q, "send_late")
    /\ UNCHANGED <<cq, daemonVars>>

\* A server answers: rmc_send(..., sending_qp, TRUE).
rmc_send_response(q) ==
    /\ thread[q].pc = "send"
    /\ HeadFree(q)
    /\ Publish(q, [WqSlot(q) EXCEPT !.op = "s", !.nid = thread[q].nid,
                                    !.buf = Response(thread[q].arg)])
    /\ Goto(q, "send_late")
    /\ UNCHANGED <<cq, daemonVars>>

rmc_send_late(q) ==
    /\ thread[q].pc = "send_late"
    /\ Finish(q, [WqSlot(q) EXCEPT
                     !.qp_num_at_receiver = IF q \in Servers THEN thread[q].qp ELSE q[2],
                     !.send_qp_terminate = (q \in Servers)])
    /\ thread' = [thread EXCEPT ![q] = [Thread("poll") EXCEPT !.id = thread[q].id]]
    /\ UNCHANGED <<cq, daemonVars>>

\* Both give the receive slot back: rmc_recv(wq, nid, qp, slot, dispatch).
rmc_recv(q) ==
    /\ thread[q].pc = "recv"
    /\ HeadFree(q)
    /\ Publish(q, [WqSlot(q) EXCEPT !.op = "g", !.nid = thread[q].nid])
    /\ Goto(q, "recv_late")
    /\ UNCHANGED <<cq, daemonVars>>

\* What a thread read from its completion is dead when the call is over.
NextCall(t) == [Thread("idle") EXCEPT !.id = (t.id + 1) % CallIds]

rmc_recv_late(q) ==
    /\ thread[q].pc = "recv_late"
    /\ Finish(q, [WqSlot(q) EXCEPT !.slot_idx = thread[q].slot,
                                   !.dispatch_on_recv = (q \in Servers)])
    /\ thread' = [thread EXCEPT ![q] = IF q \in Servers THEN [@ EXCEPT !.pc = "send"]
                                                        ELSE NextCall(@)]
    /\ UNCHANGED <<cq, daemonVars>>

CompletionVisible(q) == cq[q].q[cq[q].tail].SR = cq[q].SR

\* The callback copies the argument out of the receive slot the entry names.  A
\* client that tests for a NACK gives up the call, as there is no slot to give
\* back; one that does not goes on to rmc_recv.
rmc_poll_cq_rpc(q) ==
    LET e == cq[q].q[cq[q].tail]
    IN /\ thread[q].pc = "poll"
       /\ CompletionVisible(q)
       /\ thread' = [thread EXCEPT ![q] =
              IF TestsNack /\ q \in Clients /\ e.is_nack
              THEN NextCall(@)
              ELSE [@ EXCEPT !.pc = "recv", !.nid = e.sending_nid, !.qp = e.sending_qp,
                             !.slot = e.slot_idx, !.arg = recv_slots[q[1]][e.slot_idx]]]
       /\ cq' = [cq EXCEPT ![q].tail = Advance(@), ![q].SR = Phase(cq[q].tail, @)]
       /\ UNCHANGED <<wq, daemonVars>>

(***************************************************************************)
(* The daemon of node n serves queue pair q = <<n, i>>.                    *)
(***************************************************************************)
Current(q) == wq[q].q[wq_pos[q].tail]

\* The thread is between its store of SR and its last stores.
InWindow(q) ==
    thread[q].pc \in {"send_late", "recv_late"} /\ wq[q].head = wq_pos[q].tail

EntryReady(q) ==
    /\ up[q[1]]
    /\ WqConnected(q)
    /\ Current(q).SR = wq_pos[q].SR
    /\ RaceWindow \/ ~InWindow(q)

\* Mutant: the entry is left valid.
EntryDoneStillValid(q) ==
    /\ wq_pos' = [wq_pos EXCEPT ![q] = [tail |-> Advance(@.tail), SR |-> Phase(@.tail, @.SR)]]
    /\ UNCHANGED wq

\* The daemon's tail moves and the entry is marked as processed.
EntryDone(q) ==
    /\ wq' = [wq EXCEPT ![q].q[wq_pos[q].tail].valid = 0]
    /\ wq_pos' = [wq_pos EXCEPT ![q] = [tail |-> Advance(@.tail), SR |-> Phase(@.tail, @.SR)]]

\* sendall: what is sent to a daemon that has died is lost.
SendTo(chan, m, n, msg) ==
    IF up[n] THEN [chan EXCEPT ![m][n] = Append(@, msg)] ELSE chan

Message(type, term, qp, payload) ==
    [type |-> type, term |-> term, qp |-> qp, payload |-> payload]

\* Mutant: every message is stamped with the queue pair that sends it.
StampSender(q, e) == q[2]

\* qp_num_conditional: a request is stamped with the queue pair that sends it, a
\* response with the one it is for.
QpStamp(q, e) == IF e.send_qp_terminate THEN e.qp_num_at_receiver ELSE q[2]

\* case 's'.  The daemon reads the thread's buffer now; a thread keeps a part of
\* its buffer for each entry of its WQ, so it still holds what was sent.
RmcSend(q) ==
    LET curr == Current(q)
    IN /\ EntryReady(q)
       /\ curr.op = "s"
       /\ net' = SendTo(net, q[1], curr.nid, Message("s", curr.send_qp_terminate, QpStamp(q, curr), curr.buf))
       /\ EntryDone(q)
       /\ UNCHANGED <<cq, cq_pos, srq, recv_slots, rpcs_per_core, up, thread, mishap>>

\* Mutant: the core stays charged.
DecrementForgotten(q, dispatch) == UNCHANGED rpcs_per_core

decrement_core_occupancy(q, dispatch) ==
    rpcs_per_core' = [rpcs_per_core EXCEPT ![q] = IF dispatch THEN @ - 1 ELSE @]

\* case 'g': the peer is told, the core's occupancy and the SRQ entry are
\* given back.  The assertions on the occupancy, in reset_srq_entry_invalid and
\* on its result abort.
RmcRecv(q) ==
    LET curr == Current(q)
        n == q[1]
        sane == /\ DEBUG_RMC /\ curr.dispatch_on_recv => rpcs_per_core[q] - 1 >= 0
                /\ ~srq_empty(srq[n]) /\ srq[n].q[curr.slot_idx].valid
    IN /\ EntryReady(q)
       /\ curr.op = "g"
       /\ net' = SendTo(net, n, curr.nid, Message("g", FALSE, q[2], NoPayload))
       /\ decrement_core_occupancy(q, curr.dispatch_on_recv)
       /\ mishap' = (mishap \/ LosesEntries(srq[n], curr.slot_idx))
       /\ \/ /\ sane
             /\ srq' = [srq EXCEPT ![n] = reset_srq_entry_invalid(@, curr.slot_idx)]
             /\ EntryDone(q)
             /\ UNCHANGED up
          \/ /\ ~sane
             /\ up' = [up EXCEPT ![n] = FALSE]
             /\ UNCHANGED <<srq, wq, wq_pos>>
       /\ UNCHANGED <<cq, cq_pos, recv_slots, thread>>

(***************************************************************************)
(* The daemon of node n takes a message from its socket to node i.         *)
(***************************************************************************)
Arrives(i, n, type) == up[n] /\ net[i][n] # << >> /\ Head(net[i][n]).type = type

Taken(i, n) == [net EXCEPT ![i][n] = Tail(@)]

Abort(n) == up' = [up EXCEPT ![n] = FALSE]
Asserted(n, p) == IF p THEN UNCHANGED up ELSE Abort(n)

\* The message takes an SRQ entry, its payload the receive slot of that entry.
StoreInSlot(n, payload) ==
    recv_slots' = [recv_slots EXCEPT ![n][srq[n].head] = payload]

\* case 's' with terminate_to_senders_qp: a response, to the queue pair named.
\* Without a free entry, or when that is no connected queue pair, the daemon dies.
RecvResponse(i, n) ==
    LET msg == Head(net[i][n])
        q == <<n, msg.qp>>
        slot == srq[n].head
        found == q \in QPs /\ CqConnected(q)
    IN /\ Arrives(i, n, "s") /\ msg.term
       /\ net' = Taken(i, n)
       /\ mishap' = (mishap \/ srq_full(srq[n]) \/ (q \in QPs /\ CqSlot(q).is_nack))
       /\ \/ /\ ~srq_full(srq[n])
             /\ srq' = [srq EXCEPT ![n] =
                           enqueue_in_srq(@, [valid |-> TRUE, sending_nid |-> i, sending_qp |-> -1])]
             /\ StoreInSlot(n, msg.payload)
             /\ IF found
                  THEN DeliverTo(q, [CqSlot(q) EXCEPT !.sending_nid = i, !.slot_idx = slot])
                  ELSE UNCHANGED <<cq, cq_pos>>
             /\ Asserted(n, found)
          \/ /\ srq_full(srq[n])
             /\ Abort(n)
             /\ UNCHANGED <<srq, recv_slots, cq, cq_pos>>
       /\ UNCHANGED <<wq, wq_pos, rpcs_per_core, thread>>

\* case 's': a request.  It is queued, and the entry at dispatch_slot, not
\* necessarily this one, goes to a core with room if there is one.  A core whose
\* thread has not registered its CQ has room too; it takes the daemon down.
RecvRequest(i, n) ==
    LET msg == Head(net[i][n])
        queued == enqueue_in_srq(srq[n], [valid |-> TRUE, sending_nid |-> i, sending_qp |-> msg.qp])
        d == queued.dispatch_slot
        core == get_avail_core(n)
        q == <<n, core>>
    IN /\ Arrives(i, n, "s") /\ ~msg.term
       /\ ~srq_full(srq[n])
       /\ net' = Taken(i, n)
       /\ StoreInSlot(n, msg.payload)
       /\ \/ /\ core = -1
             /\ srq' = [srq EXCEPT ![n] = queued]
             /\ UNCHANGED <<cq, cq_pos, rpcs_per_core, up>>
          \/ /\ core # -1 /\ queued.q[d].valid /\ CqConnected(q)
             /\ srq' = [srq EXCEPT ![n] = advance_dispatch_slot(queued)]
             /\ DeliverTo(q, [CqSlot(q) EXCEPT !.sending_nid = queued.q[d].sending_nid,
                                               !.sending_qp = queued.q[d].sending_qp,
                                               !.slot_idx = d])
             /\ rpcs_per_core' = [rpcs_per_core EXCEPT ![q] = @ + 1]
             /\ Asserted(n, DEBUG_RMC => rpcs_per_core[q] + 1 <= REQ_THRESHOLD)
          \/ /\ core # -1 /\ queued.q[d].valid /\ ~CqConnected(q)
             /\ srq' = [srq EXCEPT ![n] = advance_dispatch_slot(queued)]
             /\ Abort(n)
             /\ UNCHANGED <<cq, cq_pos, rpcs_per_core>>
          \/ /\ core # -1 /\ ~queued.q[d].valid
             /\ srq' = [srq EXCEPT ![n] = queued]
             /\ Abort(n)
             /\ UNCHANGED <<cq, cq_pos, rpcs_per_core>>
       /\ UNCHANGED <<wq, wq_pos, thread, mishap>>

\* Mutant: a request that finds no entry is dropped.
DropRequest(i, n) ==
    LET msg == Head(net[i][n])
    IN /\ Arrives(i, n, "s") /\ ~msg.term
       /\ srq_full(srq[n])
       /\ net' = Taken(i, n)
       /\ UNCHANGED <<wq, wq_pos, cq, cq_pos, srq, recv_slots, rpcs_per_core, up, thread, mishap>>

\* case 's': a request that finds no entry is answered with a NACK.
RecvRequestFull(i, n) ==
    LET msg == Head(net[i][n])
    IN /\ Arrives(i, n, "s") /\ ~msg.term
       /\ srq_full(srq[n])
       /\ net' = SendTo(Taken(i, n), n, i, Message("n", FALSE, msg.qp, NoPayload))
       /\ UNCHANGED <<wq, wq_pos, cq, cq_pos, srq, recv_slots, rpcs_per_core, up, thread, mishap>>

\* case 'g': nothing to do.
RecvAck(i, n) ==
    /\ Arrives(i, n, "g")
    /\ net' = Taken(i, n)
    /\ UNCHANGED <<wq, wq_pos, cq, cq_pos, srq, recv_slots, rpcs_per_core, up, thread, mishap>>

\* Mutant: the entry is not marked.
NackUnmarked(i, n) ==
    LET q == <<n, Head(net[i][n]).qp>>
    IN /\ Arrives(i, n, "n")
       /\ net' = Taken(i, n)
       /\ DeliverTo(q, [CqSlot(q) EXCEPT !.sending_nid = i])
       /\ UNCHANGED <<wq, wq_pos, srq, recv_slots, rpcs_per_core, up, thread, mishap>>

\* case 'n': the queue pair that sent the request is told.  A client that does not
\* test for a NACK takes it for an answer.
RecvNack(i, n) ==
    LET q == <<n, Head(net[i][n]).qp>>
    IN /\ Arrives(i, n, "n")
       /\ net' = Taken(i, n)
       /\ mishap' = (mishap \/ ~TestsNack)
       /\ IF CqConnected(q)
            THEN DeliverTo(q, [CqSlot(q) EXCEPT !.sending_nid = i, !.is_nack = TRUE])
            ELSE UNCHANGED <<cq, cq_pos>>
       /\ Asserted(n, CqConnected(q))
       /\ UNCHANGED <<wq, wq_pos, srq, recv_slots, rpcs_per_core, thread>>

\* recv returns 0 once the peer has died: the assertion on the header aborts.
PeerClosed(i, n) ==
    /\ up[n] /\ ~up[i]
    /\ net[i][n] = << >>
    /\ Abort(n)
    /\ UNCHANGED <<wq, wq_pos, cq, cq_pos, srq, recv_slots, rpcs_per_core, net, thread, mishap>>

Daemon(n) ==
    \/ \E q \in QPs : q[1] = n /\ (RmcSend(q) \/ RmcRecv(q))
    \/ \E i \in Nodes \ {n} :
          \/ RecvResponse(i, n) \/ RecvRequest(i, n) \/ RecvRequestFull(i, n)
          \/ RecvAck(i, n) \/ RecvNack(i, n) \/ PeerClosed(i, n)

\* A thread inside a call, or serving.
Run(q) ==
    \/ rmc_send_late(q) \/ rmc_poll_cq_rpc(q)
    \/ rmc_recv(q) \/ rmc_recv_late(q)
    \/ rmc_send_response(q)

Next ==
    \/ \E q \in QPs : kal_reg_wq(q) \/ kal_reg_cq(q)
    \/ \E q \in Clients : rmc_send_request(q)
    \/ \E q \in QPs : Run(q)
    \/ \E n \in Nodes : Daemon(n)

\* The loop of the daemon serves every queue pair and every socket in turn;
\* threads run; a client need not call, nor a thread register its queues.
Fairness ==
    /\ \A q \in QPs : WF_vars(Run(q)) /\ WF_vars(RmcSend(q) \/ RmcRecv(q))
    /\ \A n \in Nodes : \A i \in Nodes \ {n} :
          WF_vars(RecvResponse(i, n) \/ RecvRequest(i, n) \/ RecvRequestFull(i, n)
                  \/ RecvAck(i, n) \/ RecvNack(i, n) \/ PeerClosed(i, n))

Spec == Init /\ [][Next]_vars /\ Fairness

-----------------------------------------------------------------------------
(***************************************************************************)
(* Properties.                                                             *)
(***************************************************************************)
MessageType == [type : {"s", "g", "n"}, term : BOOLEAN, qp : Int, payload : Payloads]

\* The structures of RMCdefines.h and the daemon's arrays keep their types.
TypeOK ==
    /\ \A q \in QPs :
          /\ wq[q].head \in Slots /\ wq[q].SR \in {0, 1}
          /\ \A i \in Slots : /\ wq[q].q[i].slot_idx \in SrqSlots
                             /\ wq[q].q[i].buf \in Payloads
          /\ wq_pos[q].tail \in Slots /\ wq_pos[q].SR \in {0, 1}
          /\ cq[q].tail \in Slots /\ cq[q].SR \in {0, 1}
          /\ \A i \in Slots : cq[q].q[i].slot_idx \in SrqSlots
          /\ cq_pos[q].head \in Slots /\ cq_pos[q].SR \in {0, 1}
          /\ rpcs_per_core[q] \in Int
          /\ thread[q].pc \in {"reg_wq", "reg_cq", "idle", "send_late", "poll", "recv", "recv_late",
                               "send"}
          /\ thread[q].arg \in Payloads
    /\ \A n \in Nodes :
          /\ srq[n].head \in SrqSlots /\ srq[n].tail \in SrqSlots
          /\ srq[n].dispatch_slot \in SrqSlots /\ srq[n].full \in BOOLEAN
          /\ recv_slots[n] \in [SrqSlots -> Payloads]
          /\ \A m \in Nodes : net[m][n] \in Seq(MessageType)
    /\ up \in [Nodes -> BOOLEAN] /\ mishap \in BOOLEAN

\* The slots from cursor <<i, s>> up to cursor <<j, t>>.
Stretch(i, s, j, t) == {k \in Slots : IF s = t THEN i <= k /\ k < j ELSE i <= k \/ k < j}

\* CQ entries the thread has not polled, WQ entries the daemon has not served.
Unread(q) == Stretch(cq[q].tail, cq[q].SR, cq_pos[q].head, cq_pos[q].SR)
Unserved(q) == Stretch(wq_pos[q].tail, wq_pos[q].SR, wq[q].head, wq[q].SR)

\* Who holds SRQ slot s of node n: an unread completion, the thread that polled
\* it, an rmc_recv the daemon has not served.
Holders(n, s) ==
    LET own == {q \in QPs : q[1] = n}
    IN {<<"cq", y[1], y[2]>> : y \in {x \in own \X Slots :
            x[2] \in Unread(x[1]) /\ ~cq[x[1]].q[x[2]].is_nack /\ cq[x[1]].q[x[2]].slot_idx = s}}
       \union
       {<<"thread", q, 0>> : q \in {x \in own :
            thread[x].pc \in {"recv", "recv_late"} /\ thread[x].slot = s}}
       \union
       {<<"wq", y[1], y[2]>> : y \in {x \in own \X Slots :
            /\ x[2] \in Unserved(x[1])
            /\ wq[x[1]].q[x[2]].op = "g" /\ wq[x[1]].q[x[2]].slot_idx = s}}

\* Requests that wait for a core.
Backlog(n) ==
    IF \E q \in Servers : q[1] = n
    THEN {s \in InQueue(srq[n]) :
             /\ srq[n].q[s].valid
             /\ Holders(n, s) = {}}
    ELSE {}

\* The SRQ and its users agree: an entry is in use exactly while one completion,
\* thread or rmc_recv refers to it, or while it waits for a core; entries in
\* use are in the queue.
SrqExact ==
    ~mishap =>
        \A n \in Nodes : \A s \in SrqSlots :
            /\ Cardinality(Holders(n, s)) <= 1
            /\ Holders(n, s) # {} => srq[n].q[s].valid
            /\ srq[n].q[s].valid => s \in InQueue(srq[n])
            /\ srq[n].q[s].valid /\ Holders(n, s) = {} =>
                  \E c \in Clients : /\ thread[c].pc = "poll"
                                     /\ recv_slots[n][s] = Request(c, thread[c].id)

\* rpcs_per_core counts the requests a core has been given and has not released,
\* whatever happens to the SRQ.
OccupancyExact ==
    \A q \in Servers :
        up[q[1]] =>
            rpcs_per_core[q] =
                Cardinality(Unread(q))
                + (IF thread[q].pc \in {"recv", "recv_late"} THEN 1 ELSE 0)
                + Cardinality({i \in Unserved(q) : wq[q].q[i].op = "g"})

\* A call is answered with the result of that very call, exactly one trace of
\* which is in the system while the client waits: an entry, a message, a
\* request in the SRQ, a thread that serves it, or its completion.
Serving == {"recv", "recv_late", "send", "send_late"}

TracesInNet(c) ==
    UNION {{<<"net", y[1], y[2], i>> : i \in {k \in DOMAIN net[y[1]][y[2]] :
                LET msg == net[y[1]][y[2]][k]
                IN \/ msg.type = "s" /\ msg.payload.of = c
                   \/ msg.type = "n" /\ c = <<y[2], msg.qp>>}} :
           y \in Nodes \X Nodes}

Traces(c) ==
    {<<"sent", y[1], y[2]>> : y \in {x \in QPs \X Slots :
        /\ x[2] \in Unserved(x[1]) /\ wq[x[1]].q[x[2]].op = "s"
        /\ wq[x[1]].q[x[2]].buf.of = c}}
    \union
    TracesInNet(c)
    \union
    {<<"srq", y[1], y[2]>> : y \in {x \in Nodes \X SrqSlots :
        x[2] \in Backlog(x[1]) /\ recv_slots[x[1]][x[2]].of = c}}
    \union
    {<<"cq", y[1], y[2]>> : y \in {x \in Servers \X Slots :
        x[2] \in Unread(x[1]) /\ recv_slots[x[1][1]][cq[x[1]].q[x[2]].slot_idx].of = c}}
    \union
    {<<"served", q>> : q \in {x \in Servers :
        thread[x].pc \in Serving /\ thread[x].arg.of = c}}
    \union
    {<<"answer", c, i>> : i \in Unread(c)}

CallsAnswered ==
    ~mishap =>
        \A c \in Clients :
            /\ thread[c].pc = "poll" => Cardinality(Traces(c)) = 1
            /\ thread[c].pc = "recv" => thread[c].arg = Response(Request(c, thread[c].id))

\* No daemon aborts (rmcd.cpp): reset_srq_entry_invalid finds its entry in use
\* (lines 226, 913), get_dispatch_entry_from_srq a request (215, 1140), a response
\* finds room (1094), a completion a connected CQ (1068, 1144, 1218), and no peer
\* has gone (1008); of a debugging build also the occupancies are within their
\* bounds (112, 120).
NoAbort == ~mishap => \A n \in Nodes : up[n]

\* The daemon, which does not look at the CQ's tail, never writes over a
\* completion that has not been polled.
CompletionsKept ==
    [][\A q \in QPs : cq_pos'[q] # cq_pos[q] => cq_pos[q].head \notin Unread(q)]_vars

\* A request that has been given to a core is answered.
InService(c) ==
    \E q \in Servers :
        \/ thread[q].pc \in Serving /\ thread[q].arg = Request(c, thread[c].id)
        \/ \E i \in Unread(q) : recv_slots[q[1]][cq[q].q[i].slot_idx] = Request(c, thread[c].id)

DispatchedCallsReturn ==
    \A c \in Clients :
        (thread[c].pc = "poll" /\ InService(c)) ~> (thread[c].pc = "recv" \/ mishap)

\* "assert( reset_srq_entry_invalid(&rpc_srq, curr->slot_idx) )" (rmcd.cpp:913)
\* and the other assertions of the daemon: none ever fails.
AssertionsHold == \A n \in Nodes : up[n]

\* "signal RMC to reuse this slot" (rmc_recv, sonuma_daemon.cpp:206): the slot the
\* daemon reuses is one whose holder has called rmc_recv for it, not one whose
\* completion is still to be polled.
GivenBackByHolder ==
    [][\A n \in Nodes : \A s \in SrqSlots :
          srq[n].q[s].valid /\ ~srq'[n].q[s].valid =>
              \E h \in Holders(n, s) : h[1] # "cq"]_vars

\* "wait for entry to arrive in cq" (rmc_poll_cq_rpc, sonuma.h:373): a client that
\* waits for its answer gets an entry.  (A request that found every core busy
\* is looked at again only when another request arrives.)
EntryArrives ==
    \A c \in Clients : (thread[c].pc = "poll") ~> (CompletionVisible(c) \/ mishap)
=========================================================================

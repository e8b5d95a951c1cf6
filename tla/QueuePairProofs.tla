-------------------------- MODULE QueuePairProofs --------------------------
(***************************************************************************)
(* Proofs about QueuePair, for every ring size, address space and set of   *)
(* requests.  The inductive invariant is TypeOK /\ RingInv.                *)
(***************************************************************************)
EXTENDS QueuePair, TLAPS

(***************************************************************************)
(* Arithmetic of ring cursors.                                             *)
(***************************************************************************)
Bits == {0, 1}

\* Advancing a cursor keeps it a cursor.
LEMMA AdvanceType ==
    ASSUME NEW i \in Slots, NEW s \in Bits
    PROVE  Advance(i) \in Slots /\ Phase(i, s) \in Bits
BY RingAssumption DEF Slots, Bits, Advance, Phase

\* Moving the front cursor of a stretch that is not full lengthens it by one.
LEMMA DistanceGrows ==
    ASSUME NEW i \in Slots, NEW s \in Bits, NEW j \in Slots, NEW t \in Bits,
           Distance(i, s, j, t) < MAX_NUM_WQ
    PROVE  Distance(i, s, Advance(j), Phase(j, t)) = Distance(i, s, j, t) + 1
BY RingAssumption DEF Slots, Bits, Advance, Phase, Distance

\* Moving the rear cursor of a stretch that is not empty shortens it by one.
LEMMA DistanceShrinks ==
    ASSUME NEW i \in Slots, NEW s \in Bits, NEW j \in Slots, NEW t \in Bits,
           Distance(i, s, j, t) >= 1
    PROVE  Distance(Advance(i), Phase(i, s), j, t) = Distance(i, s, j, t) - 1
BY RingAssumption DEF Slots, Bits, Advance, Phase, Distance

\* Three adjoining stretches that fit in the ring make one.
LEMMA DistanceAdds ==
    ASSUME NEW i \in Slots, NEW s \in Bits, NEW j \in Slots, NEW t \in Bits,
           NEW k \in Slots, NEW u \in Bits, NEW l \in Slots, NEW v \in Bits,
           Distance(i, s, j, t) + Distance(j, t, k, u) + Distance(k, u, l, v) <= MAX_NUM_WQ
    PROVE  Distance(i, s, l, v)
              = Distance(i, s, j, t) + Distance(j, t, k, u) + Distance(k, u, l, v)
BY RingAssumption DEF Slots, Bits, Distance

\* The front cursor's slot joins the stretch when the cursor moves.
LEMMA BetweenGrows ==
    ASSUME NEW i \in Slots, NEW s \in Bits, NEW j \in Slots, NEW t \in Bits,
           Distance(i, s, j, t) >= 0, Distance(i, s, j, t) < MAX_NUM_WQ,
           NEW k \in Slots
    PROVE  Between(k, i, s, Advance(j), Phase(j, t)) <=> Between(k, i, s, j, t) \/ k = j
BY RingAssumption DEF Slots, Bits, Advance, Phase, Distance, Between

\* The rear cursor's slot leaves the stretch when the cursor moves.
LEMMA BetweenShrinks ==
    ASSUME NEW i \in Slots, NEW s \in Bits, NEW j \in Slots, NEW t \in Bits,
           Distance(i, s, j, t) >= 1, Distance(i, s, j, t) <= MAX_NUM_WQ,
           NEW k \in Slots
    PROVE  Between(k, Advance(i), Phase(i, s), j, t) <=> Between(k, i, s, j, t) /\ k # i
BY RingAssumption DEF Slots, Bits, Advance, Phase, Distance, Between

\* A stretch of length 0 is empty, a longer one holds its rear slot, and one
\* that is not full does not hold its front slot.
LEMMA BetweenEnds ==
    ASSUME NEW i \in Slots, NEW s \in Bits, NEW j \in Slots, NEW t \in Bits,
           Distance(i, s, j, t) >= 0, Distance(i, s, j, t) <= MAX_NUM_WQ
    PROVE  /\ Distance(i, s, j, t) = 0 => \A k \in Slots : ~Between(k, i, s, j, t)
           /\ Distance(i, s, j, t) >= 1 => Between(i, i, s, j, t)
           /\ Distance(i, s, j, t) < MAX_NUM_WQ <=> ~Between(j, i, s, j, t)
BY RingAssumption DEF Slots, Bits, Distance, Between

\* The consumer's phase test at slot i succeeds exactly when the producer's
\* cursor <<j, t>> is ahead of it.
LEMMA PhaseTest ==
    ASSUME NEW i \in Slots, NEW s \in Bits, NEW j \in Slots, NEW t \in Bits,
           Distance(i, s, j, t) >= 0, Distance(i, s, j, t) <= MAX_NUM_WQ
    PROVE  (IF i < j THEN t ELSE 1 - t) = s <=> Distance(i, s, j, t) >= 1
BY RingAssumption DEF Slots, Bits, Distance

(***************************************************************************)
(* Memory.                                                                 *)
(***************************************************************************)

\* Performing a requested operation maps memories to memories: the transfer
\* stays inside the buffer and the context.
LEMMA PerformType ==
    ASSUME NEW e \in Entries, NEW c \in Contexts, NEW b \in Buffers
    PROVE  Perform(e, <<c, b>>) \in Contexts \X Buffers
<1>1. PICK r \in Requests : e = Entry(r)
  BY DEF Entries
<1>2. /\ e.op = r.op /\ e.buf_offset = r.buf_offset /\ e.nid = r.nid
      /\ e.offset = r.offset /\ e.length = RoundUp(r.length)
      /\ r \in RequestType
  BY <1>1, RequestAssumption DEF Entry, RequestType
<1>3. /\ e.buf_offset \in Nat /\ e.offset \in Nat /\ e.nid \in Nodes /\ e.length \in Nat
      /\ e.buf_offset + e.length <= BufWords
      /\ e.offset + e.length <= CtxWords
  BY <1>2, RequestAssumption DEF RequestType, RoundUp
<1>4. c[e.nid] \in [0 .. CtxWords - 1 -> Values]
  BY <1>3 DEF Contexts
<1>5. Copy(c[e.nid], e.offset, b, e.buf_offset, e.length) \in [0 .. CtxWords - 1 -> Values]
  <2>1. ASSUME NEW w \in 0 .. CtxWords - 1, w >= e.offset, w < e.offset + e.length
        PROVE  b[e.buf_offset + (w - e.offset)] \in Values
    BY <1>3, <2>1, RingAssumption DEF Buffers
  <2>2. QED
    BY <1>3, <1>4, <2>1 DEF Copy
<1>6. Copy(b, e.buf_offset, c[e.nid], e.offset, e.length) \in Buffers
  BY <1>3, <1>4, RingAssumption DEF Buffers, Copy
<1>7. [c EXCEPT ![e.nid] = Copy(c[e.nid], e.offset, b, e.buf_offset, e.length)] \in Contexts
  BY <1>3, <1>5 DEF Contexts
<1>8. QED
  BY <1>6, <1>7 DEF Perform

(***************************************************************************)
(* The invariant.                                                          *)
(***************************************************************************)
IInv == TypeOK /\ RingInv

\* The cursors of a type-correct state.
LEMMA Cursors ==
    ASSUME TypeOK
    PROVE  /\ cq_tail \in Slots /\ cq_SR \in Bits
           /\ local_cq_head \in Slots /\ local_cq_SR \in Bits
           /\ local_wq_tail \in Slots /\ local_wq_SR \in Bits
           /\ wq_head \in Slots /\ wq_SR \in Bits
           /\ Unreported \in Int /\ InFlight \in Int /\ Pending \in Int
BY RingAssumption DEF TypeOK, Bits, Slots, Unreported, InFlight, Pending, Distance

\* The stretch from the CQ tail to the WQ head holds the three inner ones.
LEMMA WholeStretch ==
    ASSUME TypeOK, CursorsInOrder
    PROVE  Distance(cq_tail, cq_SR, wq_head, wq_SR) = Unreported + InFlight + Pending
BY Cursors, DistanceAdds DEF CursorsInOrder, Unreported, InFlight, Pending

\* The state the daemon leaves the rings in satisfies the invariant.
LEMMA InitIInv == Init => IInv
<1> SUFFICES ASSUME Init PROVE IInv
  OBVIOUS
<1>1. TypeOK
  <2>1. 0 \in Slots
    BY RingAssumption DEF Slots
  <2>2. lbuf \in Buffers /\ ctx \in Contexts
    BY MemoryAssumption DEF Init, Buffers
  <2>3. QED
    BY <2>1, <2>2 DEF Init, TypeOK, AppStates
<1>2. Unreported = 0 /\ InFlight = 0 /\ Pending = 0
  BY DEF Init, Unreported, InFlight, Pending, Distance
<1>3. CursorsInOrder
  BY <1>2, RingAssumption DEF Init, CursorsInOrder
<1>4. PhasesSplit
  BY DEF Init, PhasesSplit, Slots
<1>5. \A k \in Slots : ~Between(k, 0, 1, 0, 1)
  BY DEF Between, Slots
<1>6. ValidExact /\ CompletionsInOrder /\ CallsInOrder
  BY <1>2, <1>5 DEF Init, ValidExact, CompletionsInOrder, CallsInOrder, Filling, Registering
<1>7. QED
  BY <1>1, <1>3, <1>4, <1>6 DEF IInv, RingInv

\* When the valid bit of the head entry is 0 the ring has room, and the head
\* entry is not one the daemon has yet to execute.
LEMMA HeadNotPending ==
    ASSUME IInv, wq_valid[wq_head] = 0
    PROVE  /\ Unreported + InFlight + Pending < MAX_NUM_WQ
           /\ ~Between(wq_head, local_wq_tail, local_wq_SR, wq_head, wq_SR)
<1> USE DEF IInv, RingInv
<1>1. ~Between(wq_head, cq_tail, cq_SR, wq_head, wq_SR)
  BY Cursors DEF ValidExact
<1>2. Unreported + InFlight + Pending < MAX_NUM_WQ
  BY <1>1, Cursors, WholeStretch, BetweenEnds DEF CursorsInOrder
<1>3. Pending >= 0 /\ Pending < MAX_NUM_WQ
  BY <1>2, Cursors, RingAssumption DEF CursorsInOrder
<1>4. QED
  BY <1>2, <1>3, Cursors, BetweenEnds, RingAssumption DEF Pending

\* The application's stores to a free head entry: FillEntry.
LEMMA FillPreserves ==
    ASSUME IInv, NEW r \in Requests, FillEntry(r), my_head' = wq_head, req' = r,
           alone' \in BOOLEAN, wq_valid[wq_head] = 0, ~Registering,
           app' \in {"sync_publish", "async_publish"}
    PROVE  IInv'
<1> USE DEF IInv, RingInv
<1>1. wq_q' = [wq_q EXCEPT ![wq_head] = Entry(r)] /\ wq_valid' = [wq_valid EXCEPT ![wq_head] = 1]
  BY DEF FillEntry
<1>2. UNCHANGED <<wq_entry_SR, wq_head, wq_SR, wq_connected, cqVars, rmcVars, memVars>>
  BY DEF FillEntry
<1>3. UNCHANGED <<wq_entry_SR, wq_head, wq_SR, wq_connected, cq_tid, cq_entry_SR, cq_tail,
                  cq_SR, cq_connected, local_wq_tail, local_wq_SR, local_cq_head,
                  local_cq_SR, compl_idx, rmc, ctx, lbuf>>
  BY <1>2 DEF cqVars, rmcVars, memVars
<1>4. UNCHANGED <<Unreported, InFlight, Pending>>
  BY <1>3 DEF Unreported, InFlight, Pending
<1>5. TypeOK'
  BY <1>1, <1>3 DEF TypeOK, Entries, AppStates
<1>7. Unreported + InFlight + Pending < MAX_NUM_WQ
  BY HeadNotPending
<1>8. CursorsInOrder' /\ PhasesSplit' /\ CompletionsInOrder'
  BY <1>3, <1>4 DEF CursorsInOrder, PhasesSplit, CompletionsInOrder
<1>9. ValidExact'
  <2>1. ~Filling
    BY Cursors DEF ValidExact
  <2>2. Filling'
    BY DEF Filling
  <2>3. ASSUME NEW k \in Slots
        PROVE  wq_valid'[k] = 1 <=> Between(k, cq_tail, cq_SR, wq_head, wq_SR) \/ k = wq_head
    BY <1>1, <2>1 DEF ValidExact, TypeOK
  <2>4. QED
    BY <1>3, <1>4, <1>7, <2>2, <2>3 DEF ValidExact
<1>10. CallsInOrder'
  <2>1. ~Between(wq_head, local_wq_tail, local_wq_SR, wq_head, wq_SR)
    BY HeadNotPending
  <2>2. ASSUME NEW k \in Slots, Between(k, local_wq_tail, local_wq_SR, wq_head, wq_SR)
        PROVE  wq_q'[k] \in Entries
    BY <1>1, <2>1, <2>2 DEF CallsInOrder, TypeOK
  <2>3. wq_q'[wq_head] = Entry(r)
    BY <1>1, Cursors DEF TypeOK
  <2>4. QED
    BY <1>3, <1>4, <2>2, <2>3 DEF CallsInOrder, Registering, Filling
<1>11. QED
  BY <1>5, <1>8, <1>9, <1>10

\* The application publishes the entry it has filled: PublishEntry.
LEMMA PublishPreserves ==
    ASSUME IInv, Filling, PublishEntry, UNCHANGED <<req, my_head, alone>>,
           app' \in {"wait", "idle"}, app' = "wait" => app = "sync_publish"
    PROVE  IInv'
<1> USE DEF IInv, RingInv
<1>1. my_head = wq_head /\ req \in Requests /\ wq_q[wq_head] = Entry(req) /\ wq_connected
  BY DEF CallsInOrder, Filling, Registering
<1>2. /\ wq_entry_SR' = [wq_entry_SR EXCEPT ![wq_head] = wq_SR]
      /\ wq_head' = Advance(wq_head) /\ wq_SR' = Phase(wq_head, wq_SR)
  BY <1>1 DEF PublishEntry
<1>3. UNCHANGED <<wq_q, wq_valid, wq_connected, cq_tid, cq_entry_SR, cq_tail,
                  cq_SR, cq_connected, local_wq_tail, local_wq_SR, local_cq_head,
                  local_cq_SR, compl_idx, rmc, ctx, lbuf>>
  BY DEF PublishEntry, cqVars, rmcVars, memVars
<1>4. TypeOK'
  BY <1>2, <1>3, Cursors, AdvanceType DEF TypeOK, AppStates, Bits
<1>5. Unreported + InFlight + Pending < MAX_NUM_WQ
  BY DEF ValidExact
<1>6. Pending >= 0 /\ Pending < MAX_NUM_WQ
  BY <1>5, Cursors, RingAssumption DEF CursorsInOrder
<1>7. Unreported' = Unreported /\ InFlight' = InFlight /\ Pending' = Pending + 1
  BY <1>2, <1>3, <1>6, Cursors, DistanceGrows DEF Unreported, InFlight, Pending
<1>8. CursorsInOrder'
  BY <1>3, <1>5, <1>7, Cursors, RingAssumption DEF CursorsInOrder
<1>9. PhasesSplit'
  <2>1. ASSUME NEW k \in Slots
        PROVE  wq_entry_SR'[k] = IF k < wq_head' THEN wq_SR' ELSE 1 - wq_SR'
    <3>1. /\ wq_entry_SR[k] = IF k < wq_head THEN wq_SR ELSE 1 - wq_SR
          /\ wq_entry_SR'[k] = IF k = wq_head THEN wq_SR ELSE wq_entry_SR[k]
      BY <1>2 DEF PhasesSplit, TypeOK
    <3>2. wq_head \in Slots /\ wq_SR \in Bits
      BY Cursors
    <3>3. QED
      BY <1>2, <3>1, <3>2, RingAssumption DEF Slots, Bits, Advance, Phase
  <2>2. QED
    BY <1>3, <2>1 DEF PhasesSplit
<1>10. ASSUME NEW k \in Slots
       PROVE  Between(k, cq_tail, cq_SR, wq_head', wq_SR')
                 <=> Between(k, cq_tail, cq_SR, wq_head, wq_SR) \/ k = wq_head
  BY <1>2, <1>5, Cursors, WholeStretch, BetweenGrows DEF CursorsInOrder
<1>11. ValidExact'
  <2>1. ~Filling'
    BY DEF Filling
  <2>2. QED
    BY <1>3, <1>10, <2>1 DEF ValidExact
<1>12. CompletionsInOrder'
  BY <1>3 DEF CompletionsInOrder
<1>13. CallsInOrder'
  <2>1. ASSUME NEW k \in Slots, Between(k, local_wq_tail, local_wq_SR, wq_head', wq_SR')
        PROVE  wq_q[k] \in Entries
    <3>1. Between(k, local_wq_tail, local_wq_SR, wq_head, wq_SR) \/ k = wq_head
      BY <1>2, <1>6, <2>1, Cursors, BetweenGrows DEF Pending
    <3>2. QED
      BY <1>1, <3>1 DEF CallsInOrder, Entries
  <2>2. QED
    BY <1>1, <1>3, <2>1 DEF CallsInOrder, Filling, Registering
<1>14. QED
  BY <1>4, <1>8, <1>9, <1>11, <1>12, <1>13

\* The application consumes a visible completion: ConsumeCompletion.
LEMMA ConsumePreserves ==
    ASSUME IInv, CompletionVisible, ConsumeCompletion, UNCHANGED <<req, my_head, alone>>,
           app \in {"wait", "check", "drain"},
           app' \in {"idle", "check", "drain"}, app' = "check" => app = "check"
    PROVE  IInv'
<1> USE DEF IInv, RingInv
<1>1. Unreported >= 0 /\ Unreported <= MAX_NUM_WQ
  BY Cursors, RingAssumption DEF CursorsInOrder
<1>2. Unreported >= 1
  BY <1>1, Cursors, PhaseTest DEF CompletionVisible, PhasesSplit, Unreported
<1>3. cq_tid[cq_tail] = cq_tail
  BY <1>1, <1>2, Cursors, BetweenEnds DEF CompletionsInOrder, Unreported
<1>4. /\ wq_valid' = [wq_valid EXCEPT ![cq_tail] = 0]
      /\ cq_tail' = Advance(cq_tail) /\ cq_SR' = Phase(cq_tail, cq_SR)
  BY <1>3 DEF ConsumeCompletion
<1>5. UNCHANGED <<wq_q, wq_entry_SR, wq_head, wq_SR, wq_connected, cq_tid, cq_entry_SR,
                  cq_connected, local_wq_tail, local_wq_SR, local_cq_head,
                  local_cq_SR, compl_idx, rmc, ctx, lbuf>>
  BY DEF ConsumeCompletion, rmcVars, memVars
<1>6. TypeOK'
  BY <1>4, <1>5, Cursors, AdvanceType DEF TypeOK, AppStates, Bits
<1>7. Unreported' = Unreported - 1 /\ InFlight' = InFlight /\ Pending' = Pending
  BY <1>2, <1>4, <1>5, Cursors, DistanceShrinks DEF Unreported, InFlight, Pending
<1>8. CursorsInOrder'
  BY <1>2, <1>5, <1>7, Cursors, RingAssumption DEF CursorsInOrder
<1>9. PhasesSplit'
  BY <1>5 DEF PhasesSplit
<1>10. ASSUME NEW k \in Slots
       PROVE  Between(k, cq_tail', cq_SR', wq_head, wq_SR)
                 <=> Between(k, cq_tail, cq_SR, wq_head, wq_SR) /\ k # cq_tail
  <2>1. /\ Distance(cq_tail, cq_SR, wq_head, wq_SR) >= 1
        /\ Distance(cq_tail, cq_SR, wq_head, wq_SR) <= MAX_NUM_WQ
    BY <1>2, Cursors, WholeStretch DEF CursorsInOrder
  <2>2. QED
    BY <1>4, <2>1, Cursors, BetweenShrinks
<1>11. ValidExact'
  <2>1. ~Filling /\ ~Filling'
    BY DEF Filling
  <2>2. ASSUME NEW k \in Slots
        PROVE  wq_valid'[k] = 1 <=> wq_valid[k] = 1 /\ k # cq_tail
    BY <1>4 DEF TypeOK
  <2>3. QED
    BY <1>5, <1>10, <2>1, <2>2 DEF ValidExact
<1>12. CompletionsInOrder'
  <2>1. ASSUME NEW k \in Slots, Between(k, cq_tail', cq_SR', local_cq_head, local_cq_SR)
        PROVE  cq_tid[k] = k
    <3>1. Between(k, cq_tail, cq_SR, local_cq_head, local_cq_SR)
      BY <1>1, <1>2, <1>4, <2>1, Cursors, BetweenShrinks DEF Unreported
    <3>2. QED
      BY <3>1 DEF CompletionsInOrder
  <2>2. QED
    BY <1>5, <2>1 DEF CompletionsInOrder
<1>13. CallsInOrder'
  BY <1>5 DEF CallsInOrder, Filling, Registering
<1>14. QED
  BY <1>6, <1>8, <1>9, <1>11, <1>12, <1>13

\* The daemon executes the entry at its tail: RmcExecute.
LEMMA ExecutePreserves ==
    ASSUME IInv, RmcExecute
    PROVE  IInv'
<1> USE DEF IInv, RingInv
<1>1. /\ rmc = "poll" /\ rmc' = "tid"
      /\ wq_entry_SR[local_wq_tail] = local_wq_SR
      /\ compl_idx' = local_wq_tail
      /\ local_wq_tail' = Advance(local_wq_tail)
      /\ local_wq_SR' = Phase(local_wq_tail, local_wq_SR)
  BY DEF RmcExecute
<1>2. UNCHANGED <<wq_q, wq_valid, wq_entry_SR, wq_head, wq_SR, wq_connected, cq_tid,
                  cq_entry_SR, cq_tail, cq_SR, cq_connected, local_cq_head, local_cq_SR,
                  app, req, my_head, alone>>
  BY DEF RmcExecute, wqVars, cqVars, appVars
<1>3. InFlight = 0 /\ Pending >= 0 /\ Pending <= MAX_NUM_WQ
  BY <1>1, Cursors, RingAssumption DEF CursorsInOrder
<1>4. Pending >= 1
  BY <1>1, <1>3, Cursors, PhaseTest DEF PhasesSplit, Pending
<1>5. TypeOK'
  <2>1. wq_q[local_wq_tail] \in Entries
    BY <1>3, <1>4, Cursors, BetweenEnds DEF CallsInOrder, Pending
  <2>2. Perform(wq_q[local_wq_tail], <<ctx, lbuf>>) \in Contexts \X Buffers
    BY <2>1, PerformType DEF TypeOK
  <2>3. ctx' \in Contexts /\ lbuf' \in Buffers
    BY <2>2 DEF RmcExecute
  <2>4. QED
    BY <1>1, <1>2, <2>3, Cursors, AdvanceType DEF TypeOK, Bits
<1>6. Unreported' = Unreported /\ InFlight' = 1 /\ Pending' = Pending - 1
  <2>1. Distance(local_cq_head, local_cq_SR, local_wq_tail, local_wq_SR) < MAX_NUM_WQ
    BY <1>3, RingAssumption DEF InFlight
  <2>2. InFlight' = InFlight + 1
    BY <1>1, <1>2, <2>1, Cursors, DistanceGrows DEF InFlight
  <2>3. QED
    BY <1>1, <1>2, <1>3, <1>4, <2>2, Cursors, DistanceShrinks DEF Unreported, Pending
<1>7. CursorsInOrder'
  BY <1>1, <1>3, <1>4, <1>6, Cursors, RingAssumption DEF CursorsInOrder
<1>8. PhasesSplit' /\ ValidExact'
  BY <1>2, <1>3, <1>6, Cursors DEF PhasesSplit, ValidExact, Filling
<1>9. CompletionsInOrder'
  <2>1. local_wq_tail = local_cq_head
    BY <1>3, Cursors, RingAssumption DEF InFlight, Distance, Slots, Bits
  <2>2. QED
    BY <1>1, <1>2, <2>1 DEF CompletionsInOrder
<1>10. CallsInOrder'
  <2>1. ASSUME NEW k \in Slots, Between(k, local_wq_tail', local_wq_SR', wq_head, wq_SR)
        PROVE  wq_q[k] \in Entries
    <3>1. Between(k, local_wq_tail, local_wq_SR, wq_head, wq_SR)
      BY <1>1, <1>3, <1>4, <2>1, Cursors, BetweenShrinks DEF Pending
    <3>2. QED
      BY <3>1 DEF CallsInOrder
  <2>2. ~Registering
    BY <1>3, <1>4, Cursors DEF CallsInOrder, CursorsInOrder
  <2>3. QED
    BY <1>2, <2>1, <2>2 DEF CallsInOrder, Filling, Registering
<1>11. QED
  BY <1>5, <1>7, <1>8, <1>9, <1>10

\* The daemon stores the completion's tid: RmcWriteTid.
LEMMA WriteTidPreserves ==
    ASSUME IInv, RmcWriteTid
    PROVE  IInv'
<1> USE DEF IInv, RingInv
<1>1. rmc = "tid" /\ rmc' = "publish" /\ cq_tid' = [cq_tid EXCEPT ![local_cq_head] = local_cq_head]
  BY DEF RmcWriteTid, CompletionsInOrder
<1>2. UNCHANGED <<wq_q, wq_valid, wq_entry_SR, wq_head, wq_SR, wq_connected, cq_entry_SR,
                  cq_tail, cq_SR, cq_connected, local_wq_tail, local_wq_SR, local_cq_head,
                  local_cq_SR, compl_idx, app, req, my_head, alone, ctx, lbuf>>
  BY DEF RmcWriteTid, wqVars, appVars, memVars
<1>3. UNCHANGED <<Unreported, InFlight, Pending>>
  BY <1>2 DEF Unreported, InFlight, Pending
<1>4. TypeOK'
  BY <1>1, <1>2 DEF TypeOK
<1>5. CursorsInOrder' /\ PhasesSplit' /\ ValidExact' /\ CallsInOrder'
  BY <1>1, <1>2, <1>3
  DEF CursorsInOrder, PhasesSplit, ValidExact, CallsInOrder, Filling, Registering
<1>6. CompletionsInOrder'
  BY <1>1, <1>2, Cursors DEF CompletionsInOrder, TypeOK
<1>7. QED
  BY <1>4, <1>5, <1>6

\* The daemon publishes the completion: RmcPublish.
LEMMA RmcPublishPreserves ==
    ASSUME IInv, RmcPublish
    PROVE  IInv'
<1> USE DEF IInv, RingInv
<1>1. /\ rmc = "publish" /\ rmc' = "poll"
      /\ cq_entry_SR' = [cq_entry_SR EXCEPT ![local_cq_head] = local_cq_SR]
      /\ local_cq_head' = Advance(local_cq_head)
      /\ local_cq_SR' = Phase(local_cq_head, local_cq_SR)
  BY DEF RmcPublish
<1>2. UNCHANGED <<wq_q, wq_valid, wq_entry_SR, wq_head, wq_SR, wq_connected, cq_tid,
                  cq_tail, cq_SR, cq_connected, local_wq_tail, local_wq_SR,
                  compl_idx, app, req, my_head, alone, ctx, lbuf>>
  BY DEF RmcPublish, wqVars, appVars, memVars
<1>3. TypeOK'
  BY <1>1, <1>2, Cursors, AdvanceType DEF TypeOK, Bits
<1>4. InFlight = 1 /\ Unreported >= 0 /\ Unreported < MAX_NUM_WQ
  BY <1>1, Cursors, RingAssumption DEF CursorsInOrder
<1>5. Unreported' = Unreported + 1 /\ InFlight' = 0 /\ Pending' = Pending
  <2>1. Unreported' = Unreported + 1
    BY <1>1, <1>2, <1>4, Cursors, DistanceGrows DEF Unreported
  <2>2. InFlight' = InFlight - 1
    BY <1>1, <1>2, <1>4, Cursors, DistanceShrinks DEF InFlight
  <2>3. QED
    BY <1>2, <1>4, <2>1, <2>2 DEF Pending
<1>6. CursorsInOrder'
  BY <1>1, <1>4, <1>5, Cursors, RingAssumption DEF CursorsInOrder
<1>7. PhasesSplit'
  <2>1. ASSUME NEW k \in Slots
        PROVE  cq_entry_SR'[k] = IF k < local_cq_head' THEN local_cq_SR' ELSE 1 - local_cq_SR'
    <3>1. /\ cq_entry_SR[k] = IF k < local_cq_head THEN local_cq_SR ELSE 1 - local_cq_SR
          /\ cq_entry_SR'[k] = IF k = local_cq_head THEN local_cq_SR ELSE cq_entry_SR[k]
      BY <1>1 DEF PhasesSplit, TypeOK
    <3>2. local_cq_head \in Slots /\ local_cq_SR \in Bits
      BY Cursors
    <3>3. QED
      BY <1>1, <3>1, <3>2, RingAssumption DEF Slots, Bits, Advance, Phase
  <2>2. QED
    BY <1>2, <2>1 DEF PhasesSplit
<1>8. ValidExact' /\ CallsInOrder'
  BY <1>2, <1>4, <1>5, Cursors DEF ValidExact, CallsInOrder, Filling, Registering
<1>9. CompletionsInOrder'
  <2>1. ASSUME NEW k \in Slots, Between(k, cq_tail, cq_SR, local_cq_head', local_cq_SR')
        PROVE  cq_tid[k] = k
    <3>1. Between(k, cq_tail, cq_SR, local_cq_head, local_cq_SR) \/ k = local_cq_head
      BY <1>1, <1>4, <2>1, Cursors, BetweenGrows DEF Unreported
    <3>2. QED
      BY <1>1, <3>1 DEF CompletionsInOrder
  <2>2. QED
    BY <1>1, <1>2, <2>1 DEF CompletionsInOrder
<1>10. QED
  BY <1>3, <1>6, <1>7, <1>8, <1>9

\* Steps that leave the rings and the daemon alone: calls that begin, loops
\* that end, and registration, which only connects the rings and sets the
\* memories up.
LEMMA QuietPreserves ==
    ASSUME IInv,
           UNCHANGED <<wq_q, wq_valid, wq_entry_SR, wq_head, wq_SR, rmcVars>>,
           UNCHANGED <<cq_tid, cq_entry_SR, cq_tail, cq_SR>>,
           wq_connected' \in BOOLEAN, cq_connected' \in BOOLEAN,
           ctx' \in Contexts, lbuf' \in Buffers, alone' \in BOOLEAN,
           app' \in AppStates, ~Filling, ~Filling', my_head' \in Slots,
           req' \in Requests \union {ZeroEntry},
           app' \in {"spin", "check", "check_head", "checked"} => my_head' = wq_head,
           app' = "checked" => wq_valid[wq_head] = 0,
           app' \in {"spin", "wait"} => req' \in Requests,
           Registering' => Registering,
           app' \notin {"start", "reg_ctx", "reg_wq"} => wq_connected'
    PROVE  IInv'
<1> USE DEF IInv, RingInv
<1>1. UNCHANGED <<wq_q, wq_valid, wq_entry_SR, wq_head, wq_SR, cq_tid, cq_entry_SR, cq_tail,
                  cq_SR, local_wq_tail, local_wq_SR, local_cq_head, local_cq_SR,
                  compl_idx, rmc>>
  BY DEF rmcVars
<1>2. UNCHANGED <<Unreported, InFlight, Pending>>
  BY <1>1 DEF Unreported, InFlight, Pending
<1>3. TypeOK'
  BY <1>1 DEF TypeOK
<1>4. CursorsInOrder' /\ PhasesSplit' /\ CompletionsInOrder'
  BY <1>1, <1>2 DEF CursorsInOrder, PhasesSplit, CompletionsInOrder
<1>5. ValidExact'
  BY <1>1, <1>2 DEF ValidExact
<1>6. CallsInOrder'
  BY <1>1, <1>2 DEF CallsInOrder, Filling
<1>7. QED
  BY <1>3, <1>4, <1>5, <1>6

\* Every step of the application or the daemon preserves the invariant.
LEMMA NextIInv == IInv /\ [Next]_vars => IInv'
<1> SUFFICES ASSUME IInv, [Next]_vars PROVE IInv'
  OBVIOUS
<1> USE DEF wqVars, cqVars, rmcVars, appVars, memVars
<1>a. /\ TypeOK /\ CallsInOrder
      /\ app \in AppStates /\ my_head \in Slots /\ wq_head \in Slots
      /\ req \in Requests \union {ZeroEntry} /\ alone \in BOOLEAN
      /\ ctx \in Contexts /\ lbuf \in Buffers
      /\ wq_connected \in BOOLEAN /\ cq_connected \in BOOLEAN
      /\ wq_valid \in [Slots -> {0, 1}]
  BY DEF IInv, RingInv, TypeOK
<1>1. CASE kal_reg_lbuff
  BY <1>1, <1>a, QuietPreserves, MemoryAssumption
  DEF kal_reg_lbuff, Filling, Registering, AppStates
<1>2. CASE kal_reg_ctx
  <2>1. [w \in 0 .. CtxWords - 1 |-> IF w < RegZeroWords THEN 0 ELSE ctx[this_nid][w]]
            \in [0 .. CtxWords - 1 -> Values]
    BY <1>a, MemoryAssumption, RingAssumption DEF Contexts
  <2>2. ctx' \in Contexts
    BY <1>2, <1>a, <2>1 DEF kal_reg_ctx, Contexts
  <2>3. QED
    BY <1>2, <1>a, <2>2, QuietPreserves DEF kal_reg_ctx, Filling, Registering, AppStates
<1>3. CASE kal_reg_wq
  BY <1>3, <1>a, QuietPreserves DEF kal_reg_wq, Filling, Registering, AppStates
<1>4. CASE kal_reg_cq
  BY <1>4, <1>a, QuietPreserves DEF kal_reg_cq, Filling, Registering, AppStates, CallsInOrder
<1>5. ASSUME NEW r \in Requests, CallSync(r) PROVE IInv'
  BY <1>5, <1>a, QuietPreserves
  DEF CallSync, BetweenCalls, Filling, Registering, AppStates, CallsInOrder
<1>6. ASSUME NEW r \in Requests, CallAsync(r) PROVE IInv'
  BY <1>6, <1>a, FillPreserves DEF CallAsync, Registering, CallsInOrder
<1>7. CASE rmc_check_cq
  BY <1>7, <1>a, QuietPreserves
  DEF rmc_check_cq, BetweenCalls, Filling, Registering, AppStates, CallsInOrder
<1>8. CASE rmc_drain_cq
  BY <1>8, <1>a, QuietPreserves
  DEF rmc_drain_cq, BetweenCalls, Filling, Registering, AppStates, CallsInOrder
<1>9. CASE SyncFill
  BY <1>9, <1>a, FillPreserves DEF SyncFill, Registering, CallsInOrder
<1>10. CASE SyncPublish \/ AsyncPublish
  BY <1>10, PublishPreserves DEF SyncPublish, AsyncPublish, Filling
<1>11. CASE SyncReturn \/ CheckConsume \/ DrainConsume
  BY <1>11, ConsumePreserves DEF SyncReturn, CheckConsume, DrainConsume
<1>12. CASE CheckNoMore
  BY <1>12, <1>a, QuietPreserves
  DEF CheckNoMore, Filling, Registering, AppStates, CallsInOrder
<1>13. CASE CheckHead
  BY <1>13, <1>a, QuietPreserves
  DEF CheckHead, Filling, Registering, AppStates, CallsInOrder
<1>14. CASE DrainReturn
  BY <1>14, <1>a, QuietPreserves
  DEF DrainReturn, Filling, Registering, AppStates, CallsInOrder
<1>15. CASE RmcNext
  BY <1>15, ExecutePreserves, WriteTidPreserves, RmcPublishPreserves DEF RmcNext
<1>16. CASE UNCHANGED vars
  BY <1>16
  DEF vars, IInv, RingInv, TypeOK, CursorsInOrder, PhasesSplit, ValidExact, CompletionsInOrder,
      CallsInOrder, Unreported, InFlight, Pending, Filling, Registering
<1>17. QED
  BY <1>1, <1>2, <1>3, <1>4, <1>5, <1>6, <1>7, <1>8, <1>9, <1>10, <1>11, <1>12, <1>13, <1>14,
     <1>15, <1>16
  DEF Next, Register, Call, InCall, rmc_rread_sync, rmc_rwrite_sync, rmc_rread_async,
      rmc_rwrite_async

\* Type correctness of the rings, of both processes and of the memories they
\* transfer between, for every ring size and set of requests.
THEOREM TypeCorrect == Spec => []TypeOK
<1>1. Spec => []IInv
  BY InitIInv, NextIInv, PTL DEF Spec
<1>2. IInv => TypeOK
  BY DEF IInv
<1>3. QED
  BY <1>1, <1>2, PTL

\* The ring protocol of libsonuma and rmcd: cursors in order, valid bits exact,
\* completions in the order of the entries, for every ring size.
THEOREM RingProtocol == Spec => []RingInv
<1>1. Spec => []IInv
  BY InitIInv, NextIInv, PTL DEF Spec
<1>2. IInv => RingInv
  BY DEF IInv
<1>3. QED
  BY <1>1, <1>2, PTL

\* An entry the daemon has yet to execute is not overwritten, for every ring
\* size: the stores of rmc_rread_async and rmc_rwrite_async hit a free entry.
THEOREM EntriesKept == Spec => NoClobber
<1> DEFINE Kept == \A k \in Slots :
                      Between(k, local_wq_tail, local_wq_SR, wq_head, wq_SR) => wq_q'[k] = wq_q[k]
<1>1. Spec => []IInv
  BY InitIInv, NextIInv, PTL DEF Spec
<1>2. ASSUME IInv, NEW r \in Requests, my_head' = wq_head, wq_valid[wq_head] = 0, FillEntry(r)
      PROVE  Kept
  BY <1>2, HeadNotPending DEF FillEntry, IInv, TypeOK
<1>3. IInv /\ [Next]_vars => [Kept]_vars
  <2> SUFFICES ASSUME IInv, Next PROVE Kept
    OBVIOUS
  <2>1. CallsInOrder
    BY DEF IInv, RingInv
  <2>2. CASE SyncFill
    BY <1>2, <2>1, <2>2 DEF SyncFill, CallsInOrder
  <2>3. ASSUME NEW r \in Requests, CallAsync(r) PROVE Kept
    BY <1>2, <2>1, <2>3 DEF CallAsync, CallsInOrder
  <2>4. CASE UNCHANGED wq_q
    BY <2>4
  <2>5. QED
    BY <2>2, <2>3, <2>4
    DEF Next, Register, Call, InCall, RmcNext, rmc_rread_sync, rmc_rwrite_sync, rmc_rread_async,
        rmc_rwrite_async, kal_reg_lbuff, kal_reg_ctx, kal_reg_wq, kal_reg_cq, CallSync,
        rmc_check_cq, rmc_drain_cq, SyncPublish, SyncReturn, AsyncPublish, CheckConsume,
        CheckNoMore, CheckHead, DrainConsume, DrainReturn, PublishEntry, ConsumeCompletion,
        RmcExecute, RmcWriteTid, RmcPublish, wqVars
<1>4. QED
  BY <1>1, <1>3, PTL DEF Spec, NoClobber

(***************************************************************************)
(* A synchronous call that began alone.                                    *)
(***************************************************************************)
\* The words a read asks for have arrived.
WordsRead(r) ==
    \A w \in 0 .. RoundUp(r.length) - 1 :
        lbuf[r.buf_offset + w] = ctx[r.nid][r.offset + w]

\* Until it has posted, nothing is outstanding; then only its own entry is,
\* and once that is executed the words have arrived.
AloneInv ==
    alone =>
        /\ app \in {"spin", "sync_publish"} => Unreported + InFlight + Pending = 0
        /\ app = "wait" =>
              /\ Unreported + InFlight + Pending = 1
              /\ my_head = cq_tail /\ wq_q[cq_tail] = Entry(req)
              /\ Pending = 0 /\ req.op = "r" => WordsRead(req)

SInv == IInv /\ AloneInv

\* After a read, the local buffer holds the words of the context.
LEMMA PerformReads ==
    ASSUME NEW r \in Requests, r.op = "r", TypeOK,
           <<ctx, lbuf>>' = Perform(Entry(r), <<ctx, lbuf>>)
    PROVE  WordsRead(r)'
<1> DEFINE e == Entry(r)
<1>1. /\ e.op = "r" /\ e.buf_offset = r.buf_offset /\ e.nid = r.nid
      /\ e.offset = r.offset /\ e.length = RoundUp(r.length)
      /\ r \in RequestType
  BY RequestAssumption DEF Entry, RequestType
<1>2. /\ r.buf_offset \in Nat /\ r.offset \in Nat /\ RoundUp(r.length) \in Nat
      /\ r.buf_offset + RoundUp(r.length) <= BufWords
  BY <1>1, RequestAssumption DEF RequestType, RoundUp
<1>3. ctx' = ctx /\ lbuf' = Copy(lbuf, r.buf_offset, ctx[r.nid], r.offset, RoundUp(r.length))
  BY <1>1 DEF Perform
<1>4. DOMAIN lbuf = 0 .. BufWords - 1
  BY DEF TypeOK, Buffers
<1>5. ASSUME NEW w \in 0 .. RoundUp(r.length) - 1
      PROVE  lbuf'[r.buf_offset + w] = ctx[r.nid][r.offset + w]
  <2>1. /\ r.buf_offset + w \in 0 .. BufWords - 1
        /\ r.buf_offset + w >= r.buf_offset
        /\ r.buf_offset + w < r.buf_offset + RoundUp(r.length)
        /\ r.offset + ((r.buf_offset + w) - r.buf_offset) = r.offset + w
    BY <1>2, RingAssumption
  <2>2. QED
    BY <1>3, <1>4, <2>1 DEF Copy
<1>6. QED
  BY <1>3, <1>5 DEF WordsRead

\* With nothing outstanding the CQ tail is the WQ head.
LEMMA NothingOutstanding ==
    ASSUME IInv, Unreported + InFlight + Pending = 0
    PROVE  cq_tail = wq_head
<1>1. Distance(cq_tail, cq_SR, wq_head, wq_SR) = 0
  BY WholeStretch DEF IInv, RingInv
<1>2. QED
  BY <1>1, Cursors, RingAssumption DEF IInv, Distance, Slots, Bits

\* When no valid bit is set, nothing is outstanding.
LEMMA NoneValid ==
    ASSUME IInv, \A k \in Slots : wq_valid[k] = 0
    PROVE  Unreported + InFlight + Pending = 0
<1>1. ~Between(cq_tail, cq_tail, cq_SR, wq_head, wq_SR)
  BY Cursors DEF IInv, RingInv, ValidExact
<1>2. /\ Distance(cq_tail, cq_SR, wq_head, wq_SR) = Unreported + InFlight + Pending
      /\ Unreported + InFlight + Pending >= 0
      /\ Unreported + InFlight + Pending <= MAX_NUM_WQ
  BY Cursors, WholeStretch DEF IInv, RingInv, CursorsInOrder
<1>3. QED
  BY <1>1, <1>2, Cursors, BetweenEnds, RingAssumption DEF IInv

\* Every step keeps what a call that began alone relies on.
LEMMA NextAlone == SInv /\ IInv' /\ [Next]_vars => AloneInv'
<1> SUFFICES ASSUME SInv, IInv', [Next]_vars PROVE AloneInv'
  OBVIOUS
<1> USE DEF wqVars, cqVars, rmcVars, appVars, memVars
<1>a. IInv /\ AloneInv /\ TypeOK /\ CallsInOrder
  BY DEF SInv, IInv, RingInv
<1>1. CASE app' \notin {"spin", "sync_publish", "wait"}
  BY <1>1 DEF AloneInv
<1>2. ASSUME NEW r \in Requests, CallSync(r) PROVE AloneInv'
  <2>1. UNCHANGED <<Unreported, InFlight, Pending>>
    BY <1>2 DEF CallSync, Unreported, InFlight, Pending
  <2>2. alone' => Unreported + InFlight + Pending = 0
    BY <1>2, <1>a, NoneValid DEF CallSync
  <2>3. QED
    BY <1>2, <2>1, <2>2 DEF CallSync, AloneInv
<1>3. CASE SyncFill
  <2>1. UNCHANGED <<Unreported, InFlight, Pending>>
    BY <1>3 DEF SyncFill, FillEntry, Unreported, InFlight, Pending
  <2>2. QED
    BY <1>3, <1>a, <2>1 DEF SyncFill, FillEntry, AloneInv
<1>4. CASE SyncPublish
  <2>1. /\ app = "sync_publish" /\ app' = "wait" /\ UNCHANGED <<req, my_head, alone>>
        /\ wq_head' = Advance(wq_head) /\ wq_SR' = Phase(wq_head, wq_SR)
        /\ UNCHANGED <<wq_q, cq_tail, cq_SR, local_wq_tail, local_wq_SR, local_cq_head,
                       local_cq_SR>>
    BY <1>4 DEF SyncPublish, PublishEntry
  <2>2. my_head = wq_head /\ wq_q[wq_head] = Entry(req)
    BY <1>a, <2>1 DEF CallsInOrder, Filling
  <2>3. CASE alone
    <3>1. Unreported + InFlight + Pending = 0
      BY <1>a, <2>1, <2>3 DEF AloneInv
    <3>2. Unreported = 0 /\ InFlight = 0 /\ Pending = 0
      BY <1>a, <3>1, Cursors DEF IInv, RingInv, CursorsInOrder
    <3>3. Pending < MAX_NUM_WQ
      BY <3>2, RingAssumption
    <3>4. Unreported' = 0 /\ InFlight' = 0 /\ Pending' = 1
      BY <1>a, <2>1, <3>2, <3>3, Cursors, DistanceGrows DEF Unreported, InFlight, Pending
    <3>5. cq_tail = wq_head
      BY <1>a, <3>1, NothingOutstanding
    <3>6. QED
      BY <2>1, <2>2, <3>4, <3>5 DEF AloneInv
  <2>4. QED
    BY <2>1, <2>3 DEF AloneInv
<1>5. CASE RmcExecute
  <2>1. /\ rmc = "poll"
        /\ wq_entry_SR[local_wq_tail] = local_wq_SR
        /\ local_wq_tail' = Advance(local_wq_tail)
        /\ local_wq_SR' = Phase(local_wq_tail, local_wq_SR)
        /\ UNCHANGED <<wq_q, wq_head, wq_SR, cq_tail, cq_SR, local_cq_head, local_cq_SR,
                       app, req, my_head, alone>>
        /\ <<ctx, lbuf>>' = Perform(wq_q[local_wq_tail], <<ctx, lbuf>>)
    BY <1>5 DEF RmcExecute, Perform
  <2>2. InFlight = 0 /\ Unreported >= 0 /\ Pending >= 0 /\ Pending <= MAX_NUM_WQ
    BY <1>a, <2>1, Cursors, RingAssumption DEF IInv, RingInv, CursorsInOrder
  <2>3. Pending >= 1
    BY <1>a, <2>1, <2>2, Cursors, PhaseTest DEF IInv, RingInv, PhasesSplit, Pending
  <2>4. Unreported' = Unreported /\ InFlight' = 1 /\ Pending' = Pending - 1
    <3>1. InFlight < MAX_NUM_WQ
      BY <2>2, RingAssumption
    <3>2. InFlight' = InFlight + 1
      BY <1>a, <2>1, <3>1, Cursors, DistanceGrows DEF InFlight
    <3>3. QED
      BY <1>a, <2>1, <2>2, <2>3, <3>2, Cursors, DistanceShrinks DEF Unreported, Pending
  <2>5. CASE alone /\ app \in {"spin", "sync_publish"}
    BY <1>a, <2>2, <2>3, <2>5, Cursors DEF AloneInv
  <2>6. CASE alone /\ app = "wait"
    <3>1. /\ Unreported = 0 /\ Pending = 1
          /\ my_head = cq_tail /\ wq_q[cq_tail] = Entry(req)
      BY <1>a, <2>2, <2>3, <2>6, Cursors DEF AloneInv
    <3>2. local_wq_tail = cq_tail
      <4>1. /\ Distance(cq_tail, cq_SR, local_cq_head, local_cq_SR) = 0
            /\ Distance(local_cq_head, local_cq_SR, local_wq_tail, local_wq_SR) = 0
        BY <2>2, <3>1 DEF Unreported, InFlight
      <4>2. QED
        BY <1>a, <4>1, Cursors, RingAssumption DEF Distance, Slots, Bits
    <3>3. req \in Requests
      BY <1>a, <2>6 DEF CallsInOrder
    <3>4. req.op = "r" => WordsRead(req)'
      BY <1>a, <2>1, <3>1, <3>2, <3>3, PerformReads
    <3>5. /\ (Unreported + InFlight + Pending)' = 1
          /\ my_head' = cq_tail' /\ wq_q'[cq_tail'] = Entry(req')
      BY <2>1, <2>4, <3>1
    <3>6. QED
      BY <2>1, <2>6, <3>4, <3>5 DEF AloneInv
  <2>7. QED
    BY <2>1, <2>5, <2>6 DEF AloneInv
<1>6. CASE RmcPublish
  <2>1. /\ rmc = "publish"
        /\ local_cq_head' = Advance(local_cq_head)
        /\ local_cq_SR' = Phase(local_cq_head, local_cq_SR)
        /\ UNCHANGED <<wq_q, wq_head, wq_SR, local_wq_tail, local_wq_SR, cq_tail, cq_SR,
                       ctx, lbuf, app, req, my_head, alone>>
    BY <1>6 DEF RmcPublish
  <2>2. InFlight = 1 /\ Unreported >= 0 /\ Unreported < MAX_NUM_WQ
    BY <1>a, <2>1, Cursors, RingAssumption DEF IInv, RingInv, CursorsInOrder
  <2>3. Unreported' = Unreported + 1 /\ InFlight' = InFlight - 1 /\ Pending' = Pending
    BY <1>a, <2>1, <2>2, Cursors, DistanceGrows, DistanceShrinks
    DEF Unreported, InFlight, Pending
  <2>4. (Unreported + InFlight + Pending)' = Unreported + InFlight + Pending
    BY <1>a, <2>3, Cursors
  <2>5. QED
    BY <1>a, <2>1, <2>3, <2>4 DEF AloneInv, WordsRead
<1>7. CASE /\ UNCHANGED <<wq_q, wq_head, wq_SR, local_wq_tail, local_wq_SR, cq_tail, cq_SR,
                          local_cq_head, local_cq_SR, ctx, lbuf, req, my_head, alone>>
           /\ UNCHANGED app
  <2>1. UNCHANGED <<Unreported, InFlight, Pending>>
    BY <1>7 DEF Unreported, InFlight, Pending
  <2>2. QED
    BY <1>7, <1>a, <2>1 DEF AloneInv, WordsRead
<1>8. CASE RmcWriteTid \/ UNCHANGED vars
  BY <1>7, <1>8 DEF RmcWriteTid, vars
<1>9. QED
  BY <1>1, <1>2, <1>3, <1>4, <1>5, <1>6, <1>8
  DEF Next, Register, Call, InCall, RmcNext, rmc_rread_sync, rmc_rwrite_sync, rmc_rread_async,
      rmc_rwrite_async, kal_reg_lbuff, kal_reg_ctx, kal_reg_wq, kal_reg_cq, CallAsync,
      rmc_check_cq, rmc_drain_cq, SyncReturn, AsyncPublish, CheckConsume, CheckNoMore,
      CheckHead, DrainConsume, DrainReturn

\* A synchronous call that begins with nothing outstanding returns with its own
\* completion, and a read with the words it asked for, for every ring size, every
\* request and every interleaving with the daemon.
THEOREM SyncAlone == Spec => []SyncCompletesItself
<1>1. Init => SInv
  BY InitIInv DEF SInv, AloneInv, Init
<1>2. SInv /\ [Next]_vars => SInv'
  BY NextIInv, NextAlone DEF SInv
<1>3. SInv => SyncCompletesItself
  <2> SUFFICES ASSUME SInv, app = "wait", alone, CompletionVisible
               PROVE  /\ cq_tid[cq_tail] = my_head
                      /\ req.op = "r" => WordsRead(req)
    BY DEF SyncCompletesItself, WordsRead
  <2>1. Unreported >= 0 /\ Unreported <= MAX_NUM_WQ /\ InFlight >= 0 /\ Pending >= 0
    BY Cursors, RingAssumption DEF SInv, IInv, RingInv, CursorsInOrder
  <2>2. Unreported >= 1
    BY <2>1, Cursors, PhaseTest DEF SInv, IInv, RingInv, CompletionVisible, PhasesSplit, Unreported
  <2>3. cq_tid[cq_tail] = cq_tail
    BY <2>1, <2>2, Cursors, BetweenEnds DEF SInv, IInv, RingInv, CompletionsInOrder, Unreported
  <2>4. Unreported + InFlight + Pending = 1
    BY DEF SInv, AloneInv
  <2>5. Pending = 0
    BY <2>1, <2>2, <2>4, Cursors DEF SInv, IInv
  <2>6. QED
    BY <2>3, <2>5 DEF SInv, AloneInv
<1>4. QED
  BY <1>1, <1>2, <1>3, PTL DEF Spec
=============================================================================

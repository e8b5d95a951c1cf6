------------------------ MODULE QueuePairRefinement ------------------------
(***************************************************************************)
(* Proof that the two rings of QueuePair implement the queue of operations *)
(* of OneSided, for every ring size, address space and set of requests:    *)
(* the safety part of ImplementsOneSided.  The operations posted and not   *)
(* executed are the stretch of the ring from the daemon's tail to the WQ   *)
(* head, the ones executed and not reported the stretch before it; storing *)
(* an entry's SR posts, RmcExecute executes, and consuming a completion    *)
(* reports.  Everything else the two processes do is invisible.            *)
(***************************************************************************)
EXTENDS QueuePairProofs, SequenceTheorems

(***************************************************************************)
(* The stretch of n entries from slot i on, as a sequence.                 *)
(***************************************************************************)

\* From the rear cursor of a stretch, its length leads to its front cursor.
LEMMA WrapFront ==
    ASSUME NEW i \in Slots, NEW s \in Bits, NEW j \in Slots, NEW t \in Bits,
           Distance(i, s, j, t) >= 0, Distance(i, s, j, t) < MAX_NUM_WQ
    PROVE  Wrap(i + Distance(i, s, j, t)) = j
BY RingAssumption DEF Slots, Bits, Distance, Wrap

\* The slots counted from the next slot are those counted from this one.
LEMMA WrapAdvance ==
    ASSUME NEW i \in Slots, NEW k \in 1 .. MAX_NUM_WQ - 1
    PROVE  Wrap(Advance(i) + k - 1) = Wrap(i + k)
BY RingAssumption DEF Slots, Advance, Wrap

\* A stretch is a sequence of entries.
LEMMA RingSeq ==
    ASSUME TypeOK, NEW i \in Slots, NEW n \in 0 .. MAX_NUM_WQ
    PROVE  /\ Ring(i, n) \in Seq(Entries \union {ZeroEntry})
           /\ Len(Ring(i, n)) = n
           /\ \A k \in 1 .. n : Ring(i, n)[k] = wq_q[Wrap(i + k - 1)]
<1>1. ASSUME NEW k \in 1 .. n PROVE Wrap(i + k - 1) \in Slots
  BY RingAssumption DEF Slots, Wrap
<1>2. Ring(i, n) = [k \in 1 .. n |-> wq_q[Wrap(i + k - 1)]]
  BY DEF Ring
<1>3. \A k \in 1 .. n : wq_q[Wrap(i + k - 1)] \in Entries \union {ZeroEntry}
  BY <1>1 DEF TypeOK
<1>4. n \in Nat
  OBVIOUS
<1>5. Ring(i, n) \in Seq(Entries \union {ZeroEntry})
  BY <1>2, <1>3, <1>4, IsASeq
<1>6. Ring(i, n) \in [1 .. n -> Entries \union {ZeroEntry}]
  BY <1>2, <1>3
<1>7. QED
  BY <1>2, <1>4, <1>5, <1>6, LenProperties

\* A stretch of no entries is the empty sequence.
LEMMA RingEmpty == \A i : Ring(i, 0) = << >>
BY DEF Ring

\* A stretch grows at its front by the entry there.
LEMMA RingAppend ==
    ASSUME TypeOK, NEW i \in Slots, NEW n \in 0 .. MAX_NUM_WQ - 1
    PROVE  Ring(i, n + 1) = Append(Ring(i, n), wq_q[Wrap(i + n)])
<1> DEFINE S == Entries \union {ZeroEntry}
           e == wq_q[Wrap(i + n)]
<1>1. n \in 0 .. MAX_NUM_WQ /\ n + 1 \in 0 .. MAX_NUM_WQ /\ n \in Nat
  BY RingAssumption
<1>2. e \in S
  BY RingAssumption DEF TypeOK, Wrap, Slots
<1>3. /\ Append(Ring(i, n), e) \in Seq(S)
      /\ Len(Append(Ring(i, n), e)) = n + 1
      /\ \A k \in 1 .. n : Append(Ring(i, n), e)[k] = Ring(i, n)[k]
      /\ Append(Ring(i, n), e)[n + 1] = e
  BY <1>1, <1>2, RingSeq, AppendProperties
<1>4. ASSUME NEW k \in 1 .. n + 1 PROVE Ring(i, n + 1)[k] = Append(Ring(i, n), e)[k]
  <2>1. CASE k = n + 1
    <3>1. i + (n + 1) - 1 = i + n
      BY <1>1 DEF Slots
    <3>2. Ring(i, n + 1)[n + 1] = wq_q[Wrap(i + (n + 1) - 1)]
      BY <1>1, RingSeq
    <3>3. QED
      BY <1>3, <2>1, <3>1, <3>2
  <2>2. CASE k \in 1 .. n
    BY <1>1, <1>3, <2>2, RingSeq
  <2>3. k = n + 1 \/ k \in 1 .. n
    BY <1>1
  <2>4. QED
    BY <2>1, <2>2, <2>3
<1>5. QED
  BY <1>1, <1>3, <1>4, RingSeq, SeqEqual

\* A stretch begins with the entry at its rear, and without it shrinks.
LEMMA RingTail ==
    ASSUME TypeOK, NEW i \in Slots, NEW n \in 1 .. MAX_NUM_WQ
    PROVE  /\ Ring(i, n) # << >>
           /\ Head(Ring(i, n)) = wq_q[i]
           /\ Tail(Ring(i, n)) = Ring(Advance(i), n - 1)
<1> DEFINE S == Entries \union {ZeroEntry}
<1>1. n \in 0 .. MAX_NUM_WQ /\ n - 1 \in 0 .. MAX_NUM_WQ /\ n \in Nat /\ n - 1 \in Nat
  BY RingAssumption
<1>2. Advance(i) \in Slots
  BY RingAssumption DEF Advance, Slots
<1>3. Ring(i, n) \in Seq(S) /\ Len(Ring(i, n)) = n
  BY <1>1, RingSeq
<1>4. Ring(i, n) # << >>
  BY <1>3
<1>5. /\ Head(Ring(i, n)) = Ring(i, n)[1]
      /\ Tail(Ring(i, n)) \in Seq(S)
      /\ Len(Tail(Ring(i, n))) = n - 1
      /\ \A k \in 1 .. n - 1 : Tail(Ring(i, n))[k] = Ring(i, n)[k + 1]
  BY <1>1, <1>3, <1>4, HeadTailProperties
<1>6. Ring(i, n)[1] = wq_q[i]
  <2>1. Wrap(i + 1 - 1) = i
    BY RingAssumption DEF Wrap, Slots
  <2>2. QED
    BY <1>1, <2>1, RingSeq
<1>7. ASSUME NEW k \in 1 .. n - 1
      PROVE  Tail(Ring(i, n))[k] = Ring(Advance(i), n - 1)[k]
  <2>1. k \in 1 .. MAX_NUM_WQ - 1 /\ k + 1 \in 1 .. n
    BY <1>1, RingAssumption
  <2>2. Ring(Advance(i), n - 1)[k] = wq_q[Wrap(Advance(i) + k - 1)]
    BY <1>1, <1>2, RingSeq
  <2>3. Ring(i, n)[k + 1] = wq_q[Wrap(i + (k + 1) - 1)]
    BY <1>1, <2>1, RingSeq
  <2>4. i + (k + 1) - 1 = i + k
    BY RingAssumption DEF Slots
  <2>5. QED
    BY <1>5, <2>1, <2>2, <2>3, <2>4, WrapAdvance
<1>8. Len(Ring(Advance(i), n - 1)) = n - 1 /\ Ring(Advance(i), n - 1) \in Seq(S)
  BY <1>1, <1>2, RingSeq
<1>9. Tail(Ring(i, n)) = Ring(Advance(i), n - 1)
  BY <1>5, <1>7, <1>8, SeqEqual
<1>10. QED
  BY <1>4, <1>5, <1>6, <1>9

\* The abstract queues and what the abstract actions need to know of them.
PendingOps == Ring(local_wq_tail, Pending)
UnreportedOps == Ring(cq_tail, Unreported + InFlight)

\* The two abstract queues are sequences as long as their stretches.
LEMMA AbstractState ==
    ASSUME IInv
    PROVE  /\ Pending \in 0 .. MAX_NUM_WQ
           /\ Unreported + InFlight \in 0 .. MAX_NUM_WQ
           /\ PendingOps \in Seq(Entries \union {ZeroEntry}) /\ Len(PendingOps) = Pending
           /\ UnreportedOps \in Seq(Entries \union {ZeroEntry})
           /\ Len(UnreportedOps) = Unreported + InFlight
<1>1. /\ Pending \in 0 .. MAX_NUM_WQ
      /\ Unreported + InFlight \in 0 .. MAX_NUM_WQ
  BY Cursors, RingAssumption DEF IInv, RingInv, CursorsInOrder
<1>2. QED
  BY <1>1, Cursors, RingSeq DEF IInv, PendingOps, UnreportedOps

\* A step that leaves the entries, the cursors and the memories alone.
LEMMA QuietStutters ==
    ASSUME UNCHANGED <<wq_q, wq_head, wq_SR, local_wq_tail, local_wq_SR, cq_tail, cq_SR,
                       local_cq_head, local_cq_SR, ctx, lbuf>>
    PROVE  UNCHANGED Abstract!vars
BY DEF Abstract!vars, Ring, Pending, Unreported, InFlight

\* Storing the SR of a filled entry posts it: PublishEntry.
LEMMA PublishPosts ==
    ASSUME IInv, IInv', Filling, PublishEntry
    PROVE  \E op \in Entries : Abstract!Post(op)
<1>1. my_head = wq_head /\ wq_q[wq_head] \in Entries
  BY DEF IInv, RingInv, CallsInOrder, Filling, Entries
<1>2. Unreported + InFlight + Pending < MAX_NUM_WQ
  BY DEF IInv, RingInv, ValidExact
<1>3. /\ wq_head' = Advance(wq_head) /\ wq_SR' = Phase(wq_head, wq_SR)
      /\ UNCHANGED <<wq_q, local_wq_tail, local_wq_SR, cq_tail, cq_SR,
                     local_cq_head, local_cq_SR, ctx, lbuf>>
  BY DEF PublishEntry, cqVars, rmcVars, memVars
<1>4. Pending >= 0 /\ Pending < MAX_NUM_WQ
  BY <1>2, Cursors, RingAssumption DEF CursorsInOrder, IInv, RingInv
<1>5. Unreported' = Unreported /\ InFlight' = InFlight /\ Pending' = Pending + 1
  BY <1>3, <1>4, Cursors, DistanceGrows DEF Unreported, InFlight, Pending, IInv
<1>6. Wrap(local_wq_tail + Pending) = wq_head
  BY <1>4, Cursors, WrapFront DEF Pending, IInv
<1>7. Ring(local_wq_tail, Pending + 1) = Append(Ring(local_wq_tail, Pending), wq_q[wq_head])
  BY <1>4, <1>6, Cursors, RingAppend, RingAssumption DEF IInv
<1>8. PendingOps' = Append(PendingOps, wq_q[wq_head]) /\ UnreportedOps' = UnreportedOps
  BY <1>3, <1>5, <1>7 DEF PendingOps, UnreportedOps, Ring
<1>9. Len(PendingOps) + Len(UnreportedOps) < MAX_NUM_WQ
  <2>1. Len(PendingOps) = Pending /\ Len(UnreportedOps) = Unreported + InFlight
    BY AbstractState
  <2>2. Pending + (Unreported + InFlight) < MAX_NUM_WQ
    BY <1>2, Cursors DEF IInv
  <2>3. QED
    BY <2>1, <2>2
<1>10. Abstract!Post(wq_q[wq_head])
  BY <1>3, <1>8, <1>9 DEF Abstract!Post, PendingOps, UnreportedOps
<1>11. QED
  BY <1>1, <1>10

\* The stores to the fields of a free entry are invisible: FillEntry.
LEMMA FillStutters ==
    ASSUME IInv, NEW r \in Requests, FillEntry(r), my_head' = wq_head, wq_valid[wq_head] = 0
    PROVE  UNCHANGED Abstract!vars
<1>1. /\ wq_q' = [wq_q EXCEPT ![wq_head] = Entry(r)]
      /\ UNCHANGED <<wq_head, wq_SR, local_wq_tail, local_wq_SR, cq_tail, cq_SR,
                     local_cq_head, local_cq_SR, ctx, lbuf>>
  BY DEF FillEntry, cqVars, rmcVars, memVars
<1>2. UNCHANGED <<Unreported, InFlight, Pending>>
  BY <1>1 DEF Unreported, InFlight, Pending
<1>3. Unreported + InFlight + Pending < MAX_NUM_WQ
  BY HeadNotPending
<1>4. /\ Unreported >= 0 /\ InFlight >= 0 /\ Pending >= 0
      /\ Wrap(cq_tail + (Unreported + InFlight + Pending)) = wq_head
      /\ Wrap(local_wq_tail + Pending) = wq_head
  <2>1. Unreported >= 0 /\ InFlight >= 0 /\ Pending >= 0 /\ Pending < MAX_NUM_WQ
    BY <1>3, Cursors, RingAssumption DEF IInv, RingInv, CursorsInOrder
  <2>2. Wrap(local_wq_tail + Pending) = wq_head
    BY <2>1, Cursors, WrapFront DEF IInv, Pending
  <2>3. /\ Distance(cq_tail, cq_SR, wq_head, wq_SR) = Unreported + InFlight + Pending
        /\ Distance(cq_tail, cq_SR, wq_head, wq_SR) >= 0
    BY <2>1, Cursors, WholeStretch DEF IInv, RingInv
  <2>4. Wrap(cq_tail + Distance(cq_tail, cq_SR, wq_head, wq_SR)) = wq_head
    BY <1>3, <2>3, Cursors, WrapFront DEF IInv
  <2>5. QED
    BY <2>1, <2>2, <2>3, <2>4
<1>5. ASSUME NEW k \in 1 .. Pending PROVE Wrap(local_wq_tail + k - 1) \in Slots \ {wq_head}
  BY <1>3, <1>4, Cursors, RingAssumption DEF IInv, Slots, Wrap
<1>6. ASSUME NEW k \in 1 .. Unreported + InFlight
      PROVE  Wrap(cq_tail + k - 1) \in Slots \ {wq_head}
  BY <1>3, <1>4, Cursors, RingAssumption DEF IInv, Slots, Wrap
<1>7. \A k \in Slots \ {wq_head} : wq_q'[k] = wq_q[k]
  BY <1>1 DEF IInv, TypeOK
<1>8. PendingOps' = PendingOps /\ UnreportedOps' = UnreportedOps
  BY <1>1, <1>2, <1>5, <1>6, <1>7 DEF PendingOps, UnreportedOps, Ring
<1>9. QED
  BY <1>1, <1>8 DEF Abstract!vars, PendingOps, UnreportedOps

\* Consuming a completion reports the oldest operation: ConsumeCompletion.
LEMMA ConsumeReports ==
    ASSUME IInv, CompletionVisible, ConsumeCompletion
    PROVE  Abstract!Report
<1>1. Unreported >= 0 /\ Unreported <= MAX_NUM_WQ /\ InFlight >= 0
  BY Cursors, RingAssumption DEF IInv, RingInv, CursorsInOrder
<1>2. Unreported >= 1
  BY <1>1, Cursors, PhaseTest DEF IInv, RingInv, CompletionVisible, PhasesSplit, Unreported
<1>3. /\ cq_tail' = Advance(cq_tail) /\ cq_SR' = Phase(cq_tail, cq_SR)
      /\ UNCHANGED <<wq_q, wq_head, wq_SR, local_wq_tail, local_wq_SR, local_cq_head,
                     local_cq_SR, ctx, lbuf>>
  BY DEF ConsumeCompletion, rmcVars, memVars
<1>4. Unreported' = Unreported - 1 /\ InFlight' = InFlight /\ Pending' = Pending
  BY <1>2, <1>3, Cursors, DistanceShrinks DEF IInv, Unreported, InFlight, Pending
<1>5. Unreported + InFlight \in 1 .. MAX_NUM_WQ
  BY <1>1, <1>2, Cursors, AbstractState DEF IInv
<1>6. /\ Ring(cq_tail, Unreported + InFlight) # << >>
      /\ Tail(Ring(cq_tail, Unreported + InFlight))
            = Ring(Advance(cq_tail), Unreported + InFlight - 1)
  BY <1>5, Cursors, RingTail DEF IInv
<1>7. Unreported' + InFlight' = Unreported + InFlight - 1
  BY <1>4, Cursors DEF IInv
<1>8. UnreportedOps' = Tail(UnreportedOps) /\ PendingOps' = PendingOps
  BY <1>3, <1>4, <1>6, <1>7 DEF UnreportedOps, PendingOps, Ring
<1>9. QED
  BY <1>3, <1>6, <1>8 DEF Abstract!Report, UnreportedOps, PendingOps

\* The daemon executes the oldest posted operation: RmcExecute.
LEMMA ExecuteExecutes ==
    ASSUME IInv, IInv', RmcExecute
    PROVE  Abstract!Execute
<1> DEFINE e == wq_q[local_wq_tail]
           U == Unreported + InFlight
<1>1. /\ rmc = "poll"
      /\ wq_entry_SR[local_wq_tail] = local_wq_SR
      /\ local_wq_tail' = Advance(local_wq_tail)
      /\ local_wq_SR' = Phase(local_wq_tail, local_wq_SR)
      /\ UNCHANGED <<wq_q, wq_head, wq_SR, cq_tail, cq_SR, local_cq_head, local_cq_SR>>
  BY DEF RmcExecute, wqVars, cqVars
<1>2. InFlight = 0 /\ Pending >= 0 /\ Pending <= MAX_NUM_WQ
  BY <1>1, Cursors, RingAssumption DEF IInv, RingInv, CursorsInOrder
<1>3. Pending >= 1
  BY <1>1, <1>2, Cursors, PhaseTest DEF IInv, RingInv, PhasesSplit, Pending
<1>4. Unreported >= 0 /\ Unreported < MAX_NUM_WQ
  BY <1>2, <1>3, Cursors, RingAssumption DEF IInv, RingInv, CursorsInOrder
<1>5. Unreported' = Unreported /\ InFlight' = InFlight + 1 /\ Pending' = Pending - 1
  <2>1. InFlight < MAX_NUM_WQ
    BY <1>2, RingAssumption
  <2>2. QED
    BY <1>1, <1>3, <2>1, Cursors, DistanceGrows, DistanceShrinks
    DEF IInv, Unreported, InFlight, Pending
<1>6. /\ PendingOps # << >> /\ Head(PendingOps) = e
      /\ Tail(PendingOps) = Ring(Advance(local_wq_tail), Pending - 1)
  BY <1>2, <1>3, Cursors, RingTail DEF IInv, PendingOps
<1>7. PendingOps' = Tail(PendingOps)
  BY <1>1, <1>5, <1>6 DEF PendingOps, Ring
<1>8. Wrap(cq_tail + U) = local_wq_tail
  <2>1. local_cq_head = local_wq_tail
    BY <1>2, Cursors, RingAssumption DEF IInv, InFlight, Distance, Slots, Bits
  <2>2. U = Unreported
    BY <1>2, Cursors DEF IInv
  <2>3. QED
    BY <1>4, <2>1, <2>2, Cursors, WrapFront DEF IInv, Unreported
<1>9. UnreportedOps' = Append(UnreportedOps, e)
  <2>1. U \in 0 .. MAX_NUM_WQ - 1
    BY <1>2, <1>4, Cursors, RingAssumption DEF IInv
  <2>2. Ring(cq_tail, U + 1) = Append(Ring(cq_tail, U), e)
    BY <1>8, <2>1, Cursors, RingAppend DEF IInv
  <2>3. (Unreported + InFlight)' = U + 1
    BY <1>5, Cursors DEF IInv
  <2>4. QED
    BY <1>1, <2>2, <2>3 DEF UnreportedOps, Ring
<1>10. <<ctx, lbuf>>' = Perform(e, <<ctx, lbuf>>)
  BY DEF RmcExecute, Perform
<1>11. QED
  BY <1>6, <1>7, <1>9, <1>10 DEF Abstract!Execute, PendingOps, UnreportedOps

\* The rings start as empty queues.
LEMMA InitAbstract == Init => Abstract!Init
<1> SUFFICES ASSUME Init PROVE Abstract!Init
  OBVIOUS
<1>1. IInv /\ Pending = 0 /\ Unreported + InFlight = 0
  BY InitIInv DEF Init, Pending, Unreported, InFlight, Distance
<1>2. Ring(local_wq_tail, Pending) = << >> /\ Ring(cq_tail, Unreported + InFlight) = << >>
  BY <1>1, RingEmpty
<1>3. QED
  BY <1>1, <1>2 DEF Abstract!Init, IInv, TypeOK

\* Every step of the application or the daemon is a step of OneSided or none.
LEMMA NextAbstract == IInv /\ IInv' /\ [Next]_vars => [Abstract!Next]_(Abstract!vars)
<1> SUFFICES ASSUME IInv, IInv', [Next]_vars PROVE [Abstract!Next]_(Abstract!vars)
  OBVIOUS
<1> USE DEF wqVars, cqVars, rmcVars, appVars, memVars
<1>a. CallsInOrder /\ TypeOK
  BY DEF IInv, RingInv
<1>1. CASE kal_reg_lbuff \/ kal_reg_ctx
  <2>1. UNCHANGED <<wq_q, wq_head, wq_SR, local_wq_tail, local_wq_SR, cq_tail, cq_SR,
                    local_cq_head, local_cq_SR>>
    BY <1>1 DEF kal_reg_lbuff, kal_reg_ctx
  <2>2. Unreported + InFlight + Pending = 0
    BY <1>1, <1>a DEF kal_reg_lbuff, kal_reg_ctx, CallsInOrder, Registering
  <2>3. Pending = 0 /\ Unreported + InFlight = 0
    BY <2>2, Cursors DEF IInv, RingInv, CursorsInOrder
  <2>4. PendingOps = << >> /\ UnreportedOps = << >>
    BY <2>3, RingEmpty DEF PendingOps, UnreportedOps
  <2>5. UNCHANGED <<PendingOps, UnreportedOps>>
    BY <2>1 DEF PendingOps, UnreportedOps, Ring, Pending, Unreported, InFlight
  <2>6. <<ctx, lbuf>>' \in Contexts \X Buffers
    BY DEF IInv, TypeOK
  <2>7. Abstract!Setup
    BY <2>4, <2>5, <2>6 DEF Abstract!Setup, PendingOps, UnreportedOps
  <2>8. QED
    BY <2>7 DEF Abstract!Next
<1>2. CASE kal_reg_wq \/ kal_reg_cq
  BY <1>2, QuietStutters DEF kal_reg_wq, kal_reg_cq
<1>3. ASSUME NEW r \in Requests, CallSync(r) PROVE UNCHANGED Abstract!vars
  BY <1>3, QuietStutters DEF CallSync
<1>4. ASSUME NEW r \in Requests, CallAsync(r) PROVE UNCHANGED Abstract!vars
  BY <1>4, <1>a, FillStutters DEF CallAsync, CallsInOrder
<1>5. CASE rmc_check_cq \/ rmc_drain_cq \/ CheckNoMore \/ CheckHead \/ DrainReturn
  BY <1>5, QuietStutters DEF rmc_check_cq, rmc_drain_cq, CheckNoMore, CheckHead, DrainReturn
<1>6. CASE SyncFill
  BY <1>6, <1>a, FillStutters DEF SyncFill, CallsInOrder
<1>7. CASE SyncPublish \/ AsyncPublish
  BY <1>7, PublishPosts DEF SyncPublish, AsyncPublish, Filling, Abstract!Next
<1>8. CASE SyncReturn \/ CheckConsume \/ DrainConsume
  BY <1>8, ConsumeReports DEF SyncReturn, CheckConsume, DrainConsume, Abstract!Next
<1>9. CASE RmcExecute
  BY <1>9, ExecuteExecutes DEF Abstract!Next
<1>10. CASE RmcWriteTid
  BY <1>10, QuietStutters DEF RmcWriteTid
<1>11. CASE RmcPublish
  <2>1. /\ rmc = "publish" /\ rmc' = "poll"
        /\ local_cq_head' = Advance(local_cq_head)
        /\ local_cq_SR' = Phase(local_cq_head, local_cq_SR)
        /\ UNCHANGED <<wq_q, wq_head, wq_SR, local_wq_tail, local_wq_SR, cq_tail, cq_SR,
                       ctx, lbuf>>
    BY <1>11 DEF RmcPublish
  <2>2. InFlight = 1 /\ Unreported >= 0 /\ Unreported < MAX_NUM_WQ
    BY <2>1, Cursors, RingAssumption DEF IInv, RingInv, CursorsInOrder
  <2>3. Unreported' = Unreported + 1 /\ InFlight' = InFlight - 1 /\ Pending' = Pending
    BY <2>1, <2>2, Cursors, DistanceGrows, DistanceShrinks
    DEF IInv, Unreported, InFlight, Pending
  <2>4. (Unreported + InFlight)' = Unreported + InFlight
    BY <2>3, Cursors DEF IInv
  <2>5. UNCHANGED <<PendingOps, UnreportedOps>>
    BY <2>1, <2>3, <2>4 DEF PendingOps, UnreportedOps, Ring
  <2>6. QED
    BY <2>1, <2>5 DEF Abstract!vars, PendingOps, UnreportedOps
<1>12. CASE UNCHANGED vars
  BY <1>12, QuietStutters DEF vars
<1>13. QED
  BY <1>1, <1>2, <1>3, <1>4, <1>5, <1>6, <1>7, <1>8, <1>9, <1>10, <1>11, <1>12
  DEF Next, Register, Call, InCall, RmcNext, rmc_rread_sync, rmc_rwrite_sync,
      rmc_rread_async, rmc_rwrite_async

\* The rings implement OneSided: whatever the interleaving of libsonuma's stores
\* with the daemon's loop, operations are executed once each in the order posted
\* and reported once each in that order, at most MAX_NUM_WQ outstanding.
THEOREM RefinesOneSided == Spec => Abstract!Safety
<1>1. Spec => []IInv
  BY InitIInv, NextIInv, PTL DEF Spec
<1>2. QED
  BY <1>1, InitAbstract, NextAbstract, PTL DEF Spec, Abstract!Safety
=============================================================================

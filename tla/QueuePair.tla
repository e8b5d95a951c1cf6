---------------------------- MODULE QueuePair ----------------------------
(***************************************************************************)
(* One queue pair of sonuma-vm used for one-sided operations: a work queue *)
(* (WQ) and a completion queue (CQ), two rings in shared memory, between   *)
(* an application thread that calls the inline functions of libsonuma      *)
(* (sonuma.h) and the RMC daemon that polls the WQ (rmcd.cpp, main).       *)
(*                                                                         *)
(* Neither ring has a shared count.  Every entry carries a phase bit SR,   *)
(* each side keeps a cursor and the phase it expects, and flips the phase  *)
(* when its cursor wraps.  The application publishes a WQ entry by storing *)
(* its SR last; the RMC publishes a CQ entry in the same way.  A WQ entry  *)
(* may be reused when its valid bit, set by the application when it posts  *)
(* and cleared by the application when it sees the completion, is 0.       *)
(*                                                                         *)
(* The two processes interleave at the stores the other one reads: the     *)
(* entry's fields, its SR, the CQ entry's tid and its SR are separate      *)
(* steps.  Stores are seen in program order.  Memory is counted in words   *)
(* of 64 bytes, the smallest transfer; length 0 is any length below that.  *)
(***************************************************************************)
EXTENDS Integers, Sequences

CONSTANTS
    MAX_NUM_WQ,        \* entries of each ring
    node_cnt,          \* nodes of the global address space
    this_nid,          \* the node this queue pair belongs to
    CtxWords,          \* words of every node's context region
    BufWords,          \* words of the queue pair's local buffer
    RegZeroWords,      \* words of the own context kal_reg_ctx clears
    Values,            \* contents of a word
    InitCtx,           \* contents of the context regions at the start
    AppData,           \* what the application first stores in its buffer
    Requests,          \* the operations the application asks for
    SyncOnFullRing     \* may it call a synchronous function on a full ring?

Slots == 0 .. MAX_NUM_WQ - 1
Nodes == 0 .. node_cnt - 1

Contexts == [Nodes -> [0 .. CtxWords - 1 -> Values]]
Buffers == [0 .. BufWords - 1 -> Values]

\* The arguments of rmc_rread_* and rmc_rwrite_*.
RequestType ==
    [op : {"r", "w"}, buf_offset : Nat, nid : Nodes, offset : Nat, length : Nat]

\* if(length < 64) length = 64;
RoundUp(length) == IF length < 1 THEN 1 ELSE length

ASSUME RingAssumption ==
    /\ MAX_NUM_WQ \in 1 .. 255         \* head and tail are uint8_t
    /\ node_cnt \in Nat \ {0} /\ this_nid \in Nodes
    /\ CtxWords \in Nat /\ BufWords \in Nat /\ RegZeroWords \in Nat
    /\ SyncOnFullRing \in BOOLEAN

ASSUME MemoryAssumption ==
    /\ 0 \in Values
    /\ InitCtx \in Contexts
    /\ AppData \in Buffers

ASSUME RequestAssumption ==
    /\ Requests \subseteq RequestType
    /\ \A r \in Requests :
          /\ r.buf_offset + RoundUp(r.length) <= BufWords
          /\ r.offset + RoundUp(r.length) <= CtxWords

VARIABLES
    \* shared: the work queue
    wq_q,              \* fields of the entries
    wq_valid, wq_entry_SR,
    wq_head, wq_SR, wq_connected,
    \* shared: the completion queue
    cq_tid, cq_entry_SR,
    cq_tail, cq_SR, cq_connected,
    \* the daemon
    local_wq_tail, local_wq_SR, local_cq_head, local_cq_SR, compl_idx,
    rmc,               \* where the daemon is in its loop over this WQ
    \* the application
    app,               \* the call it is in, and where
    req,               \* the arguments of that call
    my_head,           \* the local variable wq_head of the call
    alone,             \* ghost: the call began with no operation outstanding
    \* memory
    ctx, lbuf

wqVars == <<wq_q, wq_valid, wq_entry_SR, wq_head, wq_SR, wq_connected>>
cqVars == <<cq_tid, cq_entry_SR, cq_tail, cq_SR, cq_connected>>
rmcVars == <<local_wq_tail, local_wq_SR, local_cq_head, local_cq_SR, compl_idx, rmc>>
appVars == <<app, req, my_head, alone>>
memVars == <<ctx, lbuf>>
vars == <<wqVars, cqVars, rmcVars, appVars, memVars>>

(***************************************************************************)
(* The wrap of a ring cursor and of the phase that goes with it.           *)
(***************************************************************************)
\* Mutants: a bound that is off by one; a phase that is never flipped.
AdvancePastEnd(i) == IF i + 1 > MAX_NUM_WQ THEN 0 ELSE i + 1
PhaseKept(i, sr) == sr

Advance(i) == IF i + 1 >= MAX_NUM_WQ THEN 0 ELSE i + 1
Phase(i, sr) == IF i + 1 >= MAX_NUM_WQ THEN 1 - sr ELSE sr

\* Mutant: the last word is not copied.
CopyShort(dst, doff, src, soff, n) ==
    [w \in DOMAIN dst |->
        IF w >= doff /\ w < doff + n - 1 THEN src[soff + (w - doff)] ELSE dst[w]]

\* memcpy(dst + doff, src + soff, n)
Copy(dst, doff, src, soff, n) ==
    [w \in DOMAIN dst |->
        IF w >= doff /\ w < doff + n THEN src[soff + (w - doff)] ELSE dst[w]]

\* memset(wq, 0, ...)
ZeroEntry == [op |-> "none", buf_offset |-> 0, nid |-> 0, offset |-> 0, length |-> 0]

\* The fields a call stores in its entry.
Entry(r) == [r EXCEPT !.length = RoundUp(r.length)]

Entries == {Entry(r) : r \in Requests}

\* The switch on curr->op: what the operation does to the memories.
Perform(e, m) ==
    <<IF e.op = "w"
      THEN [m[1] EXCEPT ![e.nid] = Copy(m[1][e.nid], e.offset, m[2], e.buf_offset, e.length)]
      ELSE m[1],
      IF e.op = "r"
      THEN Copy(m[2], e.buf_offset, m[1][e.nid], e.offset, e.length)
      ELSE m[2]>>

(***************************************************************************)
(* alloc_wq, alloc_cq, local_buf_alloc and the daemon's own cursors.       *)
(***************************************************************************)
Init ==
    /\ wq_q = [i \in Slots |-> ZeroEntry]
    /\ wq_valid = [i \in Slots |-> 0]
    /\ wq_entry_SR = [i \in Slots |-> 0]
    /\ wq_head = 0 /\ wq_SR = 1 /\ wq_connected = FALSE
    /\ cq_tid = [i \in Slots |-> 0]
    /\ cq_entry_SR = [i \in Slots |-> 0]
    /\ cq_tail = 0 /\ cq_SR = 1 /\ cq_connected = FALSE
    /\ local_wq_tail = 0 /\ local_wq_SR = 1
    /\ local_cq_head = 0 /\ local_cq_SR = 1
    /\ compl_idx = 0 /\ rmc = "poll"
    /\ app = "start" /\ req = ZeroEntry /\ my_head = 0 /\ alone = TRUE
    /\ ctx = InitCtx
    /\ lbuf = [w \in 0 .. BufWords - 1 |-> 0]

(***************************************************************************)
(* Registration, in the order of every program of sample_code.             *)
(***************************************************************************)
kal_reg_lbuff ==
    /\ app = "start"
    /\ app' = "reg_ctx"
    /\ lbuf' = AppData             \* the buffer is mapped, the program fills it
    /\ UNCHANGED <<wqVars, cqVars, rmcVars, req, my_head, alone, ctx>>

\* memset(*ctx_ptr, 0, num_pages) clears num_pages bytes, not pages.
kal_reg_ctx ==
    /\ app = "reg_ctx"
    /\ app' = "reg_wq"
    /\ ctx' = [ctx EXCEPT ![this_nid] =
                  [w \in 0 .. CtxWords - 1 |->
                      IF w < RegZeroWords THEN 0 ELSE ctx[this_nid][w]]]
    /\ UNCHANGED <<wqVars, cqVars, rmcVars, req, my_head, alone, lbuf>>

kal_reg_wq ==
    /\ app = "reg_wq"
    /\ app' = "reg_cq"
    /\ wq_connected' = TRUE
    /\ UNCHANGED <<wq_q, wq_valid, wq_entry_SR, wq_head, wq_SR>>
    /\ UNCHANGED <<cqVars, rmcVars, req, my_head, alone, memVars>>

kal_reg_cq ==
    /\ app = "reg_cq"
    /\ app' = "idle"
    /\ cq_connected' = TRUE
    /\ UNCHANGED <<cq_tid, cq_entry_SR, cq_tail, cq_SR>>
    /\ UNCHANGED <<wqVars, rmcVars, req, my_head, alone, memVars>>

(***************************************************************************)
(* The application.  Between calls it is "idle", or "checked" when the     *)
(* last call was rmc_check_cq.                                             *)
(***************************************************************************)
BetweenCalls == app \in {"idle", "checked"}

\* The stores to the fields of the entry at wq_head and to its valid bit.
FillEntry(r) ==
    /\ wq_q' = [wq_q EXCEPT ![my_head'] = Entry(r)]
    /\ wq_valid' = [wq_valid EXCEPT ![my_head'] = 1]
    /\ UNCHANGED <<wq_entry_SR, wq_head, wq_SR, wq_connected, cqVars, rmcVars, memVars>>

\* The entry's SR is stored; then the head moves.
PublishEntry ==
    /\ wq_entry_SR' = [wq_entry_SR EXCEPT ![my_head] = wq_SR]
    /\ wq_head' = Advance(wq_head)
    /\ wq_SR' = Phase(wq_head, wq_SR)
    /\ UNCHANGED <<wq_q, wq_valid, wq_connected, cqVars, rmcVars, memVars>>

\* Mutant: the test compares with the first phase instead of the current one.
CompletionVisibleFirstPhase == cq_entry_SR[cq_tail] = 1

CompletionVisible == cq_entry_SR[cq_tail] = cq_SR

\* Mutant: the entry is not marked free.
ConsumeKeepValid ==
    /\ cq_tail' = Advance(cq_tail)
    /\ cq_SR' = Phase(cq_tail, cq_SR)
    /\ UNCHANGED <<wqVars, cq_tid, cq_entry_SR, cq_connected, rmcVars, memVars>>

\* The entry named by the completion is marked free; the CQ tail moves.
ConsumeCompletion ==
    /\ wq_valid' = [wq_valid EXCEPT ![cq_tid[cq_tail]] = 0]
    /\ cq_tail' = Advance(cq_tail)
    /\ cq_SR' = Phase(cq_tail, cq_SR)
    /\ UNCHANGED <<wq_q, wq_entry_SR, wq_head, wq_SR, wq_connected>>
    /\ UNCHANGED <<cq_tid, cq_entry_SR, cq_connected, rmcVars, memVars>>

\* The common beginning of the two synchronous calls.  Nothing but the caller
\* itself could free the head entry of a full ring, so a program that wants
\* the call to return does not make it then.
CallSync(r) ==
    /\ BetweenCalls
    /\ SyncOnFullRing \/ wq_valid[wq_head] = 0
    /\ app' = "spin"
    /\ req' = r
    /\ my_head' = wq_head
    /\ alone' = (\A i \in Slots : wq_valid[i] = 0)
    /\ UNCHANGED <<wqVars, cqVars, rmcVars, memVars>>

rmc_rread_sync(r) == r.op = "r" /\ CallSync(r)
rmc_rwrite_sync(r) == r.op = "w" /\ CallSync(r)

\* while (wq->q[wq_head].valid) {} has ended.
SyncFill ==
    /\ app = "spin"
    /\ wq_valid[my_head] = 0
    /\ app' = "sync_publish"
    /\ UNCHANGED <<req, my_head, alone>>
    /\ FillEntry(req)

SyncPublish ==
    /\ app = "sync_publish"
    /\ app' = "wait"
    /\ UNCHANGED <<req, my_head, alone>>
    /\ PublishEntry

\* while (cq->q[cq_tail].SR != cq->SR) {} has ended: the call returns.
SyncReturn ==
    /\ app = "wait"
    /\ CompletionVisible
    /\ app' = "idle"
    /\ UNCHANGED <<req, my_head, alone>>
    /\ ConsumeCompletion

\* The asynchronous calls do not look at the valid bit of the entry they
\* overwrite; the application has called rmc_check_cq just before.
CallAsync(r) ==
    /\ app = "checked"
    /\ app' = "async_publish"
    /\ req' = r
    /\ my_head' = wq_head
    /\ UNCHANGED alone
    /\ FillEntry(r)

rmc_rread_async(r) == r.op = "r" /\ CallAsync(r)
rmc_rwrite_async(r) == r.op = "w" /\ CallAsync(r)

AsyncPublish ==
    /\ app = "async_publish"
    /\ app' = "idle"
    /\ UNCHANGED <<req, my_head, alone>>
    /\ PublishEntry

rmc_check_cq ==
    /\ BetweenCalls
    /\ app' = "check"
    /\ my_head' = wq_head
    /\ UNCHANGED <<req, alone, wqVars, cqVars, rmcVars, memVars>>

\* One turn of the inner loop of rmc_check_cq; the handler counts.
CheckConsume ==
    /\ app = "check"
    /\ CompletionVisible
    /\ UNCHANGED appVars
    /\ ConsumeCompletion

CheckNoMore ==
    /\ app = "check"
    /\ ~CompletionVisible
    /\ app' = "check_head"
    /\ UNCHANGED <<req, my_head, alone, wqVars, cqVars, rmcVars, memVars>>

\* Mutant: the outer loop is left without a look at the head.
CheckHeadOnce ==
    /\ app = "check_head"
    /\ app' = "checked"
    /\ UNCHANGED <<req, my_head, alone, wqVars, cqVars, rmcVars, memVars>>

\* The condition of the outer loop.
CheckHead ==
    /\ app = "check_head"
    /\ app' = IF wq_valid[my_head] = 1 THEN "check" ELSE "checked"
    /\ UNCHANGED <<req, my_head, alone, wqVars, cqVars, rmcVars, memVars>>

rmc_drain_cq ==
    /\ BetweenCalls
    /\ app' = "drain"
    /\ UNCHANGED <<req, my_head, alone, wqVars, cqVars, rmcVars, memVars>>

DrainConsume ==
    /\ app = "drain"
    /\ CompletionVisible
    /\ UNCHANGED appVars
    /\ ConsumeCompletion

DrainReturn ==
    /\ app = "drain"
    /\ ~CompletionVisible
    /\ app' = "idle"
    /\ UNCHANGED <<req, my_head, alone, wqVars, cqVars, rmcVars, memVars>>

(***************************************************************************)
(* The daemon's loop over this queue pair.                                 *)
(***************************************************************************)

\* The poll succeeds, the operation is executed, the local tail moves.
RmcExecute ==
    /\ rmc = "poll"
    /\ wq_connected
    /\ wq_entry_SR[local_wq_tail] = local_wq_SR
    /\ wq_q[local_wq_tail].op \in {"r", "w"}
    /\ LET m == Perform(wq_q[local_wq_tail], <<ctx, lbuf>>)
       IN ctx' = m[1] /\ lbuf' = m[2]
    /\ compl_idx' = local_wq_tail
    /\ local_wq_tail' = Advance(local_wq_tail)
    /\ local_wq_SR' = Phase(local_wq_tail, local_wq_SR)
    /\ rmc' = "tid"
    /\ UNCHANGED <<wqVars, cqVars, local_cq_head, local_cq_SR, appVars>>

RmcWriteTid ==
    /\ rmc = "tid"
    /\ rmc' = "publish"
    /\ cq_tid' = [cq_tid EXCEPT ![local_cq_head] = compl_idx]
    /\ UNCHANGED <<cq_entry_SR, cq_tail, cq_SR, cq_connected, wqVars>>
    /\ UNCHANGED <<local_wq_tail, local_wq_SR, local_cq_head, local_cq_SR, compl_idx>>
    /\ UNCHANGED <<appVars, memVars>>

RmcPublish ==
    /\ rmc = "publish"
    /\ rmc' = "poll"
    /\ cq_entry_SR' = [cq_entry_SR EXCEPT ![local_cq_head] = local_cq_SR]
    /\ local_cq_head' = Advance(local_cq_head)
    /\ local_cq_SR' = Phase(local_cq_head, local_cq_SR)
    /\ UNCHANGED <<cq_tid, cq_tail, cq_SR, cq_connected, wqVars>>
    /\ UNCHANGED <<local_wq_tail, local_wq_SR, compl_idx, appVars, memVars>>

RmcNext == RmcExecute \/ RmcWriteTid \/ RmcPublish

Register == kal_reg_lbuff \/ kal_reg_ctx \/ kal_reg_wq \/ kal_reg_cq

\* The application chooses what to call next, if anything ...
Call ==
    \/ \E r \in Requests :
          \/ rmc_rread_sync(r) \/ rmc_rwrite_sync(r)
          \/ rmc_rread_async(r) \/ rmc_rwrite_async(r)
    \/ rmc_check_cq
    \/ rmc_drain_cq

\* ... and runs the call it is in.
InCall ==
    \/ SyncFill \/ SyncPublish \/ SyncReturn
    \/ AsyncPublish
    \/ CheckConsume \/ CheckNoMore \/ CheckHead
    \/ DrainConsume \/ DrainReturn

Next == Register \/ Call \/ InCall \/ RmcNext

\* The daemon spins on its rings, and so does a library call: both run as
\* long as their threads are scheduled.  The application need not call.
Spec == Init /\ [][Next]_vars /\ WF_vars(RmcNext) /\ WF_vars(InCall)

-----------------------------------------------------------------------------
(***************************************************************************)
(* Properties.                                                             *)
(***************************************************************************)
AppStates ==
    {"start", "reg_ctx", "reg_wq", "reg_cq", "idle", "checked", "spin",
     "sync_publish", "wait", "async_publish", "check", "check_head", "drain"}

\* Every variable keeps the type its declaration in RMCdefines.h and rmcd.cpp
\* gives it: indices stay inside the rings, phases are bits, and memcpy
\* leaves every word of both memories defined.
TypeOK ==
    /\ wq_q \in [Slots -> Entries \union {ZeroEntry}]
    /\ wq_valid \in [Slots -> {0, 1}]
    /\ wq_entry_SR \in [Slots -> {0, 1}]
    /\ wq_head \in Slots /\ wq_SR \in {0, 1} /\ wq_connected \in BOOLEAN
    /\ cq_tid \in [Slots -> Slots]
    /\ cq_entry_SR \in [Slots -> {0, 1}]
    /\ cq_tail \in Slots /\ cq_SR \in {0, 1} /\ cq_connected \in BOOLEAN
    /\ local_wq_tail \in Slots /\ local_wq_SR \in {0, 1}
    /\ local_cq_head \in Slots /\ local_cq_SR \in {0, 1}
    /\ compl_idx \in Slots /\ rmc \in {"poll", "tid", "publish"}
    /\ app \in AppStates
    /\ req \in Requests \union {ZeroEntry}
    /\ my_head \in Slots /\ alone \in BOOLEAN
    /\ ctx \in Contexts /\ lbuf \in Buffers

\* How far the cursor <<j, t>> is ahead of the cursor <<i, s>>.
Distance(i, s, j, t) == IF s = t THEN j - i ELSE j + MAX_NUM_WQ - i

\* Slot k lies in the stretch from cursor <<i, s>> up to cursor <<j, t>>.
Between(k, i, s, j, t) == IF s = t THEN i <= k /\ k < j ELSE i <= k \/ k < j

Unreported == Distance(cq_tail, cq_SR, local_cq_head, local_cq_SR)
InFlight == Distance(local_cq_head, local_cq_SR, local_wq_tail, local_wq_SR)
Pending == Distance(local_wq_tail, local_wq_SR, wq_head, wq_SR)

\* The four cursors are in order, application's CQ tail first and WQ head
\* last, and together span no more than the ring: no side laps another.
CursorsInOrder ==
    /\ Unreported >= 0 /\ InFlight >= 0 /\ Pending >= 0
    /\ Unreported + InFlight + Pending <= MAX_NUM_WQ
    /\ InFlight = IF rmc = "poll" THEN 0 ELSE 1

\* The SR bits split each ring at its producer's cursor: entries before it
\* carry the current phase, the others the previous one.
PhasesSplit ==
    \A k \in Slots :
        /\ wq_entry_SR[k] = IF k < wq_head THEN wq_SR ELSE 1 - wq_SR
        /\ cq_entry_SR[k] = IF k < local_cq_head THEN local_cq_SR ELSE 1 - local_cq_SR

Filling == app \in {"sync_publish", "async_publish"}

\* The valid bits are set exactly at the entries that are posted, or being
\* posted, and not yet reported.
ValidExact ==
    /\ \A k \in Slots :
          wq_valid[k] = 1 <=>
              \/ Between(k, cq_tail, cq_SR, wq_head, wq_SR)
              \/ Filling /\ k = wq_head
    /\ Filling => Unreported + InFlight + Pending < MAX_NUM_WQ

\* Completions name their own WQ slot: the i-th completion is for the i-th
\* posted entry.
CompletionsInOrder ==
    /\ \A k \in Slots :
          Between(k, cq_tail, cq_SR, local_cq_head, local_cq_SR) => cq_tid[k] = k
    /\ rmc # "poll" => compl_idx = local_cq_head
    /\ rmc = "publish" => cq_tid[local_cq_head] = local_cq_head

Registering == app \in {"start", "reg_ctx", "reg_wq", "reg_cq"}

\* A call's cached head is the head; an asynchronous call finds a free entry;
\* what has been posted is a read or a write.
CallsInOrder ==
    /\ app \in {"spin", "sync_publish", "async_publish", "check", "check_head", "checked"}
          => my_head = wq_head
    /\ app = "checked" => wq_valid[wq_head] = 0
    /\ app \in {"spin", "sync_publish", "async_publish", "wait"} => req \in Requests
    /\ Filling => wq_q[wq_head] = Entry(req)
    /\ Registering => Unreported + InFlight + Pending = 0
    /\ app \notin {"start", "reg_ctx", "reg_wq"} => wq_connected
    /\ \A k \in Slots :
          Between(k, local_wq_tail, local_wq_SR, wq_head, wq_SR) => wq_q[k] \in Entries

\* The protocol of the two rings (rmc_*_sync, rmc_*_async, rmc_check_cq,
\* rmc_drain_cq against the daemon's loop): with no shared count, the phase
\* bits alone keep the four cursors in order, an entry is never taken for
\* free while its operation is outstanding, and completions match entries.
RingInv ==
    /\ CursorsInOrder
    /\ PhasesSplit
    /\ ValidExact
    /\ CompletionsInOrder
    /\ CallsInOrder

\* A WQ entry that is posted and not yet executed is not overwritten, although
\* rmc_rread_async and rmc_rwrite_async store to the head without a test.
NoClobber ==
    [][\A k \in Slots :
          Between(k, local_wq_tail, local_wq_SR, wq_head, wq_SR) => wq_q'[k] = wq_q[k]]_vars

\* A synchronous call that began with nothing outstanding ends its wait on the
\* completion of its own entry, and a synchronous read then finds in the
\* local buffer the words of the remote context it asked for.
SyncCompletesItself ==
    app = "wait" /\ alone /\ CompletionVisible =>
        /\ cq_tid[cq_tail] = my_head
        /\ req.op = "r" =>
              \A w \in 0 .. RoundUp(req.length) - 1 :
                  lbuf[req.buf_offset + w] = ctx[req.nid][req.offset + w]

\* "wait for a completion of the entry" (rmc_rread_sync, rmc_rwrite_sync): the
\* wait of a synchronous call ends with the completion of its own entry.
SyncWaitsForItsEntry ==
    app = "wait" /\ CompletionVisible => cq_tid[cq_tail] = my_head

\* Every library call returns: rmc_check_cq finds a free head, rmc_drain_cq
\* runs dry, a synchronous call whose head entry is free gets a completion.
CallsReturn ==
    /\ app \in {"check", "check_head"} ~> app = "checked"
    /\ app = "drain" ~> app = "idle"
    /\ app = "async_publish" ~> app = "idle"
    /\ app = "spin" /\ wq_valid[my_head] = 0 ~> app = "idle"

\* "wait for WQ head to be ready" (rmc_rread_sync, rmc_rwrite_sync): the head
\* entry becomes ready and the synchronous call goes on to post.
SyncHeadBecomesReady == app = "spin" ~> app = "sync_publish"

\* The operations the rings hold, oldest first.
Wrap(n) == IF n < MAX_NUM_WQ THEN n ELSE n - MAX_NUM_WQ
Ring(i, n) == [k \in 1 .. n |-> wq_q[Wrap(i + k - 1)]]

Abstract ==
    INSTANCE OneSided WITH
        Capacity <- MAX_NUM_WQ,
        Ops <- Entries,
        Apply <- Perform,
        Mem0 <- Contexts \X Buffers,
        pending <- Ring(local_wq_tail, Pending),
        unreported <- Ring(cq_tail, Unreported + InFlight),
        mem <- <<ctx, lbuf>>

\* The two rings implement a queue of operations: executed once each, in the
\* order posted, reported once each in that order, and every one executed.
ImplementsOneSided == Abstract!Spec
=========================================================================

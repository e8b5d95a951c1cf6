# Formal models of sonuma-vm and Grappa

The repository holds course work around two systems:

* **sonuma-vm** (`src/Projects/final-project/sonuma-vm/`): soNUMA emulated in
  software. Applications post remote reads, writes and messages to rings in
  shared memory; a daemon on every node plays the remote memory controller (RMC).
* **Grappa** (`src/grappa/system/`): a runtime for distributed shared memory with
  cooperative tasks, work stealing and message aggregation.

The rest is notes, recorded gem5 output, three patched Linux files, Grappa
applications and vendored code. `src/Projects/final-project/grappa` is a second
copy of Grappa.

This directory holds TLA+ models of the parts where the two systems are hard to
test, the TLC configurations that check them, and TLAPS proofs. `PROJECT.json`
lists components, runs, mutants, findings, hazards and theorems, and maps each
definition to the lines it models.

## Inventory

### sonuma-vm

| part | state | operations | talks to |
|---|---|---|---|
| queue pair (`libsonuma/sonuma.h`, `RMCdefines.h`) | WQ and CQ rings with phase bits, head or tail and phase, `valid` bits | `rmc_rread_sync/async`, `rmc_rwrite_sync/async`, `rmc_check_cq`, `rmc_drain_cq`, `kal_reg_*` | the daemon, through shared memory without locks |
| daemon loop (`softrmc_daemon/rmcd.cpp`, `main`) | its own cursor and phase for every ring, context regions, local buffers | serves WQ entries, then sockets | applications, other daemons |
| RPC (`sonuma_daemon.cpp`, `rmcd.cpp`, `son_msg.*`) | shared receive queue (SRQ), receive slots, `rpcs_per_core`, sockets | `rmc_send`, `rmc_recv`, `rmc_poll_cq_rpc`; requests, responses, NACKs, dispatch to a core | sockets between daemons |
| bootstrap (`ctx_alloc_grant_map`, `ctx_map`) | socket table, grant references | accept or connect, exchange of references, mapping | driver, other daemons |
| driver (`softrmc_driver`) | region list, grant tables, `current_entry` | `ioctl`, `mmap`, grant, map, clean-up | daemon, Xen |

What is hard: each ring is shared by two processes with no lock and no shared
count; synchronous calls, asynchronous calls and the daemon interleave at single
stores; receive slots are handed from the SRQ to a CQ, a thread, a WQ and back
in any order by several threads; queues fill; assertions turn a local mistake
into a dead daemon, and dead daemons take their peers with them.

Correct means: no entry is lost, served twice or overwritten; completions belong
to the operations they name; a receive slot has one holder; a call gets its own
answer; what is started ends.

### Grappa

| part | state | operations | talks to |
|---|---|---|---|
| global completion event (`GlobalCompletionEvent.hpp`) | a count per core, `cores_out` on the master, waiters, merged completions | `enroll`, `complete`, `send_completion`, `wait`, reset | messages through the aggregator |
| local synchronisation (`CompletionEvent`, `ConditionVariableLocal`, `Mutex`, `ReuseList`, `ReusePool` on `CountingSemaphoreLocal`, `FullEmptyLocal`, `FullEmpty`) | wait lists of workers and suspended delegates, counters, flags | lock, pop and push, read and write, wait and complete, also from other cores | the scheduler of a core |
| tasks (`tasks/`) | private queue, public queue that is stolen from, workers, `stealLock`, `numVictimSegments` | spawn, pop, steal, idle, terminate | messages between cores |
| caches and delegates | address, count and pointer of a cache, acquirer, releaser, reply counts | acquire, release, reset, call | messages to the home cores |
| communication (`RDMAAggregator`, `Communicator`) | per-destination lists, buffers | enqueue, flush, deliver | MPI |

What is hard: messages are reordered (the aggregator's lists are last in first
out), a task is suspended in the middle of an operation while other tasks of its
core use the same object, payloads are read after the call that sends them has
returned, wait lists are last in first out and let others barge in, and
termination must be detected while work migrates.

Correct means: every task is run once; every completion is counted once and the
waiters of a loop are woken when it is over; nobody sleeps on a condition that
holds; a cached range is the memory it stands for, and a release reaches it.

## Modules

| module | models |
|---|---|
| `OneSided` | abstract: what a queue pair promises, a FIFO of operations |
| `QueuePair` | one queue pair: library calls against the daemon |
| `QueuePairProofs` | theorems about `QueuePair` |
| `QueuePairRefinement` | proof that `QueuePair` implements the safety part of `OneSided` |
| `Rpc` | remote procedure calls between several daemons and threads |
| `Bootstrap` | the daemons and their drivers building the global address space |
| `GlobalCompletion` | Grappa's completion event under a parallel loop |
| `WorkStealing` | Grappa's task managers, steal queues and workers |
| `LocalSync` | Grappa's synchronisation objects on one core, with remote callers |
| `Cache` | Grappa's incoherent caches: acquire, release, reset |
| `BootstrapProofs`, `WorkStealingProofs`, `LocalSyncProofs`, `CacheProofs`, `RpcProofs`, `GlobalCompletionProofs` | theorems about these modules |
| `MCQueuePair`, `MCRpc`, `MCBootstrap`, `MCGlobalCompletion`, `MCWorkStealing`, `MCLocalSync`, `MCCache` | instances for TLC |

A definition whose comment begins with "Mutant" or "As if" is a deliberately
wrong variant of the definition after it. It is used to show that the properties notice the
mistake, and is no part of the model.

### QueuePair

The application is one thread; `app` says which call it is in and where. The
daemon is one thread; `rmc` says where it is in its loop over this WQ. Shared
memory is `wq_*` and `cq_*`. The two interleave at the stores the other one
reads: the entry's fields with its `valid` bit, the entry's `SR`, the CQ entry's
`tid`, its `SR`. Stores are seen in program order; whether the compiler keeps
plain stores before volatile ones is outside the model.

| action | code |
|---|---|
| `kal_reg_lbuff`, `kal_reg_ctx`, `kal_reg_wq`, `kal_reg_cq` | the functions of `sonuma_daemon.cpp` |
| `rmc_rread_sync`, `rmc_rwrite_sync`, `SyncFill`, `SyncPublish`, `SyncReturn` | call; spin on `valid` and fill; store `SR` and move the head; wait and consume |
| `rmc_rread_async`, `rmc_rwrite_async`, `AsyncPublish` | the same without the two waits |
| `rmc_check_cq`, `CheckConsume`, `CheckNoMore`, `CheckHead` | consume completions until the cached head is free |
| `rmc_drain_cq`, `DrainConsume`, `DrainReturn` | consume until the ring is empty |
| `RmcExecute`, `RmcWriteTid`, `RmcPublish` | the daemon's loop body for `r` and `w` |

Memory is counted in words of 64 bytes, the smallest transfer: a length of 0
stands for any length below 64, which the code rounds up. As in the sample
programs an asynchronous call follows `rmc_check_cq`. `SyncOnFullRing` says
whether a synchronous call may be made on a ring whose entries are all
outstanding.

### Rpc

State per queue pair: rings as above with the daemon's cursors (`wq_pos`,
`cq_pos`), and a thread, whose place also says how far it has registered its
queues (`WqConnected`, `CqConnected`). State per node: SRQ, receive slots, occupancy, whether
the daemon lives. `net[m][n]` is the socket from m to n, reliable and FIFO while
both ends live. Clients send, poll, give the slot back (`rpc_sync.cpp`); servers
poll, give the slot back and send the response.

| action | code |
|---|---|
| `kal_reg_wq`, `kal_reg_cq` | the registration of a thread's queues, `connected` |
| `rmc_send_request`, `rmc_send_response`, `rmc_send_late` | `rmc_send`; its stores before and after the one of `SR` |
| `rmc_recv`, `rmc_recv_late` | `rmc_recv`, likewise |
| `rmc_poll_cq_rpc` | the wait and the consumption of a completion, NACK or not |
| `RmcSend`, `RmcRecv` | the daemon's cases `s` and `g` |
| `RecvResponse`, `RecvRequest`, `RecvRequestFull`, `RecvAck`, `RecvNack` | the branches of the socket loop |
| `PeerClosed` | `recv` returns 0 and the assertion on the header fails |

`RaceWindow` says whether the daemon may act between the store of `SR` and the
later stores of the same call. `Registered` names the threads that have
registered their queues before the first message, as the order in which the
README of sonuma-vm starts programs would have it for a server; any other may do
so at any time, or never. `TestsNack` says what a client does with a refused
call: `rmc_poll_cq_rpc` tells it by `is_nack`, and a client that tests it gives
the call up, for it has no slot to give back. The sample client (`rpc_sync.cpp`,
55-59 and 210-213) does not test it and calls `rmc_recv` after every poll; this is
`TestsNack = FALSE`. `DEBUG_RMC` says whether the daemon is a debugging build,
whose assertions on the occupancies are compiled in. Message identities and lengths are left out:
the daemon copies them and decides nothing by them. A whole message is received
at once; short reads are not modelled.

The ghost `mishap` becomes true when a daemon meets a case it does not handle
(an entry given back while the SRQ is full, an answer that lands on a CQ entry
with a stale `is_nack`, a NACK to a client that does not test for one).
Properties that say `~mishap =>` are about the behaviour up to then; the run
`rpc_full` is about the first case, and `MCRpcNackClient.cfg` about the last.

The assertions of the daemon that these cases can reach are in the actions, and
`up` becomes false where one fails: 226 and 913 in `RmcRecv` (the entry given
back is in use), 215 and 1140 in `RecvRequest` (the entry at `dispatch_slot` is
in use), 1094 in `RecvResponse` (there is room), 1068, 1144 and 1218 (the CQ is
connected) in `RecvResponse`, `RecvRequest` and `RecvNack`, 1008 in `PeerClosed`,
and in a debugging build 112 in `RmcRecv` and 120 in `RecvRequest` (the
occupancies stay within 0 and `REQ_THRESHOLD`). `NoAbort` and `AssertionsHold`
speak of all of them. Left out are the tests of a pointer for null, those of
`srq_slot >= 0` (1045, 1111), which hold by the test for a full SRQ before them,
and 1198 of a debugging build, on a field that the daemon always sends as 0.

### GlobalCompletion

A user task enrolls one task per core and starts them (`forall`, or the
recurring loop of `CompletionEvent_tests.cpp`; `recurring` chooses). Each
decomposes its share into tasks that any core may run, completes and waits. A
bystander calls `wait` without having enrolled. What a task does between two
blocking calls is one step, and so is a message handler: a core has one thread.
The network is a bag, because the aggregator reorders.

| action | code |
|---|---|
| `StartPhase`, `LoopReturns` | `enroll(cores())` or `enroll_recurring`, `on_all_cores` |
| `Spawn` | `loop_decomposition`: `enroll`, then `spawn` |
| `HandleIncrement`, `ReturnFromCall`, `HandleInProgress`, `HandleAck` | the blocking parts of `enroll` |
| `Finish`, `mark_sent`, `HandleComplete` | `send_completion` with its merging, and the completion at its target |
| `HandleEnter`, `HandleReset`, `HandleResetDone`, `HandleWake` | the four nested handlers of `complete` |
| `CompleteAndWait`, `BystanderWaits`, `HandleQuery`, `ReturnFromQuery` | `wait` with its conservative check |

`fatal` records a failed `CHECK`, which ends the program. A message and the
`mark_sent` that follows it are one step, as for a destination on another
locale. `flatten_completions` is on, the default.

### WorkStealing

Every core has a task manager (`stack`, `bottom`, `top`, `privateQ`,
`stealLock`, `nextVictimIndex`) and workers, each with the place where it is.
A core has at most one steal under way (`steal`): a request, a reply that points
into the victim's array, the data once it has been serialised, the result. A
step is what a worker does up to the next call that may switch, or one handler.
A task spawns other tasks, yielding or blocking after each, and ends; task 1 is
`user_main`, which waits for the others before it ends the job.

| action | code |
|---|---|
| `ConsumePrivate`, `ConsumePublic` | `getWork` up to `tryConsumeLocal` |
| `steal_locally`, `StealRequest`, `StealReply`, `StealFailed` | `checkPull` with the nested handlers of `steal_locally` |
| `serialize_to`, `mark_sent` | the reply is copied out of the array; the victim is told |
| `thread_idle`, `Quit` | `waitConsumeAny`; `workerLoop` after `workDone` |
| `spawnPublic`, `spawnLocalPrivate`, `Grappa_remote_privateTask`, `spawnRemotePrivate` | the ways to spawn |
| `Return`, `Resume`, `WaitForAll`, `AllCompleted` | tasks |
| `Grappa_end_tasks`, `signal_termination` | the end of the job |

`fatal` records a failed `CHECK`. The suspension while the request leaves
(`block_until_sent`) is merged with the wait for the result. Two details of the
scheduling are simpler than the code. A worker that finds the job done leaves at
once (`Quit`), where `waitConsumeAny` (`Task.cpp:392`) suspends it once more
before `workerLoop` tests `workDone`. And `nextCoroutine` has a worker to start
whenever one is left: the bound `max_allowed_active_workers`
(`TaskingScheduler.hpp:218`) is left out, which at its default never holds a
worker back.

### LocalSync

One core: `current_thread`, `readyQ`, and five objects with their wait lists
(`waiters_`, head first). A worker that is woken inside a blocking call is at
the test of its loop again. Tasks of other cores (`Remotes`) call `readFF` and
`writeXF` on a `FullEmpty`, or `delegate::call` under a `Mutex`; their handlers
run when no worker does, and may leave a suspended delegate in a wait list, which
a `broadcast` or `signal` runs on the spot. `Programs` says which objects a
program uses together; a program that combined them all could block itself by
its own doing.

| action | code |
|---|---|
| `Dispatch`, `thread_yield`, `Exit` | the scheduler |
| `lock`, `trylock`, `unlock` | `Mutex.hpp` |
| `with_message`, `mark_sent` | `ReuseMessageList` on `ReuseList` |
| `block_until_pop`, `try_pop`, `push` | `ReusePool` on `CountingSemaphore` |
| `accessFE` (four calls), `writeXF`, `reset` | `FullEmptyLocal.hpp` |
| `ceWait`, `enroll`, `complete` | `CompletionEvent.hpp` |
| `RemoteCall`, `HandleReadFF`, `HandleWriteXF`, `HandleMutexCall`, `RemoteReturn` | `FullEmpty.hpp`, `Delegate.hpp`, `DelegateBase.hpp` |

`FuncLocks` says what the function of a call under a mutex does: lock and unlock
it, as the comment of `delegate::call` and its users intend, or leave it alone.

### Bootstrap

Every node has a daemon (`stage`, the loop index `i`, `srv_idx`, `fd`,
`desc_gref`), a listener (`pending`), a driver (`rdomh`) and a grant table. A
socket is named by the node at its other end.

| action | code |
|---|---|
| `Listen` | `ctx_alloc_grant_map` up to `listen`, `MR_ALLOC` |
| `accept`, `recv_nid`, `connect`, `Skip` | the two branches of its loop |
| `getref` | `GETREF` with `create_mr_reference` and its outcomes |
| `send_ref`, `recv_ref` | the exchange, with `PUTREF` |
| `map` | a turn of `ctx_map`: `RMAP`, `mmap`, `mr_map` |

`Refusals` says where the hypervisor may refuse a grant: the root page ("no
root"), the first page of one of the two loops ("no first"; the clean-up loop
then does not come back), or a later one ("no later"; the first page stays
granted). `InOrder` says whether daemons reach a listener in the order of their
numbers. `Garbage` stands for pages mapped through a page that is no descriptor.

### Cache

A task of core 0 has a cache of one of the three kinds on a range. Memory is
`mem`, indexed by linear or by core-and-offset addresses; `storage` is the memory
of core 0 from the cache's own buffer on, and `pointer_` says where the task reads
and writes. The buffer is the first `allocated` bytes of `storage`: as many as the
constructor's count needs (`CacheAllocator`), and a reset does not change it. What
lies behind it belongs to others, who may write there at any time (`OthersWrite`).
`MayGrow` says whether a reset may be to a range that needs more than that.
`intended` is the memory as the task's writes want it. Payloads are not copied
when a message is queued; here they are read at the latest moment, when the
message is handled.

| action | code |
|---|---|
| `start_acquire`, `block_until_acquired`, `acquire_reply` | `IncoherentAcquirer` |
| `start_release`, `block_until_released`, `release_reply` | `IncoherentReleaser` |
| `Handle` | the request at the home core |
| `reset`, `FinishReset`, `Destroy` | `Cache.hpp` |
| `Resume`, `Write` | the task |
| `OthersWrite` | the owners of the memory behind the buffer |

The task is free of data races: it writes what it has acquired (or all of a
write-only range), once per session, and releases it afterwards.

## Runs

| run | instance | shows |
|---|---|---|
| `qp` | 2 nodes, ring of 2, three requests whose effects do not commute | rings keep their protocol, nothing is overwritten, calls return, `QueuePair` implements `OneSided` |
| `rpc` | 2 nodes, 2 clients, 1 server, SRQ of 3, one request per core | slots and occupancy exact, every call traced and answered with its own result, no abort; the server is registered, clients register when they like |
| `rpc_nack` | SRQ of 1, clients that test `is_nack` | refused calls are told so once, and nobody aborts |
| `rpc_full` | as `rpc` | violated: an assertion fails after an entry of a full SRQ is given back |
| `rpc_race` | as `rpc`, with the window | violated: the daemon gives back a slot whose completion has not been polled |
| `boot` | 3 nodes, in order, up to 2 grants refused | references are exchanged between the right nodes, the right memory is mapped, all daemons come up |
| `boot_order` | 3 nodes in any order | violated: a daemon waits for ever on a socket it never opened |
| `gce` | 2 cores, 2 spawned tasks at a time, shares of 1 and 2 | every completion counted once, `cores_out` exact, no `CHECK` fails, nobody woken early, the loop ends |
| `steal` | 2 cores, 6 tasks, one of them bound | every task is in one place and is run, replies are counted, one thief per core |
| `sync` | 3 workers, 2 remote callers, 4 programs | one place per worker and delegate, one holder per resource, no lost wake-up, calls return |
| `sync_func` | as `sync`, the function leaves the mutex alone | violated: a worker waits for a free mutex and nobody will wake it |
| `cache` | 2 cores, blocks of 4 bytes, elements of 3, 2 resets, none to more elements than the constructor's | as many replies as expected, copy and memory right, nothing written behind the buffer, calls return |

The violated properties quote what the code's comments or assertions say; the
findings in `PROJECT.json` give the lines.

### Properties that fail and are not among the runs

These are stated in the modules, or are a property of a run under other
constants. TLC refutes each within a minute; the two hangs
(`SyncHeadBecomesReady`, `LoopWoken`) it reports as a deadlock. They are the
reason for the restrictions of the passing runs. Four of them have a
configuration of their own, which the table names with what differs from a run.

| property | constants | what happens |
|---|---|---|
| `QueuePair!SyncWaitsForItsEntry` | as `qp` | a synchronous call takes another operation's completion for its own |
| `QueuePair!SyncHeadBecomesReady` | `SyncOnFullRing = TRUE` | a synchronous call on a ring full of its own operations spins for ever |
| `Rpc!EntryArrives` | as `rpc` | a request that found all cores busy is dispatched only when another one comes |
| `Rpc!AssertionsHold`, `NoAbort` | `MCRpcDebug.cfg`: a debugging build, rings of 2, `REQ_THRESHOLD = 1` | `get_avail_core` admits a core whose occupancy equals the threshold (`<=`, `rmcd.cpp:101`), and the increment fails `occupancy <= REQ_THRESHOLD` (`rmcd.cpp:120`) |
| `Rpc!AssertionsHold`, `NoAbort` | `MCRpcEarly.cfg`: the server registers at any time | `get_avail_core` chooses among all cores; a request is dispatched to one whose CQ is not connected, and `assert(cq->connected)` fails (`rmcd.cpp:1144`) |
| `Rpc!AssertionsHold` | `MCRpcNackClient.cfg`: as `rpc_nack`, `TestsNack = FALSE` | the client of `rpc_sync.cpp` gives a slot back after a NACK, when it has none, and its daemon aborts (`rmcd.cpp:226` or 913) |
| `GlobalCompletion!LoopWoken` | `Dec = 2` | a merged completion counts 1 whatever its `dec`; the loop hangs |
| `GlobalCompletion!BystanderWoken` | nothing spawned | `wait` acts on a stale answer of the master and misses the wake-up |
| `WorkStealing!PushFindsRoom` | `StackSize = 4`, `FirstTasks = 2`, one bound task, one spawner | `push` overflows an array that is mostly free, for space is reclaimed only when stealing |
| `Bootstrap!SpaceRight` | `Refusals` with "no later" | the page that the clean-up spares keeps a reference; a stale number names it, and it is mapped as a descriptor |
| `Cache!HomeRight` | `ResetRanges` with an object of core 0 | `reset` leaves `pointer_` at the object; the next range is read into it |
| `Cache!BufferKept` | `MCCacheGrow.cfg`: as `cache`, `MayGrow = TRUE` | `reset` keeps the buffer that the constructor allocated (`Cache.hpp:66-68`); after one to more elements the replies (`IncoherentAcquirer.hpp:266`) and the task's writes go beyond its end |

The sample server of `rpc_service.cpp` gives the receive slot back before it
copies from it (line 178); the server of `Rpc` copies first. `kal_reg_ctx`
clears `num_pages` bytes, not pages (`sonuma_daemon.cpp:145`), which `QueuePair`
keeps and no property depends on.

### Bounds

* Ring of two (`qp`): wraps, fills and empties; both phases and both slots occur
  in every combination of the four cursors. The proofs cover every size up to
  255.
* Rpc rings hold one entry, so every operation wraps; an SRQ of three can be
  full, empty, wrapped and given back out of order by two threads of a node.
  `CallIds` of two tells an answer from a stale answer of the same client.
  `REQ_THRESHOLD` of 0 admits one request per core, so that two requests make a
  backlog. `rpc` has 209,000 states, `rpc_nack` 35,000. The server of `rpc`
  has registered, the clients register at any time. The instances keep clients and servers on different nodes; the
  hazards list what a node that does both would meet.
* Three nodes (`boot`, 12,000 states): node 0 accepts two connections, node 1
  connects and accepts, node 2 connects twice. The stale value of `desc_gref`
  may be a reference of another exchange or none. The safety properties also
  hold when the daemons start in any order (14,000 states); coming up does not,
  which is what `boot_order` shows.
* Two cores (`gce`) give a master and another core, hence local and remote
  completions, stolen tasks, merging, and both orders of an entry and a cancel.
  Core 1's share decomposes twice, so a stolen task enrolls on the core that
  stole it. The safety properties have also been run with three cores and a
  share of one each (2.3 million states) without an error.
* Two cores (`steal`, 118,000 states), one worker each and one more for
  `user_main`; three tasks at first and up to two more spawned by two of them.
  An array of 7 never overflows with 6 tasks in all, wraps to its start by
  reclaiming, and is refilled while a reply still points into it. Chunks of 2
  differ from half of the queue in both directions. With three cores and four
  tasks the safety properties hold as well (1.4 million states).
* `sync` (235,000 states): three workers make a waiter, a holder and one that
  barges in; two delegates can be in a list at once, before and behind a worker.
  Two messages and two buffers tell "one given back" from "all given back".
  A program makes 4 to 7 calls.
* `cache` (39,000 states): with blocks of 4 and elements of 3 every position of
  a range relative to the block boundaries occurs, from one message to three. Two
  resets let a reply of one session meet the next; they are among a range in three
  blocks, two of one message or two, and an object of another core, so the new range
  needs as much as the buffer has, or less; `MCCacheGrow.cfg` goes the other way.

Deadlock is checked in `qp`, `gce` and `steal`. It is not in the `rpc` runs (a
daemon that has aborted, or a client whose request is in the backlog, may stop
the system), nor in `boot` (the daemons have come up), `sync` (the program has
ended, or readers wait for a value that nobody writes) and `cache` (the cache is
destroyed).

### Fairness

* `QueuePair`: weak fairness of the daemon's loop and of a library call under
  way. Both are spinning threads of their own processes. The application need
  not call.
* `Rpc`: weak fairness of every thread inside a call, of every queue pair's
  service and of every socket. The loop visits all queue pairs and all sockets
  in turn. It stays with a queue pair while that has entries, which one thread
  cannot keep up for ever here, since it waits for its answers.
* `GlobalCompletion`: weak fairness of every kind of message delivery and of the
  tasks of the loop: the scheduler's ready queue is first come first served and
  its polling task flushes the aggregator. Starting a loop, spawning and the
  bystander are free.
* `WorkStealing`: weak fairness of every worker's steps other than spawning, of
  every core's steal and of remote spawns: the ready queue is first in first out
  and the polling thread is periodic. `mark_sent` and `signal_termination` are
  not needed for what is claimed and are free.
* `LocalSync`: weak fairness of the scheduler, of the running worker, of every
  message and of the handlers. The number of calls is bounded, so a worker that
  runs comes to its end; nothing makes a remote task call.
* `Bootstrap`: weak fairness of every daemon, which is a process of its own
  whose blocking calls return when they can.
* `Cache`: weak fairness of delivery, of a woken task and of the rest of a
  `reset` or destructor. The task need not go on otherwise.

## Proofs

Every theorem holds for all values of the constants that satisfy the named
assumptions of the model it is about, which TLC evaluates in the runs. A proof
has one lemma per action (or per kind of store) and combines them in a lemma
that a step preserves the inductive invariant. Inductive invariants were checked
by TLC before they were proved.

### QueuePairProofs and QueuePairRefinement

For every ring size up to 255 (the width of the cursors), every number of nodes,
every memory and every set of requests that fit:

* `TypeCorrect`: `Spec => []TypeOK`;
* `RingProtocol`: `Spec => []RingInv`;
* `EntriesKept`: `Spec => NoClobber`;
* `SyncAlone`: `Spec => []SyncCompletesItself`;
* `RefinesOneSided`: `Spec => Abstract!Safety`, the safety part of
  `ImplementsOneSided`.

Assumptions: `RingAssumption`, `MemoryAssumption` and `RequestAssumption`.

The inductive invariant is `IInv`, the conjunction of `TypeOK` and `RingInv`.
`RingInv` has five parts that need each other. `CursorsInOrder` orders the four
cursors as distances that the phases define, so that each side can tell "new"
from "old" by one bit. `PhasesSplit` says where the bits in the rings change;
with it a phase test is a comparison of cursors (lemma `PhaseTest`).
`ValidExact` ties the `valid` bits to the stretch from the CQ tail to the WQ
head; it needs `CompletionsInOrder` (the i-th completion names the i-th entry),
for the application clears the bit of the entry the completion names.
`CallsInOrder` says that a cached head is still the head and that an
asynchronous call after `rmc_check_cq` finds it free; `NoClobber` follows from
that. The lemmas about `Distance` and `Between` are the arithmetic of a cursor
that moves by one; each kind of store then has one lemma, and `NextIInv` maps
the actions to them.

The refinement maps the operations posted and not executed to the stretch of the
ring from the daemon's tail to the WQ head, the ones executed and not reported
to the stretch before it. Storing an entry's SR posts, `RmcExecute` executes,
consuming a completion reports; every other step is a stutter. The lemmas say
what a cursor that moves by one does to the sequence a stretch stands for.

### WorkStealingProofs

For every number of cores, workers and tasks, every size of the array and of a
chunk, and every permutation of the neighbors:

* `TypeCorrect`: `Spec => []TypeOK`;
* `RepliesCounted`: `Spec => []SegmentsCovered`;
* `StealsExclusive`: `Spec => []OneThief`;
* `TasksOnce`: `Spec => []EachTaskOnce`.

The first three rest on `Shape` (theorem `ShapeInvariant`), which adds to the
types and to `SegmentsCovered`: what is reserved for a reply lies below the
bottom of the victim's queue, and a serialised reply carries as many tasks as
were reserved (`ReplyOK`); no slot between the cursors is empty (`SlotsOK`); a
worker has a task exactly while it runs one or waits in one (`WorkerOK`);
`OneThief`, without cardinalities (`LockOK`). `EachTaskOnce` rests on
`Once` (theorem `OnceInvariant`): a task is in one place of one kind, and one
not spawned yet is nowhere. `reclaimSpace` moves the queue over slots that a
reply may point into; it keeps `Once` because `SegmentsCovered` makes it wait.

### BootstrapProofs

For every number of nodes, every number of pages and every order of steps:

* `TypeCorrect`: `Spec => []TypeOK`;
* `ReferencesPaired`: `Spec => []RefsPaired`;
* `AddressSpaceRight`: `Spec => []SpaceRight`, when no grant of a later page is
  refused (`CleanedUp`): what the clean-up then spares keeps a reference that a
  stale number may name (see the table of limits above).

The inductive invariant (theorem `BootstrapInvariant`) says how far each pair of
daemons has come: where a daemon is in its loop (`IndexOK`), whose sockets it has
(`SocketsOK`), who waits to be accepted (`PendingOK`), what is on the wire in each
direction (`WireOK`), what the driver has recorded (`RecordOK`) and what it is to
send (`ToSendOK`). It does not assume an order: a node may accept a connection of
another node than the one its loop has come to, and the invariant says that it then
uses a socket that has not been set and gets no further.

### LocalSyncProofs

For every finite set of workers and every set of remote tasks, every number of
messages and buffers, every program:

* `TypeCorrect`: `Spec => []TypeOK`;
* `ObjectsExclusive`: `Spec => []Exclusive`;
* `QueuedOnce`: `Spec => []OnePlace`;
* `WakeupsHold`: nobody sleeps on a condition that holds unless a wake-up is under
  way, for each object; for the mutex if `FuncLocks`;
* `WakeupsNeverLost`: `Spec => []NoLostWakeup` if `FuncLocks`, that is, if the
  function of a remote call under a mutex locks and unlocks it. The run
  `sync_func` shows that it is needed.

The inductive invariant (theorem `SyncInvariant`) has a part for the scheduler
(`QueuesOK`: nobody is in two queues, who is in a call is somewhere) and a part
for each object. A step does one of few things to the queues (nothing, one
leaves, comes, waits, is woken, all are woken), each of which has a lemma, and
each object's own state changes in few ways; `Effects` combines the two. The
broadcast computes by recursion on a queue; what it returns is proved by
induction over the natural numbers, which follows from the well-foundedness of
`<` in the form "a set that has 0 and the successor of each of its elements".

### CacheProofs

For every size of a block and of an element, every memory, every set of ranges
and any number of resets:

* `MessagesCounted`: `Spec => []MessagesExact`;
* `TypeCorrect`, `AcquiresRight`, `ReleasesRight`, `BufferCorrect`: `TypeOK`,
  `AcquiredRight`, `HomeRight` and `BufferKept` hold always, if resets are from and
  to ranges that have elements, are not objects of this core and need no more than
  the buffer of the constructor (`ResetsFit`). Where a reset comes from an object of
  this core `HomeRight` fails, and where one needs more than the buffer `BufferKept`
  does (see the table of limits above): the copy then lies where others write.
  No run checks `TypeOK`; what could go wrong in it, a reply too many, is in
  `MessagesExact`, and `BufferKept` says more of the storage.

The first part is arithmetic: the k-th turn of the loop stands at the beginning
of the k-th block (`Turn`, `TurnBlock`), which is what the recursion of `Offsets`
computes (`OffsetsAre`, by the least number for which it would not); so there
are as many offsets as `NumMessages` says (`CountOffsets`) and every byte of the
range is asked for (`Covered`). The control part of the invariant (theorem
`ControlInvariant`) says that replies counted and messages under way make up the
number of messages, that no two messages of a side have the same offset, and
what has to be over before what begins. The data part (`DataInvariant`) says
where each byte of the range is: on its way to the storage or there; then on its
way home or there; `BufferOK`, that no range needs more than the buffer, keeps these
bytes apart from those of others. It rests on the control part: that a late reply cannot
overwrite what the task wrote, for instance, is that none is left when the
acquire is done.

### RpcProofs

For every number of nodes, clients, servers, ring and SRQ entries:

* `TypeCorrect`: `Spec => []TypeOK`, in every deployment, with `RaceWindow` and in a
  debugging build too;
* `OccupancyCorrect`: `Spec => []OccupancyExact`, if `Deployment`;
* `ServerCompletionsKept`: what `CompletionsKept` says, for the queue pairs of
  servers, if `Deployment`;
* `SrqCorrect`: `Spec => []SrqExact`, if `Deployment` and `Setup`;
* `CallsCorrect`: `Spec => []CallsAnswered`, likewise;
* `AbortFree`: `Spec => []NoAbort`, likewise;
* `RoomKept`: every step up to the first mishap leaves the completions of callers
  and cores alone that have not been polled; `CompletionsCorrect`:
  `Spec /\ []~mishap => CompletionsKept`; likewise.

`Deployment` is three conditions. No node both calls and serves: the daemon looks
for a core among all queue pairs of its node, so a client there would be given
requests, and its responses would be counted as nothing. The daemon does not see
a call half written: a response whose `send_qp_terminate` is not yet stored would
go out as a request, and a slot would be given back without relieving its core.
And `REQ_THRESHOLD` is below `MAX_NUM_WQ`, as in the code. `Setup` adds that
every client calls a node that serves (a request to another one would wait in its
SRQ forever, or be taken for a response), that the threads that serve are registered
at the start, and that the build is a release build; without either `NoAbort` fails
(see the table of limits above). Clients may register at any time and may test `is_nack`
or not; without the test a NACK is a mishap. `OccupancyCorrect` and
`ServerCompletionsKept` need none of this.

The inductive invariant `Inv` says, for a server's WQ, where the phase bits change and
which entries are valid (`WqMarks`), and that what the daemon has still to serve
has its late stores (`WqContents`); the same for its CQ (`CqInv`). The occupancy
is needed to keep the CQ's part: the daemon does not look at the CQ's tail, and
only because an unread completion is counted does a core below the threshold have
room. Requests, wherever they are, name a client (`MessageOK`, `RequestsOK`,
`ThreadInv`), so that no response and no NACK reaches a server. Nothing is assumed of
the SRQ: the theorem holds also where it overflows, loses entries or aborts a daemon.

The last five also rest on `~mishap => Calm`. The properties they state speak of the
whole program, and none of them is inductive: that an entry has one holder needs that
the completion that names it is new, that a call has one trace needs that the entry
which holds its request is not given to two cores, and that no assertion fails needs
both. `Calm` says, as long as no daemon has met a case it does not handle:

* `RingsOK`, `EntriesOK`: the phase bits of every ring, of callers too, tell what is to
  be read, and what waits in a WQ is the request of the present call of its client, or
  the response to one;
* `ThreadOK`, `CompletionsOK`, `PayloadOK`: the same of what a thread has copied out, of
  what a completion names and of what is under way;
* `SlotOK`: an SRQ entry in use is between tail and head. It is between the dispatch slot
  and the head, and holds the request of a client that waits, or it has one holder of one
  of three kinds;
* `CallOK`: a client that polls has one trace of its call in one of six places, one that
  does not has none anywhere.

Each action moves a trace or a holder from one place to another. There is a lemma for
what a step does to a ring (`TodoGrows`, `FreshShrinks`, ...), to a channel
(`FlyingTaken`: the places of the messages behind the first move up) and to the SRQ
(`EnqueueEffect`, `DispatchEffect`, `ResetEffect`), and two that say that what is moved is
still the only one (`TraceMoves`, `HolderMoves`). A client's CQ has room because a client
waits for one answer, which is the message now taken (`ReplyRoom`).

The hard step is `RecvRequest`, where the entry that goes to a core need not be the one
of the request that has come. It is one of those that wait, so its payload is that of a
present call (`DispatchEffect`, `QueuedAfter`). If no core has room the dispatch slot
stays while the head goes on, and would come to look as if nothing waited if the entries
that wait took up the whole SRQ. They cannot (`BusyCores`): a core above the threshold has
at least one request in service, whose entry is in use and does not wait. This is
where the exact occupancy is needed, which `Inv` provides.

`Calm` was also checked by TLC on the instance of the run `rpc`, and there with rings of
two entries and a threshold of 1 (2.7 million states).

### GlobalCompletionProofs

For every number of cores, every finite set of names of tasks, every share of the
cores and any number of loops or rounds, with completions in any order, if `Dec = 1`:

* `TypeCorrect`: `Spec => []TypeOK`;
* `CountCorrect`: `Spec => []CountExact`;
* `CoresOutCorrect`: `Spec => []CoresOutExact`;
* `ChecksCorrect`: `Spec => []ChecksHold`;
* `PhasesCorrect`: `Spec => []PhasesApart`.

`Dec = 1` is the default of `send_completion`'s argument and what every task of a
loop passes. It is needed: a completion merged into a queued message counts 1
whatever its argument is (see the table of limits above).

The inductive invariant `Inv` has a part for every state (`Base`: types, where each
kind of task may be, where it may wait, of which phase it is) and one for each
stage the event goes through: `Resting`; `Starting`, while the user task enrolls;
`AtWork`; `Resetting`; and `Waking`, where the loop does not recur (one that does
is at work again while its tasks are being woken). Each stage says which messages
may be under way, so an action that receives another kind of message does not
happen in it. There is a lemma for each action.

The hard part is `AtWork`: the entry that takes `cores_out` to 0 must find every
count 0 and no call under way. `Counted` and `Reported`, which are `CountExact`
and `CoresOutExact` in that stage, do not say so: `cores_out` would also be 0 if
as many increments were under way as there are cores with work. `Ordered` excludes
it. A task that calls the master has itself still to complete to some core, which
therefore has work; and in every set of such tasks there is one that completes to
a core on which none of the set is calling. So while a task is active there are
more cores with work than increments under way (`Ahead`). A new call keeps
`Ordered` because its core had no work, so that nobody owed a completion to it.

The sums of the properties are defined by recursion on sets. They are reasoned
about as cardinalities (`Total`: a sum of naturals is the number of pairs
`<<x, i>>` with `i` in `1 .. g[x]`), and `IterTotal` shows that the recursion
computes the same.

### Only model-checked

All liveness (also the fairness part of `ImplementsOneSided`), which is out of the
prover's reach. `CompletionsKept` holds in the run `rpc` also after a mishap, which the
theorem leaves open for callers: `ServerCompletionsKept` covers cores at all times.
Everything else the passing runs check is proved, under the conditions named above.

## Not modelled

* sonuma-vm: the wire format (packing of fields, no state), short reads of a
  socket and failed sends to a live peer; `rmc_test_cq_rpc`; restart of an
  application on old rings, for which the code has no provision.
* Driver and bootstrap: `RUNMAP` and `mr_unmap`, which nothing calls;
  `rmc_exit`; `destroy_mr_reference`, whose grants are not ended in the
  build as it is configured; several daemons of a node; a second start with an
  old `servers.txt`.
* `LocalSync`: decrements of a semaphore by more than one and its 16-bit count,
  `ReusePool::try_push`, `CompletionEvent::reset` and its `wait` with a
  delegate, `ReuseMessageList::finish`, the order in which delegates that one
  broadcast runs send their replies.
* `WorkStealing`: work sharing and the global queue, whose code is commented
  out or switched off; creation of workers after the start.
* `Cache`: several tasks on one cache (`thread_` holds one worker), the
  destructor of a read-write cache that never acquired, which writes back
  storage that was never filled, and racing tasks, which the code excludes.
* The rest of Grappa: communication below messages, taken as a reliable
  unordered transport; `FlatCombiner`, asynchronous delegates and futures;
  global containers, allocators, collectives beyond what `GlobalCompletion`
  uses; statistics and tracing; the applications. These and the vendored code
  are most of the repository's lines.

## Plan

What the passing runs check is proved up to liveness. Next would be:

1. `Rpc`: the callers' part of `CompletionsKept` after a mishap. `Calm` ends there:
   an SRQ entry that is lost may be given to another message while its holder
   still refers to it. What has to survive is only that a caller is sent at most
   one answer per call.
2. `Grappa`: `FlatCombiner` and the asynchronous delegates, whose wake-ups use the
   objects of `LocalSync`.

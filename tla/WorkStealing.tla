-------------------------- MODULE WorkStealing --------------------------
(***************************************************************************)
(* Grappa's tasks: the TaskManager of every core (tasks/Task.cpp), its     *)
(* public queue, from which other cores steal (tasks/StealQueue.hpp), and  *)
(* the workers that look for tasks and run them (TaskingScheduler).        *)
(*                                                                         *)
(* A public queue is an array that is not circular: tasks are pushed and   *)
(* popped at top, a thief's request takes half of them at bottom.  The     *)
(* reply is sent without a copy: it points into the victim's array until   *)
(* the communication layer serialises it.  numVictimSegments counts such   *)
(* replies, and while it is not 0 the array is not reused from the start.  *)
(*                                                                         *)
(* Workers are cooperative: what one does between two calls that may       *)
(* switch (yield, suspend, idle) is a step, and so is a message handler,   *)
(* run by the core's polling thread.  Messages are not lost and are        *)
(* delivered in any order.  Load balancing is "steal" (doSteal).           *)
(***************************************************************************)
EXTENDS Integers, Sequences, FiniteSets

CONSTANTS
    NumCores,       \* cores(), which is also numLocalNodes
    NumWorkers,     \* FLAGS_num_starting_workers
    StackSize,      \* steal_queue_size
    ChunkSize,      \* FLAGS_chunk_size
    MaxTasks,       \* bound: tasks spawned in a run, user_main among them
    BoundTasks,     \* the tasks spawned as private ones (TaskMode::Bound)
    Spawners,       \* the tasks that may spawn others
    FirstTasks,     \* how many public tasks user_main spawns before it first yields
    neighbors       \* the permutation of the cores that thieves go through

Cores == 0 .. NumCores - 1
Tasks == 1 .. MaxTasks
user_main == 1

ASSUME WorkStealingAssumption ==
    /\ NumCores \in Nat \ {0} /\ NumWorkers \in Nat \ {0}
    /\ StackSize \in Nat /\ ChunkSize \in Nat \ {0}
    /\ MaxTasks \in Nat \ {0} /\ BoundTasks \subseteq Tasks /\ Spawners \subseteq Tasks
    /\ user_main \in BoundTasks
    /\ FirstTasks \in 0 .. MaxTasks - 1 /\ FirstTasks <= StackSize
    /\ neighbors \in [Cores -> Cores]
    /\ \A c, d \in Cores : neighbors[c] = neighbors[d] => c = d

\* Core 0 has one worker more, for user_main.
Workers == {w \in Cores \X (1 .. NumWorkers + 1) : w[2] <= NumWorkers \/ w[1] = 0}
Core(w) == w[1]
WorkersOf(c) == {w \in Workers : Core(w) = c}

NoTask == 0

VARIABLES
    stack,              \* [Cores -> [0 .. StackSize - 1 -> Tasks or NoTask]]
    bottom, top,        \* [Cores -> 0 .. StackSize]
    numVictimSegments,  \* [Cores -> Nat]
    unmarked,           \* [Cores -> Nat]: replies serialised, mark_sent not yet run
    privateQ,           \* [Cores -> Seq(Tasks)]
    stealLock,          \* [Cores -> BOOLEAN]: nobody of the core is stealing
    nextVictimIndex,    \* [Cores -> Cores]
    workDone,           \* [Cores -> BOOLEAN]
    worker,             \* [Workers -> state of the worker]
    steal,              \* [Cores -> the steal the core has under way]
    remote,             \* spawns under way to another core: <<task, core>>
    spawned,            \* the tasks 1 .. spawned exist
    done,               \* the tasks that have been executed
    ending,             \* user_main has called Grappa_end_tasks
    fatal               \* the CHECK that has failed: "none", "push", "reply"

queue == <<stack, bottom, top>>
manager == <<privateQ, stealLock, nextVictimIndex>>
network == <<numVictimSegments, unmarked, steal, remote>>
ghost == <<spawned, done, ending, workDone>>
vars == <<queue, manager, network, ghost, worker, fatal>>

\* No steal under way.  st: "none", "request", then "queued" and "sent" (tasks
\* come) or "failed", then "full" (result is written).  lo and amt are the
\* segment of the victim's array, data what was serialised of it.
NoSteal == [st |-> "none", victim |-> 0, lo |-> 0, amt |-> 0, data |-> <<>>]

\* Core 0 has taken user_main off its private queue, and the task has just
\* spawned the first tasks.
Init ==
    /\ stack = [c \in Cores |-> [i \in 0 .. StackSize - 1 |->
                  IF c = 0 /\ i < FirstTasks THEN i + 2 ELSE NoTask]]
    /\ bottom = [c \in Cores |-> 0]
    /\ top = [c \in Cores |-> IF c = 0 THEN FirstTasks ELSE 0]
    /\ numVictimSegments = [c \in Cores |-> 0]
    /\ unmarked = [c \in Cores |-> 0]
    /\ privateQ = [c \in Cores |-> <<>>]
    /\ stealLock = [c \in Cores |-> TRUE]
    /\ nextVictimIndex = [c \in Cores |-> 0]
    /\ workDone = [c \in Cores |-> FALSE]
    /\ worker = [w \in Workers |->
                   [pc |-> IF w = <<0, 1>> THEN "run" ELSE "idle",
                    task |-> IF w = <<0, 1>> THEN user_main ELSE NoTask, tryCount |-> 0]]
    /\ steal = [c \in Cores |-> NoSteal]
    /\ remote = {}
    /\ spawned = 1 + FirstTasks /\ done = {} /\ ending = FALSE
    /\ fatal = "none"

depth(c) == top[c] - bottom[c]
publicHasEle(c) == depth(c) > 0
privateHasEle(c) == privateQ[c] # <<>>
local_available(c) == privateHasEle(c) \/ publicHasEle(c)
available(c) == local_available(c) \/ stealLock[c]

(***************************************************************************)
(* The scheduler: workers that can go on come before idle ones, which are  *)
(* woken only if there may be work.  A failed CHECK stops everything.      *)
(***************************************************************************)
Ready(w) ==
    \/ worker[w].pc \in {"find", "run", "end"}
    \/ (worker[w].pc = "steal" /\ steal[Core(w)].st = "full")

nextCoroutine(w) ==
    /\ fatal = "none"
    /\ \/ Ready(w)
       \/ /\ worker[w].pc = "idle"
          /\ \A v \in WorkersOf(Core(w)) : ~Ready(v)
          /\ available(Core(w))

Becomes(w, pc, t) == worker' = [worker EXCEPT ![w] = [pc |-> pc, task |-> t, tryCount |-> 0]]

(***************************************************************************)
(* StealQueue                                                              *)
(***************************************************************************)
\* Mutant: replies that point into the array are not looked for.
MayReclaimAlways(c) == depth(c) = 0

\* The queue of core c with its space reclaimed, if the code would: nothing in
\* it and, in the callers, no reply that still points into it.
MayReclaim(c) == numVictimSegments[c] = 0 /\ depth(c) = 0
Reclaimed(cursor, c) == IF MayReclaim(c) THEN [cursor EXCEPT ![c] = 0] ELSE cursor

\* Push task t on the public queue of core c.
push(c, t) ==
    IF top[c] < StackSize
    THEN /\ stack' = [stack EXCEPT ![c][top[c]] = t]
         /\ top' = [top EXCEPT ![c] = @ + 1]
         /\ UNCHANGED <<bottom, fatal>>
    ELSE /\ fatal' = "push"
         /\ UNCHANGED queue

\* Mutant: a thief may leave its victim with nothing.
StealAmountAll(v) == IF depth(v) < ChunkSize THEN depth(v) ELSE ChunkSize

\* What a thief gets of core v: half of what is there, at most a chunk.
StealAmount(v) == IF depth(v) \div 2 < ChunkSize THEN depth(v) \div 2 ELSE ChunkSize

\* The victim gives up the amt tasks at the bottom of its queue.
Reserve(v, amt) == bottom' = [bottom EXCEPT ![v] = @ + amt]

\* Mutant: the reply is not counted.
ClaimNothing(v) == UNCHANGED numVictimSegments

\* The reply counts as long as it has not been sent.
Claim(v) == numVictimSegments' = [numVictimSegments EXCEPT ![v] = @ + 1]

\* The victim's handler of a request of core c.
StealRequest(c) ==
    LET v == steal[c].victim
        amt == StealAmount(v)
    IN /\ fatal = "none" /\ steal[c].st = "request"
       /\ IF amt > 0
          THEN /\ Reserve(v, amt)
               /\ Claim(v)
               /\ steal' = [steal EXCEPT ![c].st = "queued", ![c].lo = bottom[v],
                                         ![c].amt = amt]
          ELSE /\ steal' = [steal EXCEPT ![c].st = "failed"]
               /\ UNCHANGED <<bottom, numVictimSegments>>
       /\ UNCHANGED <<stack, top, unmarked, remote, manager, ghost, worker, fatal>>

\* The communication layer copies the reply's payload out of the array ...
serialize_to(c) ==
    LET s == steal[c]
    IN /\ fatal = "none" /\ s.st = "queued"
       /\ steal' = [steal EXCEPT ![c].st = "sent",
                      ![c].data = [i \in 1 .. s.amt |-> stack[s.victim][s.lo + i - 1]]]
       /\ unmarked' = [unmarked EXCEPT ![s.victim] = @ + 1]
       /\ UNCHANGED <<numVictimSegments, remote, queue, manager, ghost, worker, fatal>>

\* ... and some time later tells the victim that it has.
mark_sent(v) ==
    /\ fatal = "none" /\ unmarked[v] > 0
    /\ unmarked' = [unmarked EXCEPT ![v] = @ - 1]
    /\ numVictimSegments' = [numVictimSegments EXCEPT ![v] = @ - 1]
    /\ UNCHANGED <<steal, remote, queue, manager, ghost, worker, fatal>>

\* The thief's handler of a reply with tasks.
StealReply(c) ==
    LET s == steal[c]
        t == Reclaimed(top, c)[c]
    IN /\ fatal = "none" /\ s.st = "sent"
       /\ IF t + s.amt < StackSize
          THEN /\ stack' = [stack EXCEPT ![c] = [i \in 0 .. StackSize - 1 |->
                              IF i \in t .. t + s.amt - 1 THEN s.data[i - t + 1] ELSE @[i]]]
               /\ top' = [top EXCEPT ![c] = t + s.amt]
               /\ bottom' = Reclaimed(bottom, c)
               /\ steal' = [steal EXCEPT ![c].st = "full", ![c].data = <<>>]
               /\ UNCHANGED fatal
          ELSE /\ fatal' = "reply"
               /\ UNCHANGED <<queue, steal>>
       /\ UNCHANGED <<numVictimSegments, unmarked, remote, manager, ghost, worker>>

\* The thief's handler of a reply without.
StealFailed(c) ==
    /\ fatal = "none" /\ steal[c].st = "failed"
    /\ steal' = [steal EXCEPT ![c].st = "full"]
    /\ UNCHANGED <<numVictimSegments, unmarked, remote, queue, manager, ghost, worker, fatal>>

(***************************************************************************)
(* TaskManager: getWork                                                    *)
(***************************************************************************)
\* Mutant: the index does not wrap.
IndexNoWrap(c, j) == nextVictimIndex[c] + j

\* The core itself is passed over in the list of neighbors.
Index(c, j) == (nextVictimIndex[c] + j) % NumCores
Skip(c) == IF neighbors[nextVictimIndex[c]] = c THEN 1 ELSE 0

\* checkPull goes to another victim: only one worker of a core steals, it goes
\* on while it has got nothing, there is nothing to do on its own core, and it
\* has not gone through all neighbors.
TriesSteal(w) ==
    LET c == Core(w)
    IN /\ IF worker[w].pc = "steal" THEN steal[c].amt = 0 ELSE stealLock[c]
       /\ ~local_available(c) /\ ~workDone[c]
       /\ worker[w].tryCount + Skip(c) < NumCores

\* Worker w is at the head of the loop in getWork, or gets there in this step:
\* its steal session is over or it has been taken from the idle ones.
Searching(w) == nextCoroutine(w) /\ worker[w].pc \in {"find", "idle", "steal"}
Looking(w) == Searching(w) /\ ~TriesSteal(w)

\* Mutant: the lock stays taken when the session brought nothing.
EndSessionKeepLock(w) ==
    LET over == worker[w].pc = "steal"
    IN /\ stealLock' = [stealLock EXCEPT ![Core(w)] =
                           @ \/ (over /\ steal[Core(w)].amt > 0)]
       /\ steal' = IF over THEN [steal EXCEPT ![Core(w)] = NoSteal] ELSE steal

\* A session that is over gives the lock back.
EndSession(w) ==
    LET over == worker[w].pc = "steal"
    IN /\ stealLock' = [stealLock EXCEPT ![Core(w)] = @ \/ over]
       /\ steal' = IF over THEN [steal EXCEPT ![Core(w)] = NoSteal] ELSE steal

\* tryConsumeLocal: a private task first, then the top of the public queue.
ConsumePrivate(w) ==
    LET c == Core(w)
    IN /\ Looking(w) /\ ~workDone[c] /\ privateHasEle(c)
       /\ privateQ' = [privateQ EXCEPT ![c] = Tail(@)]
       /\ Becomes(w, "run", Head(privateQ[c]))
       /\ EndSession(w)
       /\ UNCHANGED <<queue, nextVictimIndex, numVictimSegments, unmarked, remote,
                      ghost, fatal>>

ConsumePublic(w) ==
    LET c == Core(w)
    IN /\ Looking(w) /\ ~workDone[c] /\ ~privateHasEle(c) /\ publicHasEle(c)
       /\ top' = [top EXCEPT ![c] = @ - 1]
       /\ Becomes(w, "run", stack[c][top[c] - 1])
       /\ EndSession(w)
       /\ UNCHANGED <<stack, bottom, privateQ, nextVictimIndex, numVictimSegments,
                      unmarked, remote, ghost, fatal>>

\* steal_locally, up to the wait for the result.
steal_locally(w) ==
    LET c == Core(w)
    IN /\ Searching(w) /\ TriesSteal(w)
       /\ stealLock' = [stealLock EXCEPT ![c] = FALSE]
       /\ bottom' = Reclaimed(bottom, c) /\ top' = Reclaimed(top, c)
       /\ nextVictimIndex' = [nextVictimIndex EXCEPT ![c] = Index(c, Skip(c) + 1)]
       /\ steal' = [steal EXCEPT ![c] = [NoSteal EXCEPT !.st = "request",
                                           !.victim = neighbors[Index(c, Skip(c))]]]
       /\ worker' = [worker EXCEPT ![w].pc = "steal", ![w].tryCount = @ + Skip(c) + 1]
       /\ UNCHANGED <<stack, privateQ, numVictimSegments, unmarked, remote, ghost, fatal>>

\* waitConsumeAny: nothing to do and nobody to steal from.
thread_idle(w) ==
    LET c == Core(w)
    IN /\ Looking(w) /\ ~workDone[c] /\ ~local_available(c)
       /\ Becomes(w, "idle", NoTask)
       /\ EndSession(w)
       /\ UNCHANGED <<queue, privateQ, nextVictimIndex, numVictimSegments, unmarked,
                      remote, ghost, fatal>>

\* getWork returns false: the worker leaves its loop.
Quit(w) ==
    /\ Looking(w) /\ workDone[Core(w)]
    /\ Becomes(w, "exited", NoTask)
    /\ EndSession(w)
    /\ UNCHANGED <<queue, privateQ, nextVictimIndex, numVictimSegments, unmarked,
                   remote, ghost, fatal>>

(***************************************************************************)
(* Tasks.  A task is anything that spawns some tasks, yielding or blocking *)
(* (in a delegate, say) after each, and ends; user_main also waits for all *)
(* others before it ends the job.                                          *)
(***************************************************************************)
Running(w) == nextCoroutine(w) /\ worker[w].pc = "run"
Spawning(w) == Running(w) /\ worker[w].task \in Spawners /\ spawned < MaxTasks
SpawningBound(w) == Spawning(w) /\ spawned + 1 \in BoundTasks
SpawningUnbound(w) == Spawning(w) /\ spawned + 1 \notin BoundTasks

YieldsOrBlocks(w) == \E pc \in {"run", "blocked"} : Becomes(w, pc, worker[w].task)

spawnPublic(w) ==
    /\ SpawningUnbound(w)
    /\ push(Core(w), spawned + 1)
    /\ spawned' = spawned + 1
    /\ YieldsOrBlocks(w)
    /\ UNCHANGED <<manager, network, done, ending, workDone>>

\* What it blocked for has happened: the task goes on.
Resume(w) ==
    /\ fatal = "none" /\ worker[w].pc = "blocked"
    /\ Becomes(w, "run", worker[w].task)
    /\ UNCHANGED <<queue, manager, network, ghost, fatal>>

push_front(c, t) == privateQ' = [privateQ EXCEPT ![c] = <<t>> \o @]

spawnLocalPrivate(w) ==
    /\ SpawningBound(w)
    /\ push_front(Core(w), spawned + 1)
    /\ spawned' = spawned + 1
    /\ YieldsOrBlocks(w)
    /\ UNCHANGED <<queue, stealLock, nextVictimIndex, network, done, ending, workDone,
                   fatal>>

Grappa_remote_privateTask(w, c) ==
    /\ SpawningBound(w)
    /\ remote' = remote \union {<<spawned + 1, c>>}
    /\ spawned' = spawned + 1
    /\ YieldsOrBlocks(w)
    /\ UNCHANGED <<queue, manager, numVictimSegments, unmarked, steal, done, ending,
                   workDone, fatal>>

spawnRemotePrivate(m) ==
    /\ fatal = "none" /\ m \in remote
    /\ remote' = remote \ {m}
    /\ push_front(m[2], m[1])
    /\ UNCHANGED <<queue, stealLock, nextVictimIndex, numVictimSegments, unmarked, steal,
                   ghost, worker, fatal>>

\* The task returns; the worker yields.
Return(w) ==
    /\ Running(w) /\ worker[w].task # user_main
    /\ Becomes(w, "find", NoTask)
    /\ done' = done \union {worker[w].task}
    /\ UNCHANGED <<queue, manager, network, spawned, ending, workDone, fatal>>

\* user_main suspends until the others have completed, and is woken.
WaitForAll(w) ==
    /\ Running(w) /\ worker[w].task = user_main
    /\ Becomes(w, "join", user_main)
    /\ UNCHANGED <<queue, manager, network, ghost, fatal>>

AllCompleted(w) ==
    /\ fatal = "none" /\ worker[w].pc = "join"
    /\ done = 2 .. spawned
    /\ Becomes(w, "end", user_main)
    /\ UNCHANGED <<queue, manager, network, ghost, fatal>>

Grappa_end_tasks(w) ==
    /\ nextCoroutine(w) /\ worker[w].pc = "end"
    /\ ending' = TRUE
    /\ Becomes(w, "find", NoTask)
    /\ done' = done \union {user_main}
    /\ UNCHANGED <<queue, manager, network, spawned, workDone, fatal>>

signal_termination(c) ==
    /\ fatal = "none" /\ ending /\ ~workDone[c]
    /\ workDone' = [workDone EXCEPT ![c] = TRUE]
    /\ UNCHANGED <<queue, manager, network, spawned, done, ending, worker, fatal>>

WorkerStep(w) ==
    \/ ConsumePrivate(w) \/ ConsumePublic(w)
    \/ steal_locally(w) \/ thread_idle(w) \/ Quit(w)
    \/ Resume(w) \/ Return(w) \/ WaitForAll(w) \/ AllCompleted(w) \/ Grappa_end_tasks(w)

Spawn(w) ==
    \/ spawnPublic(w) \/ spawnLocalPrivate(w)
    \/ \E c \in Cores \ {Core(w)} : Grappa_remote_privateTask(w, c)

StealStep(c) == StealRequest(c) \/ serialize_to(c) \/ StealReply(c) \/ StealFailed(c)

\* The job is over: every worker has left its loop, or a CHECK has failed.
Terminated ==
    /\ fatal # "none" \/ \A w \in Workers : worker[w].pc = "exited"
    /\ UNCHANGED vars

Next ==
    \/ \E w \in Workers : WorkerStep(w) \/ Spawn(w)
    \/ \E c \in Cores : StealStep(c) \/ mark_sent(c) \/ signal_termination(c)
    \/ \E m \in remote : spawnRemotePrivate(m)
    \/ Terminated

\* The polling thread of a core runs periodically and takes what has arrived,
\* the communication layer sends what is queued, the ready queue is first in
\* first out.
Fairness ==
    /\ \A w \in Workers : WF_vars(WorkerStep(w))
    /\ \A c \in Cores : WF_vars(StealStep(c))
    /\ WF_vars(\E m \in remote : spawnRemotePrivate(m))

Spec == Init /\ [][Next]_vars /\ Fairness

(***************************************************************************)
(* Properties                                                              *)
(***************************************************************************)
WorkerType == [pc : {"idle", "find", "run", "blocked", "steal", "join", "end", "exited"},
               task : Tasks \union {NoTask}, tryCount : 0 .. NumCores]
StealType == [st : {"none", "request", "queued", "sent", "failed", "full"}, victim : Cores,
              lo : 0 .. StackSize, amt : 0 .. ChunkSize, data : Seq(Tasks \union {NoTask})]

\* The cursors stay inside the array, next victims are cores, and counts are
\* not negative.
TypeOK ==
    /\ stack \in [Cores -> [0 .. StackSize - 1 -> Tasks \union {NoTask}]]
    /\ bottom \in [Cores -> 0 .. StackSize] /\ top \in [Cores -> 0 .. StackSize]
    /\ numVictimSegments \in [Cores -> Nat] /\ unmarked \in [Cores -> Nat]
    /\ privateQ \in [Cores -> Seq(Tasks)]
    /\ stealLock \in [Cores -> BOOLEAN] /\ nextVictimIndex \in [Cores -> Cores]
    /\ worker \in [Workers -> WorkerType] /\ steal \in [Cores -> StealType]
    /\ remote \subseteq Tasks \X Cores
    /\ spawned \in Tasks /\ done \subseteq Tasks
    /\ ending \in BOOLEAN /\ workDone \in [Cores -> BOOLEAN]
    /\ fatal \in {"none", "push", "reply"}

\* The places where task t can be (in a private queue, counted from its back).
Slots == Cores \X (0 .. StackSize - 1)
PublicAt(t) == {p \in Slots : p[2] \in bottom[p[1]] .. top[p[1]] - 1 /\ stack[p[1]][p[2]] = t}
PrivateAt(t) == UNION {{<<c, i>> : i \in {j \in 0 .. Len(privateQ[c]) - 1 :
                                            privateQ[c][Len(privateQ[c]) - j] = t}} : c \in Cores}
PointedAt(t) == {p \in Slots :
                   LET s == steal[p[1]]
                   IN /\ s.st = "queued" /\ stack[s.victim][p[2]] = t
                      /\ p[2] \in s.lo .. s.lo + s.amt - 1}
CarriedAt(t) == UNION {{<<c, i>> : i \in {j \in 1 .. Len(steal[c].data) :
                                            steal[c].data[j] = t}} : c \in Cores}
RunningAt(t) == {w \in Workers : worker[w].task = t}
SpawnedAt(t) == {m \in remote : m[1] = t}
Places(t) ==
    Cardinality(PublicAt(t)) + Cardinality(PrivateAt(t)) + Cardinality(PointedAt(t))
      + Cardinality(CarriedAt(t)) + Cardinality(RunningAt(t)) + Cardinality(SpawnedAt(t))
      + (IF t \in done THEN 1 ELSE 0)

\* Every task that has been spawned is in exactly one place: in a queue, in a
\* reply on its way to a thief, with a worker, or executed.  None is lost and
\* none runs twice, although a reply points into an array that its owner goes
\* on using (StealQueue.hpp, steal_locally and reclaimSpace).  What a failed
\* CHECK leaves behind does not count.
EachTaskOnce == fatal = "none" => \A t \in 1 .. spawned : Places(t) = 1

\* The count that keeps a victim from reusing its array covers every reply
\* that still points into it, and only replies (ExternalCountPayloadMessage:
\* CHECK( *count_copy > 0 )).
SegmentsCovered ==
    \A v \in Cores :
        numVictimSegments[v] =
            unmarked[v] + Cardinality({c \in Cores : steal[c].st = "queued" /\ steal[c].victim = v})

\* A steal holds the lock, and only one worker of a core has one under way: the
\* reply of one could otherwise be taken for that of another (checkPull: "only
\* one Worker is allowed to steal").
OneThief ==
    \A c \in Cores :
        /\ Cardinality({w \in WorkersOf(c) : worker[w].pc = "steal"})
              = (IF stealLock[c] THEN 0 ELSE 1)
        /\ stealLock[c] <=> steal[c].st = "none"

\* push overflows only when the queue holds as many tasks as it has room for
\* (StealQueue.hpp:293, CHECK( top < stackSize ) << "push: overflow").
PushFindsRoom == fatal = "push" => \E c \in Cores : depth(c) = StackSize

\* Every task is executed in the end: a task left on a core whose workers are
\* busy or idle, or stolen and stolen again, still gets its turn (getWork,
\* checkPull, waitConsumeAny).
AllExecuted == <>[](done = 1 .. spawned)
=========================================================================

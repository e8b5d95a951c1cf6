----------------------- MODULE WorkStealingProofs -----------------------
(***************************************************************************)
(* Proofs about WorkStealing, for every number of cores, workers and       *)
(* tasks, every size of the array and of a chunk, every permutation of the *)
(* neighbors.                                                              *)
(***************************************************************************)
EXTENDS WorkStealing, FiniteSetTheorems, SequenceTheorems, TLAPS

(***************************************************************************)
(* The inductive invariant                                                 *)
(***************************************************************************)
\* No slot between the cursors is empty.
SlotsOK(c) ==
    /\ bottom[c] <= top[c]
    /\ \A i \in bottom[c] .. top[c] - 1 : stack[c][i] \in Tasks

\* What has been reserved for a reply lies below the bottom of the victim's
\* queue, a serialised reply carries as many tasks as were reserved, and no
\* slot of either is empty.
ReplyOK(c) ==
    /\ steal[c].st \in {"none", "request", "failed"} => steal[c].amt = 0
    /\ steal[c].st = "queued" =>
          /\ steal[c].amt > 0
          /\ steal[c].lo + steal[c].amt <= bottom[steal[c].victim]
          /\ \A i \in steal[c].lo .. steal[c].lo + steal[c].amt - 1 :
                stack[steal[c].victim][i] \in Tasks
    /\ steal[c].st = "sent" =>
          /\ Len(steal[c].data) = steal[c].amt
          /\ \A i \in 1 .. Len(steal[c].data) : steal[c].data[i] \in Tasks
    /\ steal[c].st # "sent" => steal[c].data = <<>>

\* A worker has a task exactly while it runs one or waits in one.
WorkerOK(w) ==
    /\ worker[w].pc \in {"idle", "find", "steal", "exited"} => worker[w].task = NoTask
    /\ worker[w].pc \in {"run", "blocked", "join", "end"} => worker[w].task \in Tasks
    /\ worker[w].pc \in {"join", "end"} => worker[w].task = user_main

\* OneThief without cardinalities.
LockOK(c) ==
    /\ stealLock[c] <=> steal[c].st = "none"
    /\ stealLock[c] => \A w \in WorkersOf(c) : worker[w].pc # "steal"
    /\ ~stealLock[c] => \E w \in WorkersOf(c) :
                           \A v \in WorkersOf(c) : worker[v].pc = "steal" <=> v = w

\* The places of a task by their kind.
Kinds == {"public", "private", "pointed", "carried", "running", "remote", "done"}
At(t) ==
    [public |-> PublicAt(t), private |-> PrivateAt(t), pointed |-> PointedAt(t),
     carried |-> CarriedAt(t), running |-> RunningAt(t), remote |-> SpawnedAt(t),
     done |-> done \intersect {t}]

\* Task t is in one place of kind k, and in none of another kind.
SoleOf(t, k) ==
    /\ \E x : At(t)[k] = {x}
    /\ \A i \in Kinds \ {k} : At(t)[i] = {}
Sole(t) == \E k \in Kinds : SoleOf(t, k)
Nowhere(t) == \A k \in Kinds : At(t)[k] = {}

\* EachTaskOnce without cardinalities; tasks not spawned yet are nowhere.
Fine(t) ==
    /\ t <= spawned => Sole(t)
    /\ t > spawned => Nowhere(t)
Once == fatal = "none" => \A t \in Tasks : Fine(t)

Shape ==
    /\ TypeOK
    /\ SegmentsCovered
    /\ \A c \in Cores : ReplyOK(c) /\ SlotsOK(c) /\ LockOK(c)
    /\ \A w \in Workers : WorkerOK(w)

(***************************************************************************)
(* Operators                                                               *)
(***************************************************************************)
\* The cores and the workers are finitely many.
LEMMA Finite == IsFiniteSet(Cores) /\ IsFiniteSet(Workers)
  <1>1. IsFiniteSet(Cores)
    BY FS_Interval, WorkStealingAssumption DEF Cores
  <1>2. IsFiniteSet(1 .. NumWorkers + 1)
    BY FS_Interval, WorkStealingAssumption
  <1>3. IsFiniteSet(Cores \X (1 .. NumWorkers + 1))
    BY <1>1, <1>2, FS_Product
  <1>4. QED
    BY <1>1, <1>3, FS_Subset DEF Workers

\* The index into the list of neighbors wraps.
LEMMA ModRange == ASSUME NEW a \in Nat, NEW n \in Nat \ {0} PROVE a % n \in 0 .. n - 1
  OBVIOUS

\* A thief's next victim is a core.
LEMMA IndexOK ==
  ASSUME nextVictimIndex \in [Cores -> Cores], NEW c \in Cores, NEW j \in Nat
  PROVE  Index(c, j) \in Cores
  <1>1. NumCores \in Nat \ {0}
    BY WorkStealingAssumption
  <1>2. nextVictimIndex[c] + j \in Nat
    BY <1>1 DEF Cores
  <1>3. QED
    BY <1>1, <1>2, ModRange DEF Index, Cores

\* A thief gets at most a chunk and at most what the queue holds.
LEMMA StealAmountOK ==
  ASSUME TypeOK, NEW v \in Cores, bottom[v] <= top[v]
  PROVE  /\ StealAmount(v) \in 0 .. ChunkSize
         /\ bottom[v] + StealAmount(v) <= top[v]
  <1>1. bottom[v] \in 0 .. StackSize /\ top[v] \in 0 .. StackSize
    BY DEF TypeOK
  <1>2. QED
    BY <1>1, WorkStealingAssumption DEF StealAmount, depth

\* The replies that still point into the array of core v.
Queued(v) == {c \in Cores : steal[c].st = "queued" /\ steal[c].victim = v}

\* Space is only reclaimed when no reply points into it.
LEMMA ReclaimSafe ==
  ASSUME TypeOK, SegmentsCovered, NEW v \in Cores, MayReclaim(v), NEW c \in Cores,
         steal[c].st = "queued"
  PROVE  steal[c].victim # v
  <1>1. IsFiniteSet(Queued(v))
    BY Finite, FS_Subset DEF Queued
  <1>2. Cardinality(Queued(v)) \in Nat
    BY <1>1, FS_CardinalityType
  <1>3. 0 = unmarked[v] + Cardinality(Queued(v)) /\ unmarked[v] \in Nat
    BY DEF SegmentsCovered, MayReclaim, Queued, TypeOK
  <1>4. Cardinality(Queued(v)) = 0
    BY <1>2, <1>3
  <1>5. Queued(v) = {}
    BY <1>1, <1>4, FS_EmptySet
  <1>6. QED
    BY <1>5 DEF Queued

(***************************************************************************)
(* Types                                                                   *)
(***************************************************************************)
\* TypeOK in parts.
QueueType ==
    /\ stack \in [Cores -> [0 .. StackSize - 1 -> Tasks \union {NoTask}]]
    /\ bottom \in [Cores -> 0 .. StackSize] /\ top \in [Cores -> 0 .. StackSize]
CountType == numVictimSegments \in [Cores -> Nat] /\ unmarked \in [Cores -> Nat]
ManagerType ==
    /\ privateQ \in [Cores -> Seq(Tasks)]
    /\ stealLock \in [Cores -> BOOLEAN] /\ nextVictimIndex \in [Cores -> Cores]
TaskType ==
    /\ remote \subseteq Tasks \X Cores
    /\ spawned \in Tasks /\ done \subseteq Tasks
JobType ==
    /\ ending \in BOOLEAN /\ workDone \in [Cores -> BOOLEAN]
    /\ fatal \in {"none", "push", "reply"}

\* TypeOK, in parts that most actions change one at a time.
LEMMA TypeParts ==
  TypeOK <=> /\ QueueType /\ CountType /\ ManagerType /\ TaskType /\ JobType
             /\ worker \in [Workers -> WorkerType] /\ steal \in [Cores -> StealType]
  BY DEF TypeOK, QueueType, CountType, ManagerType, TaskType, JobType

\* The same of the next state.
LEMMA TypePartsNext ==
  ASSUME QueueType', CountType', ManagerType', TaskType', JobType',
         worker' \in [Workers -> WorkerType], steal' \in [Cores -> StealType]
  PROVE  TypeOK'
  BY DEF TypeOK, QueueType, CountType, ManagerType, TaskType, JobType

\* A worker that gets a new state keeps its type.
LEMMA BecomesType ==
  ASSUME worker \in [Workers -> WorkerType], NEW w \in Workers,
         NEW pc \in {"idle", "find", "run", "blocked", "steal", "join", "end", "exited"},
         NEW t \in Tasks \union {NoTask}, Becomes(w, pc, t)
  PROVE  worker' \in [Workers -> WorkerType]
  <1>1. 0 \in 0 .. NumCores
    BY WorkStealingAssumption
  <1>2. [pc |-> pc, task |-> t, tryCount |-> 0] \in WorkerType
    BY <1>1 DEF WorkerType
  <1>3. QED
    BY <1>2 DEF Becomes

\* A core whose worker does not steal has a record of a steal's type.
LEMMA NoStealType == NoSteal \in StealType
  <1>1. 0 \in 0 .. StackSize /\ 0 \in 0 .. ChunkSize /\ 0 \in Cores
    BY WorkStealingAssumption DEF Cores
  <1>2. QED
    BY <1>1 DEF NoSteal, StealType

\* The end of a session changes the lock and the steal of the worker's core.
LEMMA EndSessionType ==
  ASSUME ManagerType, steal \in [Cores -> StealType], NEW w \in Workers, EndSession(w)
  PROVE  stealLock' \in [Cores -> BOOLEAN] /\ steal' \in [Cores -> StealType]
  <1>1. Core(w) \in Cores
    BY DEF Workers, Core
  <1>2. stealLock' \in [Cores -> BOOLEAN]
    BY <1>1 DEF EndSession, ManagerType
  <1>3. steal' \in [Cores -> StealType]
    BY <1>1, NoStealType DEF EndSession
  <1>4. QED
    BY <1>2, <1>3

\* The steal of a core keeps its type when a field of it changes.
LEMMA StField ==
  ASSUME NEW f \in [Cores -> StealType], NEW c \in Cores,
         NEW x \in {"none", "request", "queued", "sent", "failed", "full"}
  PROVE  [f EXCEPT ![c].st = x] \in [Cores -> StealType]
  <1>1. ASSUME NEW s \in StealType PROVE [s EXCEPT !.st = x] \in StealType
    BY DEF StealType
  <1>2. [f[c] EXCEPT !.st = x] \in StealType
    BY <1>1
  <1>3. QED
    BY <1>2

\* Setting where the stolen tasks start in the victim's array keeps the type.
LEMMA LoField ==
  ASSUME NEW f \in [Cores -> StealType], NEW c \in Cores,
         NEW l \in 0 .. StackSize
  PROVE  [f EXCEPT ![c].lo = l] \in [Cores -> StealType]
  <1>1. ASSUME NEW s \in StealType PROVE [s EXCEPT !.lo = l] \in StealType
    BY DEF StealType
  <1>2. [f[c] EXCEPT !.lo = l] \in StealType
    BY <1>1
  <1>3. QED
    BY <1>2

\* Setting the number of tasks that are stolen keeps the type.
LEMMA AmtField ==
  ASSUME NEW f \in [Cores -> StealType], NEW c \in Cores,
         NEW a \in 0 .. ChunkSize
  PROVE  [f EXCEPT ![c].amt = a] \in [Cores -> StealType]
  <1>1. ASSUME NEW s \in StealType PROVE [s EXCEPT !.amt = a] \in StealType
    BY DEF StealType
  <1>2. [f[c] EXCEPT !.amt = a] \in StealType
    BY <1>1
  <1>3. QED
    BY <1>2

\* Setting the tasks that a message carries keeps the type.
LEMMA DataField ==
  ASSUME NEW f \in [Cores -> StealType], NEW c \in Cores,
         NEW d \in Seq(Tasks \union {NoTask})
  PROVE  [f EXCEPT ![c].data = d] \in [Cores -> StealType]
  <1>1. ASSUME NEW s \in StealType PROVE [s EXCEPT !.data = d] \in StealType
    BY DEF StealType
  <1>2. [f[c] EXCEPT !.data = d] \in StealType
    BY <1>1
  <1>3. QED
    BY <1>2

(***************************************************************************)
(* What the steps do to steals                                             *)
(***************************************************************************)
\* A message of a steal changes the steal of one core.
LEMMA StealStepFields ==
  ASSUME steal \in [Cores -> StealType], NEW c \in Cores
  PROVE  /\ StealRequest(c) =>
              /\ steal'[c].victim = steal[c].victim /\ steal'[c].data = steal[c].data
              /\ \/ /\ StealAmount(steal[c].victim) > 0
                    /\ steal'[c].st = "queued" /\ steal'[c].lo = bottom[steal[c].victim]
                    /\ steal'[c].amt = StealAmount(steal[c].victim)
                 \/ /\ ~(StealAmount(steal[c].victim) > 0)
                    /\ steal'[c].st = "failed"
                    /\ steal'[c].lo = steal[c].lo /\ steal'[c].amt = steal[c].amt
         /\ serialize_to(c) =>
              /\ steal'[c].st = "sent" /\ steal'[c].victim = steal[c].victim
              /\ steal'[c].lo = steal[c].lo /\ steal'[c].amt = steal[c].amt
              /\ steal'[c].data = [i \in 1 .. steal[c].amt |->
                                     stack[steal[c].victim][steal[c].lo + i - 1]]
         /\ StealReply(c) =>
              \/ steal' = steal /\ fatal' = "reply"
              \/ /\ steal'[c].st = "full" /\ steal'[c].victim = steal[c].victim
                 /\ steal'[c].lo = steal[c].lo /\ steal'[c].amt = steal[c].amt
                 /\ steal'[c].data = <<>>
         /\ StealFailed(c) =>
              /\ steal'[c].st = "full" /\ steal'[c].victim = steal[c].victim
              /\ steal'[c].lo = steal[c].lo /\ steal'[c].amt = steal[c].amt
              /\ steal'[c].data = steal[c].data
         /\ StealStep(c) => \A d \in Cores \ {c} : steal'[d] = steal[d]
  <1>1. /\ DOMAIN steal = Cores
        /\ DOMAIN steal[c] = {"st", "victim", "lo", "amt", "data"}
    BY DEF StealType
  <1>2. StealRequest(c) =>
              /\ steal'[c].victim = steal[c].victim /\ steal'[c].data = steal[c].data
              /\ \/ /\ StealAmount(steal[c].victim) > 0
                    /\ steal'[c].st = "queued" /\ steal'[c].lo = bottom[steal[c].victim]
                    /\ steal'[c].amt = StealAmount(steal[c].victim)
                 \/ /\ ~(StealAmount(steal[c].victim) > 0)
                    /\ steal'[c].st = "failed"
                    /\ steal'[c].lo = steal[c].lo /\ steal'[c].amt = steal[c].amt
    BY <1>1 DEF StealRequest
  <1>3. serialize_to(c) =>
              /\ steal'[c].st = "sent" /\ steal'[c].victim = steal[c].victim
              /\ steal'[c].lo = steal[c].lo /\ steal'[c].amt = steal[c].amt
              /\ steal'[c].data = [i \in 1 .. steal[c].amt |->
                                     stack[steal[c].victim][steal[c].lo + i - 1]]
    BY <1>1 DEF serialize_to
  <1>4. StealReply(c) =>
              \/ steal' = steal /\ fatal' = "reply"
              \/ /\ steal'[c].st = "full" /\ steal'[c].victim = steal[c].victim
                 /\ steal'[c].lo = steal[c].lo /\ steal'[c].amt = steal[c].amt
                 /\ steal'[c].data = <<>>
    BY <1>1 DEF StealReply
  <1>5. StealFailed(c) =>
              /\ steal'[c].st = "full" /\ steal'[c].victim = steal[c].victim
              /\ steal'[c].lo = steal[c].lo /\ steal'[c].amt = steal[c].amt
              /\ steal'[c].data = steal[c].data
    BY <1>1 DEF StealFailed
  <1>6. ASSUME StealStep(c), NEW d \in Cores \ {c} PROVE steal'[d] = steal[d]
    BY <1>1, <1>6 DEF StealStep, StealRequest, serialize_to, StealReply, StealFailed
  <1>7. QED
    BY <1>2, <1>3, <1>4, <1>5, <1>6

\* A worker's step leaves the steals alone, or ends the one of its core or
\* makes a new one of it, when nothing of it is under way.
LEMMA WorkerStepSteal ==
  ASSUME Shape, NEW w \in Workers, WorkerStep(w)
  PROVE  \/ steal' = steal /\ stealLock' = stealLock
         \/ /\ steal[Core(w)].st \in {"none", "full"}
            /\ \/ /\ worker[w].pc = "steal" /\ Looking(w)
                  /\ stealLock' = [stealLock EXCEPT ![Core(w)] = TRUE]
                  /\ steal' = [steal EXCEPT ![Core(w)] = NoSteal]
               \/ /\ steal_locally(w)
                  /\ steal'[Core(w)].st = "request" /\ steal'[Core(w)].amt = 0
                  /\ steal'[Core(w)].data = <<>>
                  /\ \A d \in Cores \ {Core(w)} : steal'[d] = steal[d]
  <1>1. Core(w) \in Cores /\ steal \in [Cores -> StealType] /\ stealLock \in [Cores -> BOOLEAN]
    BY TypeParts DEF Shape, ManagerType, Workers, Core
  <1>2. CASE Looking(w) /\ EndSession(w)
    <2>1. CASE worker[w].pc = "steal"
      <3>1. steal[Core(w)].st = "full"
        BY <1>2, <2>1 DEF Looking, Searching, nextCoroutine, Ready
      <3>2. QED
        BY <1>1, <1>2, <2>1, <3>1 DEF EndSession
    <2>2. CASE worker[w].pc # "steal"
      BY <1>1, <1>2, <2>2 DEF EndSession
    <2>3. QED
      BY <2>1, <2>2
  <1>3. CASE steal_locally(w)
    <2>1. steal[Core(w)].st \in {"none", "full"}
      BY <1>1, <1>3 DEF steal_locally, Searching, nextCoroutine, Ready, TriesSteal, Shape, LockOK
    <2>2. QED
      BY <1>1, <1>3, <2>1 DEF steal_locally, NoSteal
  <1>4. CASE Resume(w) \/ Return(w) \/ WaitForAll(w) \/ AllCompleted(w) \/ Grappa_end_tasks(w)
    BY <1>4 DEF Resume, Return, WaitForAll, AllCompleted, Grappa_end_tasks, manager, network
  <1>5. QED
    BY <1>2, <1>3, <1>4 DEF WorkerStep, ConsumePrivate, ConsumePublic, thread_idle, Quit

(***************************************************************************)
(* The types are kept                                                      *)
(***************************************************************************)
\* Types are kept: one step per action, one below it per part it changes.
LEMMA NextType == Shape /\ [Next]_vars => TypeOK'
  <1> SUFFICES ASSUME Shape, [Next]_vars PROVE TypeOK'
    OBVIOUS
  <1>0. /\ QueueType /\ CountType /\ ManagerType /\ TaskType /\ JobType
        /\ worker \in [Workers -> WorkerType] /\ steal \in [Cores -> StealType]
    BY TypeParts DEF Shape
  <1>a. NumCores \in Nat \ {0} /\ StackSize \in Nat /\ ChunkSize \in Nat \ {0} /\ MaxTasks \in Nat \ {0}
    BY WorkStealingAssumption
  <1>b. ASSUME NEW w \in Workers PROVE Core(w) \in Cores
    BY DEF Workers, Core
  <1>1. ASSUME NEW w \in Workers, ConsumePrivate(w) PROVE TypeOK'
    <2>1. Head(privateQ[Core(w)]) \in Tasks /\ Tail(privateQ[Core(w)]) \in Seq(Tasks)
      BY <1>0, <1>1, <1>b DEF ManagerType, ConsumePrivate, privateHasEle
    <2>2. stealLock' \in [Cores -> BOOLEAN] /\ steal' \in [Cores -> StealType]
      BY <1>0, <1>1, EndSessionType DEF ConsumePrivate
    <2>3. ManagerType'
      BY <1>0, <1>1, <1>b, <2>1, <2>2 DEF ManagerType, ConsumePrivate
    <2>4. worker' \in [Workers -> WorkerType]
      BY <1>0, <1>1, <2>1, BecomesType DEF ConsumePrivate
    <2>5. QueueType' /\ CountType' /\ TaskType' /\ JobType'
      BY <1>0, <1>1 DEF ConsumePrivate, QueueType, CountType, TaskType, JobType, queue, ghost
    <2>6. QED
      BY <2>2, <2>3, <2>4, <2>5, TypePartsNext
  <1>2. ASSUME NEW w \in Workers, ConsumePublic(w) PROVE TypeOK'
    <2>1. top[Core(w)] - 1 \in 0 .. StackSize - 1
      BY <1>0, <1>2, <1>a, <1>b DEF QueueType, ConsumePublic, publicHasEle, depth
    <2>2. stealLock' \in [Cores -> BOOLEAN] /\ steal' \in [Cores -> StealType]
      BY <1>0, <1>2, EndSessionType DEF ConsumePublic
    <2>3. ManagerType'
      BY <1>0, <1>2, <2>2 DEF ManagerType, ConsumePublic
    <2>4. stack[Core(w)][top[Core(w)] - 1] \in Tasks \union {NoTask}
      BY <1>0, <1>b, <2>1 DEF QueueType
    <2>5. worker' \in [Workers -> WorkerType]
      BY <1>0, <1>2, <2>4, BecomesType DEF ConsumePublic
    <2>6. QueueType'
      BY <1>0, <1>2, <1>a, <1>b, <2>1 DEF ConsumePublic, QueueType
    <2>7. CountType' /\ TaskType' /\ JobType'
      BY <1>0, <1>2 DEF ConsumePublic, CountType, TaskType, JobType, ghost
    <2>8. QED
      BY <2>2, <2>3, <2>5, <2>6, <2>7, TypePartsNext
  <1>3. ASSUME NEW w \in Workers, steal_locally(w) PROVE TypeOK'
    <2> DEFINE c == Core(w)
    <2>1. Skip(c) \in {0, 1}
      BY DEF Skip
    <2>2. Index(c, Skip(c)) \in Cores /\ Index(c, Skip(c) + 1) \in Cores
      <3>1. nextVictimIndex \in [Cores -> Cores] /\ Skip(c) \in Nat /\ Skip(c) + 1 \in Nat
        BY <1>0, <2>1 DEF ManagerType
      <3>2. QED
        BY <1>b, <3>1, IndexOK
    <2>3. worker[w].tryCount + Skip(c) + 1 \in 0 .. NumCores
      BY <1>0, <1>3, <1>a, <2>1 DEF WorkerType, steal_locally, TriesSteal
    <2>4. worker' \in [Workers -> WorkerType]
      BY <1>0, <1>3, <2>3 DEF WorkerType, steal_locally
    <2>5. steal' \in [Cores -> StealType]
      <3>1. neighbors[Index(c, Skip(c))] \in Cores
        BY <2>2, WorkStealingAssumption
      <3>2. [NoSteal EXCEPT !.st = "request", !.victim = neighbors[Index(c, Skip(c))]] \in StealType
        BY <3>1, NoStealType DEF NoSteal, StealType
      <3>3. QED
        BY <1>0, <1>3, <1>b, <3>2 DEF steal_locally
    <2>6. ManagerType'
      BY <1>0, <1>3, <1>b, <2>2 DEF ManagerType, steal_locally
    <2>7. QueueType'
      BY <1>0, <1>3, <1>a, <1>b DEF QueueType, steal_locally, Reclaimed
    <2>8. CountType' /\ TaskType' /\ JobType'
      BY <1>0, <1>3 DEF steal_locally, CountType, TaskType, JobType, ghost
    <2>9. QED
      BY <2>4, <2>5, <2>6, <2>7, <2>8, TypePartsNext
  <1>4. ASSUME NEW w \in Workers, thread_idle(w) \/ Quit(w) PROVE TypeOK'
    <2>1. stealLock' \in [Cores -> BOOLEAN] /\ steal' \in [Cores -> StealType]
      BY <1>0, <1>4, EndSessionType DEF thread_idle, Quit
    <2>2. worker' \in [Workers -> WorkerType]
      BY <1>0, <1>4, BecomesType DEF thread_idle, Quit
    <2>3. QueueType' /\ CountType' /\ ManagerType' /\ TaskType' /\ JobType'
      BY <1>0, <1>4, <2>1
      DEF thread_idle, Quit, QueueType, CountType, ManagerType, TaskType, JobType, queue, ghost
    <2>4. QED
      BY <2>1, <2>2, <2>3, TypePartsNext
  <1>5. ASSUME NEW w \in Workers,
               \/ Resume(w) \/ Return(w) \/ WaitForAll(w) \/ AllCompleted(w)
               \/ Grappa_end_tasks(w)
        PROVE  TypeOK'
    <2>1. worker[w].task \in Tasks \union {NoTask} /\ user_main \in Tasks
      BY <1>0, <1>a DEF WorkerType, user_main, Tasks
    <2>2. worker' \in [Workers -> WorkerType]
      BY <1>0, <1>5, <2>1, BecomesType DEF Resume, Return, WaitForAll, AllCompleted, Grappa_end_tasks
    <2>3. Return(w) => worker[w].task \in Tasks
      BY DEF Shape, WorkerOK, Return, Running
    <2>4. TaskType'
      BY <1>0, <1>5, <2>1, <2>3
      DEF TaskType, Resume, Return, WaitForAll, AllCompleted, Grappa_end_tasks, network, ghost
    <2>5. QueueType' /\ CountType' /\ ManagerType' /\ steal' \in [Cores -> StealType]
      BY <1>0, <1>5
      DEF QueueType, CountType, ManagerType, Resume, Return, WaitForAll, AllCompleted,
          Grappa_end_tasks, queue, manager, network
    <2>6. JobType'
      BY <1>0, <1>5
      DEF JobType, Resume, Return, WaitForAll, AllCompleted, Grappa_end_tasks, ghost
    <2>7. QED
      BY <2>2, <2>4, <2>5, <2>6, TypePartsNext
  <1>6. ASSUME NEW w \in Workers, Spawning(w), spawned' = spawned + 1, YieldsOrBlocks(w)
        PROVE  spawned + 1 \in Tasks /\ worker' \in [Workers -> WorkerType]
    <2>1. spawned + 1 \in Tasks
      BY <1>0, <1>6, <1>a DEF TaskType, Spawning, Tasks
    <2>2. worker[w].task \in Tasks \union {NoTask}
      BY <1>0 DEF WorkerType
    <2>3. QED
      BY <1>0, <1>6, <2>1, <2>2, BecomesType DEF YieldsOrBlocks
  <1>7. ASSUME NEW w \in Workers, spawnPublic(w) PROVE TypeOK'
    <2>1. spawned + 1 \in Tasks /\ worker' \in [Workers -> WorkerType]
      BY <1>6, <1>7 DEF spawnPublic, SpawningUnbound
    <2>2. QueueType'
      <3>1. CASE top[Core(w)] < StackSize
        <4>1. /\ stack' = [stack EXCEPT ![Core(w)][top[Core(w)]] = spawned + 1]
              /\ top' = [top EXCEPT ![Core(w)] = @ + 1] /\ bottom' = bottom
          BY <1>7, <3>1 DEF spawnPublic, push
        <4>2. top[Core(w)] \in 0 .. StackSize - 1 /\ top[Core(w)] + 1 \in 0 .. StackSize
          BY <1>0, <1>a, <1>b, <3>1 DEF QueueType
        <4>3. stack' \in [Cores -> [0 .. StackSize - 1 -> Tasks \union {NoTask}]]
          BY <1>0, <1>b, <2>1, <4>1, <4>2 DEF QueueType
        <4>4. QED
          BY <1>0, <1>b, <4>1, <4>2, <4>3 DEF QueueType
      <3>2. CASE ~(top[Core(w)] < StackSize)
        BY <1>0, <1>7, <3>2 DEF QueueType, spawnPublic, push, queue
      <3>3. QED
        BY <3>1, <3>2
    <2>3. CountType' /\ ManagerType' /\ TaskType' /\ steal' \in [Cores -> StealType]
      BY <1>0, <1>7, <2>1 DEF CountType, ManagerType, TaskType, spawnPublic, manager, network
    <2>4. JobType'
      BY <1>0, <1>7 DEF JobType, spawnPublic, push
    <2>5. QED
      BY <2>1, <2>2, <2>3, <2>4, TypePartsNext
  <1>8. ASSUME NEW w \in Workers, spawnLocalPrivate(w) PROVE TypeOK'
    <2>1. spawned + 1 \in Tasks /\ worker' \in [Workers -> WorkerType]
      BY <1>6, <1>8 DEF spawnLocalPrivate, SpawningBound
    <2>2. <<spawned + 1>> \o privateQ[Core(w)] \in Seq(Tasks)
      BY <1>0, <1>b, <2>1 DEF ManagerType
    <2>3. ManagerType'
      BY <1>0, <1>8, <1>b, <2>2 DEF ManagerType, spawnLocalPrivate, push_front
    <2>4. QueueType' /\ CountType' /\ TaskType' /\ JobType' /\ steal' \in [Cores -> StealType]
      BY <1>0, <1>8, <2>1
      DEF QueueType, CountType, TaskType, JobType, spawnLocalPrivate, queue, network
    <2>5. QED
      BY <2>1, <2>3, <2>4, TypePartsNext
  <1>9. ASSUME NEW w \in Workers, NEW c \in Cores, Grappa_remote_privateTask(w, c) PROVE TypeOK'
    <2>1. spawned + 1 \in Tasks /\ worker' \in [Workers -> WorkerType]
      BY <1>6, <1>9 DEF Grappa_remote_privateTask, SpawningBound
    <2>2. TaskType'
      BY <1>0, <1>9, <2>1 DEF TaskType, Grappa_remote_privateTask
    <2>3. QueueType' /\ CountType' /\ ManagerType' /\ JobType' /\ steal' \in [Cores -> StealType]
      BY <1>0, <1>9
      DEF QueueType, CountType, ManagerType, JobType, Grappa_remote_privateTask, queue, manager
    <2>4. QED
      BY <2>1, <2>2, <2>3, TypePartsNext
  <1>10. ASSUME NEW c \in Cores, StealRequest(c) PROVE TypeOK'
    <2> DEFINE v == steal[c].victim
               amt == StealAmount(v)
    <2>1. v \in Cores
      BY <1>0 DEF StealType
    <2>2. bottom[v] \in 0 .. StackSize /\ top[v] \in 0 .. StackSize /\ bottom[v] <= top[v]
      BY <1>0, <2>1 DEF QueueType, Shape, SlotsOK
    <2>3. amt \in 0 .. ChunkSize /\ bottom[v] + amt <= top[v]
      BY <2>1, <2>2, StealAmountOK DEF Shape
    <2>4. bottom[v] + amt \in 0 .. StackSize
      BY <1>a, <2>2, <2>3
    <2> HIDE DEF amt
    <2>5. QueueType'
      BY <1>0, <1>10, <2>1, <2>4 DEF QueueType, StealRequest, Reserve, amt
    <2>6. CountType'
      BY <1>0, <1>10, <2>1 DEF CountType, StealRequest, Claim
    <2>7. steal' \in [Cores -> StealType]
      <3>1. ASSUME NEW x \in {"none", "request", "queued", "sent", "failed", "full"}
            PROVE  /\ [steal EXCEPT ![c].st = x] \in [Cores -> StealType]
                   /\ [steal EXCEPT ![c].st = x, ![c].lo = bottom[v], ![c].amt = amt]
                         \in [Cores -> StealType]
        <4>1. [steal EXCEPT ![c].st = x] \in [Cores -> StealType]
          BY <1>0, StField
        <4>2. [[steal EXCEPT ![c].st = x] EXCEPT ![c].lo = bottom[v]] \in [Cores -> StealType]
          BY <2>2, <4>1, LoField
        <4>3. [[[steal EXCEPT ![c].st = x] EXCEPT ![c].lo = bottom[v]] EXCEPT ![c].amt = amt]
                 \in [Cores -> StealType]
          BY <2>3, <4>2, AmtField
        <4>4. QED
          BY <4>1, <4>3
      <3>2. QED
        BY <1>10, <3>1 DEF StealRequest, amt
    <2>8. ManagerType' /\ TaskType' /\ JobType' /\ worker' \in [Workers -> WorkerType]
      BY <1>0, <1>10 DEF ManagerType, TaskType, JobType, StealRequest, manager, ghost
    <2>9. QED
      BY <2>5, <2>6, <2>7, <2>8, TypePartsNext
  <1>11. ASSUME NEW c \in Cores, serialize_to(c) PROVE TypeOK'
    <2> DEFINE v == steal[c].victim
               d == [i \in 1 .. steal[c].amt |-> stack[v][steal[c].lo + i - 1]]
    <2>1. v \in Cores /\ steal[c].amt \in Nat /\ steal[c].lo \in Nat
      BY <1>0, <1>a DEF StealType
    <2>2. d \in Seq(Tasks \union {NoTask})
      <3>1. ASSUME NEW i \in 1 .. steal[c].amt
            PROVE  stack[v][steal[c].lo + i - 1] \in Tasks \union {NoTask}
        <4>1. bottom[v] \in 0 .. StackSize
          BY <1>0, <2>1 DEF QueueType
        <4>2. steal[c].lo + steal[c].amt <= bottom[v]
          BY <1>11 DEF Shape, ReplyOK, serialize_to
        <4>3. steal[c].lo + i - 1 \in 0 .. StackSize - 1
          BY <1>a, <2>1, <4>1, <4>2
        <4>4. QED
          BY <1>0, <2>1, <4>3 DEF QueueType
      <3>2. QED
        BY <2>1, <3>1, IsASeq
    <2> HIDE DEF d
    <2>3. steal' \in [Cores -> StealType]
      <3>1. [steal EXCEPT ![c].st = "sent"] \in [Cores -> StealType]
        BY <1>0, StField
      <3>2. [[steal EXCEPT ![c].st = "sent"] EXCEPT ![c].data = d] \in [Cores -> StealType]
        BY <2>2, <3>1, DataField
      <3>3. QED
        BY <1>11, <3>2 DEF serialize_to, d
    <2>4. CountType'
      BY <1>0, <1>11, <2>1 DEF CountType, serialize_to
    <2>5. QueueType' /\ ManagerType' /\ TaskType' /\ JobType' /\ worker' \in [Workers -> WorkerType]
      BY <1>0, <1>11 DEF QueueType, ManagerType, TaskType, JobType, serialize_to, queue, manager, ghost
    <2>6. QED
      BY <2>3, <2>4, <2>5, TypePartsNext
  <1>12. ASSUME NEW c \in Cores, StealReply(c) PROVE TypeOK'
    <2> DEFINE t == Reclaimed(top, c)[c]
               a == steal[c].amt
               row == [i \in 0 .. StackSize - 1 |->
                        IF i \in t .. t + a - 1 THEN steal[c].data[i - t + 1] ELSE stack[c][i]]
    <2>1. t \in 0 .. StackSize
      BY <1>0, <1>a DEF QueueType, Reclaimed
    <2>2. a \in Nat /\ Len(steal[c].data) = a /\ steal[c].data \in Seq(Tasks \union {NoTask})
      BY <1>0, <1>12, <1>a DEF StealType, Shape, ReplyOK, StealReply
    <2>3. ASSUME NEW i \in t .. t + a - 1 PROVE steal[c].data[i - t + 1] \in Tasks \union {NoTask}
      <3>1. i - t + 1 \in 1 .. Len(steal[c].data)
        BY <2>1, <2>2
      <3>2. QED
        BY <2>2, <3>1
    <2>4. row \in [0 .. StackSize - 1 -> Tasks \union {NoTask}]
      <3>1. stack[c] \in [0 .. StackSize - 1 -> Tasks \union {NoTask}]
        BY <1>0 DEF QueueType
      <3> HIDE DEF t
      <3>2. QED
        BY <2>3, <3>1
    <2>5. CASE t + a < StackSize
      <3>1. /\ stack' = [stack EXCEPT ![c] = row]
            /\ top' = [top EXCEPT ![c] = t + a]
            /\ bottom' = Reclaimed(bottom, c)
            /\ steal' = [steal EXCEPT ![c].st = "full", ![c].data = <<>>]
            /\ UNCHANGED fatal
        BY <1>12, <2>5 DEF StealReply
      <3>2. t + a \in 0 .. StackSize
        BY <1>a, <2>1, <2>2, <2>5
      <3>3. bottom' \in [Cores -> 0 .. StackSize]
        BY <1>0, <1>a, <3>1 DEF QueueType, Reclaimed
      <3> HIDE DEF t, row, a
      <3>4. QueueType'
        BY <1>0, <2>4, <3>1, <3>2, <3>3 DEF QueueType
      <3>5. steal' \in [Cores -> StealType]
        <4>1. [steal EXCEPT ![c].st = "full"] \in [Cores -> StealType]
          BY <1>0, StField
        <4>2. [[steal EXCEPT ![c].st = "full"] EXCEPT ![c].data = <<>>] \in [Cores -> StealType]
          BY <4>1, EmptySeq, DataField
        <4>3. QED
          BY <3>1, <4>2
      <3>6. CountType' /\ ManagerType' /\ TaskType' /\ JobType' /\ worker' \in [Workers -> WorkerType]
        BY <1>0, <1>12, <3>1 DEF CountType, ManagerType, TaskType, JobType, StealReply, manager, ghost
      <3>7. QED
        BY <3>4, <3>5, <3>6, TypePartsNext
    <2>6. CASE ~(t + a < StackSize)
      <3>1. fatal' = "reply" /\ UNCHANGED <<queue, steal>>
        BY <1>12, <2>6 DEF StealReply
      <3>2. QueueType' /\ steal' \in [Cores -> StealType]
        BY <1>0, <3>1 DEF QueueType, queue
      <3>3. CountType' /\ ManagerType' /\ TaskType' /\ JobType' /\ worker' \in [Workers -> WorkerType]
        BY <1>0, <1>12, <3>1 DEF CountType, ManagerType, TaskType, JobType, StealReply, manager, ghost
      <3>4. QED
        BY <3>2, <3>3, TypePartsNext
    <2>7. QED
      BY <2>5, <2>6
  <1>13. ASSUME NEW c \in Cores, StealFailed(c) \/ signal_termination(c) PROVE TypeOK'
    <2>1. steal' \in [Cores -> StealType]
      <3>1. [steal EXCEPT ![c].st = "full"] \in [Cores -> StealType]
        BY <1>0, StField
      <3>2. QED
        BY <1>0, <1>13, <3>1 DEF StealFailed, signal_termination, network
    <2>2. QueueType' /\ CountType' /\ ManagerType' /\ TaskType' /\ worker' \in [Workers -> WorkerType]
      BY <1>0, <1>13
      DEF QueueType, CountType, ManagerType, TaskType, StealFailed, signal_termination, queue,
          manager, network, ghost
    <2>3. JobType'
      BY <1>0, <1>13 DEF JobType, StealFailed, signal_termination, ghost
    <2>4. QED
      BY <2>1, <2>2, <2>3, TypePartsNext
  <1>14. ASSUME NEW c \in Cores, mark_sent(c) PROVE TypeOK'
    <2>1. IsFiniteSet(Queued(c))
      BY Finite, FS_Subset DEF Queued
    <2>2. Cardinality(Queued(c)) \in Nat
      BY <2>1, FS_CardinalityType
    <2>3. numVictimSegments[c] = unmarked[c] + Cardinality(Queued(c)) /\ unmarked[c] \in Nat
      BY <1>0 DEF Shape, SegmentsCovered, Queued, CountType
    <2>4. numVictimSegments[c] - 1 \in Nat /\ unmarked[c] - 1 \in Nat
      BY <1>14, <2>2, <2>3 DEF mark_sent
    <2>5. CountType'
      BY <1>0, <1>14, <2>4 DEF CountType, mark_sent
    <2>6. /\ QueueType' /\ ManagerType' /\ TaskType' /\ JobType'
          /\ worker' \in [Workers -> WorkerType] /\ steal' \in [Cores -> StealType]
      BY <1>0, <1>14 DEF QueueType, ManagerType, TaskType, JobType, mark_sent, queue, manager, ghost
    <2>7. QED
      BY <2>5, <2>6, TypePartsNext
  <1>15. ASSUME NEW m \in remote, spawnRemotePrivate(m) PROVE TypeOK'
    <2>1. m[1] \in Tasks /\ m[2] \in Cores
      BY <1>0 DEF TaskType
    <2>2. <<m[1]>> \o privateQ[m[2]] \in Seq(Tasks)
      BY <1>0, <2>1 DEF ManagerType
    <2>3. ManagerType'
      BY <1>0, <1>15, <2>1, <2>2 DEF ManagerType, spawnRemotePrivate, push_front
    <2>4. /\ QueueType' /\ CountType' /\ TaskType' /\ JobType'
          /\ worker' \in [Workers -> WorkerType] /\ steal' \in [Cores -> StealType]
      BY <1>0, <1>15 DEF QueueType, CountType, TaskType, JobType, spawnRemotePrivate, queue, ghost
    <2>5. QED
      BY <2>3, <2>4, TypePartsNext
  <1>16. CASE UNCHANGED vars
    BY <1>0, <1>16, TypePartsNext
    DEF QueueType, CountType, ManagerType, TaskType, JobType, vars, queue, manager, network, ghost
  <1>17. QED
    BY <1>1, <1>2, <1>3, <1>4, <1>5, <1>7, <1>8, <1>9, <1>10, <1>11, <1>12, <1>13, <1>14, <1>15, <1>16
    DEF Next, WorkerStep, Spawn, StealStep, Terminated

(***************************************************************************)
(* Segments                                                                *)
(***************************************************************************)
\* The count follows the replies: adding one, removing one.
LEMMA QueuedCount ==
  ASSUME NEW v \in Cores
  PROVE  /\ IsFiniteSet(Queued(v)) /\ Cardinality(Queued(v)) \in Nat
         /\ \A c : c \notin Queued(v) =>
               Cardinality(Queued(v) \union {c}) = Cardinality(Queued(v)) + 1
         /\ \A c \in Queued(v) : Cardinality(Queued(v) \ {c}) = Cardinality(Queued(v)) - 1
  <1>1. IsFiniteSet(Queued(v))
    BY Finite, FS_Subset DEF Queued
  <1>2. Cardinality(Queued(v)) \in Nat
    BY <1>1, FS_CardinalityType
  <1>3. ASSUME NEW c, c \notin Queued(v)
        PROVE  Cardinality(Queued(v) \union {c}) = Cardinality(Queued(v)) + 1
    BY <1>1, <1>3, FS_AddElement
  <1>4. ASSUME NEW c \in Queued(v)
        PROVE  Cardinality(Queued(v) \ {c}) = Cardinality(Queued(v)) - 1
    BY <1>1, FS_RemoveElement
  <1>5. QED
    BY <1>1, <1>2, <1>3, <1>4

\* Every step leaves numVictimSegments at the number of replies that are still
\* to be marked as sent.
LEMMA NextSegments == Shape /\ [Next]_vars => SegmentsCovered'
  <1> SUFFICES ASSUME Shape, [Next]_vars PROVE SegmentsCovered'
    OBVIOUS
  <1>0. /\ SegmentsCovered /\ CountType /\ steal \in [Cores -> StealType]
        /\ \A v \in Cores : numVictimSegments[v] = unmarked[v] + Cardinality(Queued(v))
    BY TypeParts DEF Shape, SegmentsCovered, Queued
  <1>a. SUFFICES ASSUME NEW v \in Cores
                 PROVE  numVictimSegments'[v] = unmarked'[v] + Cardinality(Queued(v)')
    BY DEF SegmentsCovered, Queued
  <1>b. numVictimSegments[v] \in Nat /\ unmarked[v] \in Nat /\ Cardinality(Queued(v)) \in Nat
    BY <1>0, QueuedCount DEF CountType
  <1>1. ASSUME UNCHANGED <<numVictimSegments, unmarked>>, Queued(v)' = Queued(v)
        PROVE  numVictimSegments'[v] = unmarked'[v] + Cardinality(Queued(v)')
    BY <1>0, <1>1
  <1>2. ASSUME NEW w \in Workers, WorkerStep(w)
        PROVE  UNCHANGED <<numVictimSegments, unmarked>> /\ Queued(v)' = Queued(v)
    <2>1. UNCHANGED <<numVictimSegments, unmarked>>
      BY <1>2
      DEF WorkerStep, ConsumePrivate, ConsumePublic, steal_locally, thread_idle, Quit, Resume, Return,
          WaitForAll, AllCompleted, Grappa_end_tasks, network
    <2>2. QED
      BY <1>0, <1>2, <2>1, WorkerStepSteal DEF Queued, NoSteal, Workers, Core
  <1>3. ASSUME NEW w \in Workers, Spawn(w)
        PROVE  UNCHANGED <<numVictimSegments, unmarked>> /\ Queued(v)' = Queued(v)
    BY <1>3 DEF Spawn, spawnPublic, spawnLocalPrivate, Grappa_remote_privateTask, network, Queued
  <1>4. ASSUME NEW c \in Cores, StealRequest(c)
        PROVE  numVictimSegments'[v] = unmarked'[v] + Cardinality(Queued(v)')
    <2>a. /\ steal[c].st = "request" /\ steal'[c].victim = steal[c].victim
          /\ steal'[c].st = (IF StealAmount(steal[c].victim) > 0 THEN "queued" ELSE "failed")
      BY <1>0, <1>4, StealStepFields DEF StealRequest
    <2>b. \A d \in Cores \ {c} : steal'[d] = steal[d]
      BY <1>0, <1>4, StealStepFields DEF StealStep
    <2>1. CASE StealAmount(steal[c].victim) > 0 /\ steal[c].victim = v
      <3>1. Queued(v)' = Queued(v) \union {c} /\ c \notin Queued(v)
        BY <2>1, <2>a, <2>b DEF Queued
      <3>2. numVictimSegments'[v] = numVictimSegments[v] + 1 /\ unmarked' = unmarked
        BY <1>0, <1>4, <2>1 DEF StealRequest, Claim, CountType
      <3>3. Cardinality(Queued(v)') = Cardinality(Queued(v)) + 1
        BY <3>1, QueuedCount
      <3>4. QED
        BY <1>0, <1>b, <3>2, <3>3
    <2>2. CASE ~(StealAmount(steal[c].victim) > 0 /\ steal[c].victim = v)
      <3>1. Queued(v)' = Queued(v)
        BY <2>2, <2>a, <2>b DEF Queued
      <3>2. numVictimSegments'[v] = numVictimSegments[v] /\ unmarked' = unmarked
        BY <1>0, <1>4, <2>2 DEF StealRequest, Claim, CountType
      <3>3. QED
        BY <1>0, <3>1, <3>2
    <2>3. QED
      BY <2>1, <2>2
  <1>5. ASSUME NEW c \in Cores, serialize_to(c)
        PROVE  numVictimSegments'[v] = unmarked'[v] + Cardinality(Queued(v)')
    <2>1. CASE steal[c].victim = v
      <3>1. Queued(v)' = Queued(v) \ {c} /\ c \in Queued(v)
        BY <1>0, <1>5, <2>1 DEF serialize_to, Queued
      <3>2. numVictimSegments' = numVictimSegments /\ unmarked'[v] = unmarked[v] + 1
        BY <1>0, <1>5, <2>1 DEF serialize_to, CountType
      <3>3. Cardinality(Queued(v)') = Cardinality(Queued(v)) - 1
        BY <3>1, QueuedCount
      <3>4. QED
        BY <1>0, <1>b, <3>2, <3>3
    <2>2. CASE steal[c].victim # v
      <3>1. Queued(v)' = Queued(v)
        BY <1>0, <1>5, <2>2 DEF serialize_to, Queued
      <3>2. numVictimSegments' = numVictimSegments /\ unmarked'[v] = unmarked[v]
        BY <1>0, <1>5, <2>2 DEF serialize_to, CountType
      <3>3. QED
        BY <1>0, <3>1, <3>2
    <2>3. QED
      BY <2>1, <2>2
  <1>6. ASSUME NEW c \in Cores, StealReply(c) \/ StealFailed(c) \/ signal_termination(c)
        PROVE  UNCHANGED <<numVictimSegments, unmarked>> /\ Queued(v)' = Queued(v)
    <2>1. UNCHANGED <<numVictimSegments, unmarked>>
      BY <1>6 DEF StealReply, StealFailed, signal_termination, network
    <2>2. (steal[c].st # "queued" /\ steal'[c].st # "queued") \/ steal' = steal
      BY <1>0, <1>6, StealStepFields DEF StealReply, StealFailed, signal_termination, network
    <2>3. \A d \in Cores \ {c} : steal'[d] = steal[d]
      BY <1>0, <1>6, StealStepFields DEF StealStep, signal_termination, network
    <2>4. QED
      BY <2>1, <2>2, <2>3 DEF Queued
  <1>7. ASSUME NEW c \in Cores, mark_sent(c)
        PROVE  numVictimSegments'[v] = unmarked'[v] + Cardinality(Queued(v)')
    <2>1. Queued(v)' = Queued(v)
      BY <1>7 DEF mark_sent, Queued
    <2>2. \/ /\ numVictimSegments'[v] = numVictimSegments[v] /\ unmarked'[v] = unmarked[v]
          \/ /\ numVictimSegments'[v] = numVictimSegments[v] - 1 /\ unmarked'[v] = unmarked[v] - 1
      BY <1>0, <1>7 DEF mark_sent, CountType
    <2>3. QED
      BY <1>0, <1>b, <2>1, <2>2
  <1>8. ASSUME NEW m \in remote, spawnRemotePrivate(m)
        PROVE  UNCHANGED <<numVictimSegments, unmarked>> /\ Queued(v)' = Queued(v)
    BY <1>8 DEF spawnRemotePrivate, Queued
  <1>9. CASE UNCHANGED vars
    BY <1>1, <1>9 DEF vars, network, Queued
  <1>10. QED
    BY <1>1, <1>2, <1>3, <1>4, <1>5, <1>6, <1>7, <1>8, <1>9 DEF Next, StealStep, Terminated

(***************************************************************************)
(* Locks and workers                                                       *)
(***************************************************************************)
\* A worker without a session that gets no session leaves the lock right.
LEMMA LockSame ==
  ASSUME NEW c \in Cores, LockOK(c), stealLock'[c] = stealLock[c],
         (steal'[c].st = "none") <=> (steal[c].st = "none"),
         \A v \in WorkersOf(c) : worker'[v].pc = "steal" <=> worker[v].pc = "steal"
  PROVE  LockOK(c)'
  BY DEF LockOK

\* What a worker's step does to the workers.
LEMMA WorkerStepWorker ==
  ASSUME worker \in [Workers -> WorkerType], NEW w \in Workers, WorkerStep(w)
  PROVE  /\ worker' = [worker EXCEPT ![w] = worker'[w]]
         /\ worker'[w].pc = "steal" <=> steal_locally(w)
         /\ worker[w].pc = "steal" => Looking(w) \/ steal_locally(w)
  <1>1. CASE steal_locally(w)
    BY <1>1 DEF steal_locally, WorkerType
  <1>2. CASE ~steal_locally(w)
    <2>1. \E pc \in {"idle", "find", "run", "join", "end", "exited"} : \E t : Becomes(w, pc, t)
      BY <1>2
      DEF WorkerStep, ConsumePrivate, ConsumePublic, thread_idle, Quit, Resume, Return,
          WaitForAll, AllCompleted, Grappa_end_tasks
    <2>2. worker[w].pc = "steal" => Looking(w)
      BY <1>2
      DEF WorkerStep, ConsumePrivate, ConsumePublic, thread_idle, Quit, Resume, Return,
          WaitForAll, AllCompleted, Grappa_end_tasks, Running
    <2>3. QED
      BY <1>2, <2>1, <2>2 DEF Becomes
  <1>3. QED
    BY <1>1, <1>2

\* Every step leaves a core's steal lock taken by exactly the worker that steals.
LEMMA NextLock == ASSUME Shape, [Next]_vars, NEW c \in Cores PROVE LockOK(c)'
  <1>0. /\ LockOK(c) /\ steal \in [Cores -> StealType] /\ worker \in [Workers -> WorkerType]
        /\ stealLock \in [Cores -> BOOLEAN]
    BY TypeParts DEF Shape, ManagerType
  <1>a. \A w : w \in WorkersOf(c) <=> w \in Workers /\ Core(w) = c
    BY DEF WorkersOf
  <1>1. ASSUME NEW w \in Workers, WorkerStep(w) PROVE LockOK(c)'
    <2>0. \A v \in Workers \ {w} : worker'[v] = worker[v]
      BY <1>0, <1>1, WorkerStepWorker
    <2>a. Core(w) \in Cores
      BY DEF Workers, Core
    <2>1. CASE Core(w) # c
      <3>1. steal'[c] = steal[c] /\ stealLock'[c] = stealLock[c]
        BY <1>0, <1>1, <2>1, <2>a, WorkerStepSteal DEF steal_locally
      <3>2. \A v \in WorkersOf(c) : worker'[v] = worker[v]
        BY <1>a, <2>0, <2>1
      <3>3. QED
        BY <1>0, <3>1, <3>2, LockSame
    <2>2. CASE Core(w) = c /\ steal_locally(w)
      <3>1. ~stealLock'[c] /\ steal'[c].st = "request"
        BY <1>0, <2>2 DEF steal_locally, NoSteal
      <3>2. worker'[w].pc = "steal"
        BY <1>0, <2>2 DEF steal_locally, WorkerType
      <3>3. ASSUME NEW v \in WorkersOf(c), v # w PROVE worker'[v].pc # "steal"
        <4>1. worker[v].pc # "steal"
          BY <1>0, <1>a, <2>2, <3>3 DEF LockOK, steal_locally, TriesSteal
        <4>2. QED
          BY <1>a, <2>0, <3>3, <4>1
      <3>4. QED
        BY <1>a, <2>2, <3>1, <3>2, <3>3 DEF LockOK
    <2>3. CASE Core(w) = c /\ ~steal_locally(w) /\ worker[w].pc = "steal"
      <3>1. Looking(w) /\ EndSession(w)
        BY <1>1, <2>3
        DEF WorkerStep, ConsumePrivate, ConsumePublic, thread_idle, Quit, Resume, Return,
            WaitForAll, AllCompleted, Grappa_end_tasks, Running
      <3>2. stealLock'[c] /\ steal'[c].st = "none"
        BY <1>0, <2>3, <3>1 DEF EndSession, NoSteal
      <3>3. ASSUME NEW v \in WorkersOf(c) PROVE worker'[v].pc # "steal"
        <4>1. v # w => worker[v].pc # "steal"
          BY <1>0, <1>a, <2>3 DEF LockOK
        <4>2. worker'[w].pc # "steal"
          BY <1>0, <1>1, <2>3, WorkerStepWorker
        <4>3. QED
          BY <1>a, <2>0, <4>1, <4>2
      <3>4. QED
        BY <3>2, <3>3 DEF LockOK
    <2>4. CASE Core(w) = c /\ ~steal_locally(w) /\ worker[w].pc # "steal"
      <3>1. steal' = steal /\ stealLock' = stealLock
        BY <1>0, <1>1, <2>4, WorkerStepSteal
      <3>2. worker'[w].pc # "steal"
        BY <1>0, <1>1, <2>4, WorkerStepWorker
      <3>3. QED
        BY <1>0, <1>a, <2>0, <2>4, <3>1, <3>2, LockSame
    <2>5. QED
      BY <2>1, <2>2, <2>3, <2>4
  <1>2. ASSUME NEW w \in Workers, Spawn(w) PROVE LockOK(c)'
    <2>1. worker[w].pc = "run" /\ YieldsOrBlocks(w) /\ steal' = steal /\ stealLock' = stealLock
      BY <1>2
      DEF Spawn, spawnPublic, spawnLocalPrivate, Grappa_remote_privateTask, SpawningBound,
          SpawningUnbound, Spawning, Running, manager, network
    <2>2. \A v \in Workers : worker'[v].pc = "steal" <=> worker[v].pc = "steal"
      BY <1>0, <2>1 DEF YieldsOrBlocks, Becomes
    <2>3. QED
      BY <1>0, <1>a, <2>1, <2>2, LockSame
  <1>3. ASSUME NEW d \in Cores, StealStep(d) PROVE LockOK(c)'
    <2>1. stealLock' = stealLock /\ worker' = worker
      BY <1>3 DEF StealStep, StealRequest, serialize_to, StealReply, StealFailed, manager
    <2>2. steal'[d].st = "none" <=> steal[d].st = "none"
      BY <1>0, <1>3, StealStepFields DEF StealStep, StealRequest, serialize_to, StealReply, StealFailed
    <2>3. d # c => steal'[c] = steal[c]
      BY <1>0, <1>3, StealStepFields
    <2>4. QED
      BY <1>0, <2>1, <2>2, <2>3, LockSame
  <1>4. ASSUME stealLock' = stealLock, worker' = worker, steal' = steal PROVE LockOK(c)'
    BY <1>0, <1>4, LockSame
  <1>5. QED
    BY <1>1, <1>2, <1>3, <1>4
    DEF Next, mark_sent, signal_termination, spawnRemotePrivate, Terminated, vars, manager, network

\* A worker keeps a task exactly while it is in one.
LEMMA NextWorker == ASSUME Shape, [Next]_vars, NEW w \in Workers PROVE WorkerOK(w)'
  <1>0. WorkerOK(w) /\ worker \in [Workers -> WorkerType]
    BY TypeParts DEF Shape
  <1>a. user_main \in Tasks
    BY WorkStealingAssumption DEF user_main, Tasks
  <1>1. ASSUME worker'[w] = worker[w] PROVE WorkerOK(w)'
    BY <1>0, <1>1 DEF WorkerOK
  <1>2. ASSUME WorkerStep(w) PROVE WorkerOK(w)'
    <2>1. CASE ConsumePrivate(w)
      <3>1. Head(privateQ[Core(w)]) \in Tasks
        BY <2>1 DEF ConsumePrivate, privateHasEle, Shape, TypeOK, Workers, Core
      <3>2. QED
        BY <1>0, <2>1, <3>1 DEF ConsumePrivate, Becomes, WorkerOK
    <2>2. CASE ConsumePublic(w)
      <3>1. Core(w) \in Cores
        BY DEF Workers, Core
      <3>2. bottom[Core(w)] \in Int /\ top[Core(w)] \in Int
        BY <3>1 DEF Shape, TypeOK
      <3>3. top[Core(w)] - 1 \in bottom[Core(w)] .. top[Core(w)] - 1
        BY <2>2, <3>2 DEF ConsumePublic, publicHasEle, depth
      <3>4. stack[Core(w)][top[Core(w)] - 1] \in Tasks
        BY <3>1, <3>3 DEF Shape, SlotsOK
      <3>5. QED
        BY <1>0, <2>2, <3>4 DEF ConsumePublic, Becomes, WorkerOK
    <2>3. CASE steal_locally(w)
      <3>1. worker[w].task = NoTask
        BY <1>0, <2>3 DEF steal_locally, Searching, WorkerOK
      <3>2. worker'[w].pc = "steal" /\ worker'[w].task = worker[w].task
        BY <1>0, <2>3 DEF steal_locally, WorkerType
      <3>3. QED
        BY <3>1, <3>2 DEF WorkerOK
    <2>4. CASE thread_idle(w) \/ Quit(w) \/ Return(w) \/ Grappa_end_tasks(w)
      <3>1. \E pc \in {"idle", "exited", "find"} : Becomes(w, pc, NoTask)
        BY <2>4 DEF thread_idle, Quit, Return, Grappa_end_tasks
      <3>2. QED
        BY <1>0, <3>1 DEF Becomes, WorkerOK
    <2>5. CASE Resume(w)
      BY <1>0, <2>5 DEF Resume, Becomes, WorkerOK
    <2>6. CASE WaitForAll(w) \/ AllCompleted(w)
      <3>1. \E pc \in {"join", "end"} : Becomes(w, pc, user_main)
        BY <2>6 DEF WaitForAll, AllCompleted
      <3>2. QED
        BY <1>0, <1>a, <3>1 DEF Becomes, WorkerOK
    <2>7. QED
      BY <1>2, <2>1, <2>2, <2>3, <2>4, <2>5, <2>6 DEF WorkerStep
  <1>3. ASSUME Spawn(w) PROVE WorkerOK(w)'
    <2>1. worker[w].pc = "run" /\ YieldsOrBlocks(w)
      BY <1>3
      DEF Spawn, spawnPublic, spawnLocalPrivate, Grappa_remote_privateTask, SpawningBound,
          SpawningUnbound, Spawning, Running
    <2>2. QED
      BY <1>0, <2>1 DEF YieldsOrBlocks, Becomes, WorkerOK
  <1>4. ASSUME NEW v \in Workers, v # w, WorkerStep(v) \/ Spawn(v) PROVE worker'[w] = worker[w]
    <2>1. CASE WorkerStep(v)
      BY <1>0, <1>4, <2>1, WorkerStepWorker
    <2>2. CASE Spawn(v)
      BY <1>0, <1>4, <2>2
      DEF Spawn, spawnPublic, spawnLocalPrivate, Grappa_remote_privateTask, YieldsOrBlocks, Becomes
    <2>3. QED
      BY <1>4, <2>1, <2>2
  <1>5. QED
    BY <1>1, <1>2, <1>3, <1>4
    DEF Next, StealStep, StealRequest, serialize_to, StealReply, StealFailed, mark_sent,
        signal_termination, spawnRemotePrivate, Terminated, vars

(***************************************************************************)
(* Queues and replies                                                      *)
(***************************************************************************)
\* No step touches what a reply that is still to be sent points to.
LEMMA SegmentKept ==
  ASSUME Shape, [Next]_vars, NEW c \in Cores, steal[c].st = "queued"
  PROVE  LET v == steal[c].victim
         IN /\ bottom[v] <= bottom'[v]
            /\ \A i \in 0 .. bottom[v] - 1 : stack'[v][i] = stack[v][i]
  <1> DEFINE v == steal[c].victim
             Kept == /\ bottom[v] <= bottom'[v]
                     /\ \A i \in 0 .. bottom[v] - 1 : stack'[v][i] = stack[v][i]
  <1>0. /\ QueueType /\ steal \in [Cores -> StealType] /\ v \in Cores
        /\ \A d \in Cores : SlotsOK(d)
    BY TypeParts DEF Shape, StealType
  <1>a. StackSize \in Nat /\ ChunkSize \in Nat
    BY WorkStealingAssumption
  <1>b. bottom[v] \in 0 .. StackSize /\ top[v] \in 0 .. StackSize /\ bottom[v] <= top[v]
    BY <1>0 DEF QueueType, SlotsOK
  <1>c. ~MayReclaim(v)
    BY <1>0, ReclaimSafe DEF Shape
  <1> HIDE DEF v
  <1>1. ASSUME bottom' = bottom, stack' = stack PROVE Kept
    BY <1>1, <1>b
  <1>2. ASSUME NEW w \in Workers, steal_locally(w) PROVE Kept
    BY <1>0, <1>2, <1>b, <1>c DEF steal_locally, Reclaimed, QueueType
  <1>3. ASSUME NEW w \in Workers, spawnPublic(w) PROVE Kept
    <2>1. bottom' = bottom
      BY <1>3 DEF spawnPublic, push, queue
    <2>2. ASSUME NEW i \in 0 .. bottom[v] - 1 PROVE stack'[v][i] = stack[v][i]
      <3>1. CASE stack' = stack
        BY <3>1
      <3>2. CASE stack' = [stack EXCEPT ![Core(w)][top[Core(w)]] = spawned + 1]
        <4>1. Core(w) = v => i # top[Core(w)]
          BY <1>b
        <4>2. i \in 0 .. StackSize - 1
          BY <1>a, <1>b
        <4>3. QED
          BY <1>0, <3>2, <4>1, <4>2 DEF QueueType
      <3>3. QED
        BY <1>3, <3>1, <3>2 DEF spawnPublic, push, queue
    <2>3. QED
      BY <1>b, <2>1, <2>2
  <1>4. ASSUME NEW d \in Cores, StealRequest(d) PROVE Kept
    <2>1. steal[d].victim \in Cores
      BY <1>0 DEF StealType
    <2>2. StealAmount(steal[d].victim) \in 0 .. ChunkSize
      BY <1>0, <2>1, StealAmountOK DEF Shape, SlotsOK
    <2>3. /\ stack' = stack
          /\ \/ bottom' = bottom
             \/ bottom' = [bottom EXCEPT ![steal[d].victim] = @ + StealAmount(steal[d].victim)]
      BY <1>4 DEF StealRequest, Reserve
    <2>4. QED
      BY <1>0, <1>a, <1>b, <2>1, <2>2, <2>3 DEF QueueType
  <1>5. ASSUME NEW d \in Cores, StealReply(d) PROVE Kept
    <2>1. CASE UNCHANGED queue
      BY <1>1, <2>1 DEF queue
    <2>2. CASE /\ stack' = [stack EXCEPT ![d] = [i \in 0 .. StackSize - 1 |->
                              IF i \in Reclaimed(top, d)[d] .. Reclaimed(top, d)[d] + steal[d].amt - 1
                              THEN steal[d].data[i - Reclaimed(top, d)[d] + 1] ELSE stack[d][i]]]
               /\ bottom' = Reclaimed(bottom, d)
      <3>1. CASE d # v
        BY <1>0, <1>b, <2>2, <3>1 DEF QueueType, Reclaimed
      <3>2. CASE d = v
        <4>1. Reclaimed(top, d)[d] = top[v] /\ bottom' = bottom
          BY <1>0, <1>c, <2>2, <3>2 DEF Reclaimed
        <4>2. ASSUME NEW i \in 0 .. bottom[v] - 1 PROVE stack'[v][i] = stack[v][i]
          <5>1. i \in 0 .. StackSize - 1 /\ i < top[v] /\ steal[d].amt \in Nat
            BY <1>0, <1>a, <1>b DEF StealType
          <5>2. i \notin top[v] .. top[v] + steal[d].amt - 1
            BY <1>b, <5>1
          <5>3. QED
            BY <1>0, <2>2, <3>2, <4>1, <5>1, <5>2 DEF QueueType
        <4>3. QED
          BY <1>b, <4>1, <4>2
      <3>3. QED
        BY <3>1, <3>2
    <2>3. QED
      BY <1>5, <2>1, <2>2 DEF StealReply
  <1>6. Kept
    BY <1>1, <1>2, <1>3, <1>4, <1>5
    DEF Next, WorkerStep, Spawn, StealStep, ConsumePrivate, ConsumePublic, thread_idle, Quit, Resume, Return,
        WaitForAll, AllCompleted, Grappa_end_tasks, spawnLocalPrivate, Grappa_remote_privateTask,
        serialize_to, StealFailed, mark_sent, signal_termination, spawnRemotePrivate, Terminated,
        vars, queue
  <1>7. QED
    BY <1>6 DEF v

\* Replies stay as the invariant has them.
LEMMA NextReply == ASSUME Shape, [Next]_vars, NEW c \in Cores PROVE ReplyOK(c)'
  <1>0. ReplyOK(c) /\ QueueType /\ steal \in [Cores -> StealType]
    BY TypeParts DEF Shape
  <1>a. steal[c].victim \in Cores /\ steal[c].lo \in Nat /\ steal[c].amt \in Nat
    BY <1>0, WorkStealingAssumption DEF StealType
  <1>b. bottom[steal[c].victim] \in Nat /\ top[steal[c].victim] \in Nat
    BY <1>0, <1>a, WorkStealingAssumption DEF QueueType
  <1>1. ASSUME steal'[c] = steal[c] PROVE ReplyOK(c)'
    <2>1. CASE steal[c].st = "queued"
      <3> DEFINE v == steal[c].victim
      <3>1. /\ bottom[v] <= bottom'[v] /\ bottom'[v] \in Nat
            /\ \A i \in 0 .. bottom[v] - 1 : stack'[v][i] = stack[v][i]
        BY <1>a, <2>1, SegmentKept, NextType, WorkStealingAssumption DEF TypeOK
      <3>2. \A i \in steal[c].lo .. steal[c].lo + steal[c].amt - 1 : i \in 0 .. bottom[v] - 1
        BY <1>0, <1>a, <1>b, <2>1 DEF ReplyOK
      <3>3. steal[c].lo + steal[c].amt <= bottom'[v]
        BY <1>0, <1>a, <1>b, <2>1, <3>1 DEF ReplyOK
      <3>4. QED
        BY <1>0, <1>1, <2>1, <3>1, <3>2, <3>3 DEF ReplyOK
    <2>2. CASE steal[c].st # "queued"
      BY <1>0, <1>1, <2>2 DEF ReplyOK
    <2>3. QED
      BY <2>1, <2>2
  <1>2. ASSUME NEW w \in Workers, WorkerStep(w) PROVE ReplyOK(c)'
    <2>1. \/ steal'[c] = steal[c]
          \/ steal'[c].st \in {"none", "request"} /\ steal'[c].amt = 0 /\ steal'[c].data = <<>>
      BY <1>0, <1>2, WorkerStepSteal DEF NoSteal
    <2>2. QED
      BY <1>1, <2>1 DEF ReplyOK
  <1>3. ASSUME NEW d \in Cores, StealStep(d), d # c PROVE ReplyOK(c)'
    BY <1>0, <1>1, <1>3, StealStepFields
  <1>4. ASSUME StealRequest(c) PROVE ReplyOK(c)'
    <2> DEFINE v == steal[c].victim
               amt == StealAmount(v)
    <2>1. amt \in Nat /\ bottom[v] + amt <= top[v] /\ SlotsOK(v)
      <3>1. SlotsOK(v)
        BY <1>a DEF Shape
      <3>2. amt \in 0 .. ChunkSize /\ bottom[v] + amt <= top[v]
        BY <1>a, <3>1, StealAmountOK DEF Shape, SlotsOK
      <3>3. QED
        BY <3>1, <3>2, WorkStealingAssumption
    <2> HIDE DEF amt
    <2>2. steal[c].data = <<>> /\ steal[c].amt = 0
      BY <1>0, <1>4 DEF ReplyOK, StealRequest
    <2>3. CASE amt > 0
      <3>1. /\ steal'[c].st = "queued" /\ steal'[c].victim = v /\ steal'[c].lo = bottom[v]
            /\ steal'[c].amt = amt /\ steal'[c].data = <<>>
        BY <1>0, <1>4, <2>2, <2>3, StealStepFields DEF amt
      <3>2. bottom'[v] = bottom[v] + amt /\ stack' = stack
        BY <1>0, <1>4, <1>a, <2>3 DEF StealRequest, Reserve, QueueType, amt
      <3>3. ASSUME NEW i \in bottom[v] .. bottom[v] + amt - 1 PROVE stack'[v][i] \in Tasks
        <4>1. i \in bottom[v] .. top[v] - 1
          BY <1>b, <2>1
        <4>2. QED
          BY <2>1, <3>2, <4>1 DEF SlotsOK
      <3>4. QED
        BY <1>b, <2>1, <2>3, <3>1, <3>2, <3>3 DEF ReplyOK
    <2>4. CASE ~(amt > 0)
      <3>1. steal'[c].st = "failed" /\ steal'[c].amt = 0 /\ steal'[c].data = <<>>
        BY <1>0, <1>4, <2>2, <2>4, StealStepFields DEF amt
      <3>2. QED
        BY <3>1 DEF ReplyOK
    <2>5. QED
      BY <2>3, <2>4
  <1>5. ASSUME serialize_to(c) PROVE ReplyOK(c)'
    <2>1. /\ steal'[c].st = "sent" /\ steal'[c].amt = steal[c].amt
          /\ steal'[c].data = [i \in 1 .. steal[c].amt |->
                                     stack[steal[c].victim][steal[c].lo + i - 1]]
      BY <1>0, <1>5, StealStepFields
    <2>2. Len(steal'[c].data) = steal[c].amt
      BY <1>a, <2>1
    <2>3. ASSUME NEW i \in 1 .. steal[c].amt PROVE steal'[c].data[i] \in Tasks
      <3>1. steal[c].lo + i - 1 \in steal[c].lo .. steal[c].lo + steal[c].amt - 1
        BY <1>a
      <3>2. QED
        BY <1>0, <1>5, <2>1, <3>1 DEF ReplyOK, serialize_to
    <2>4. QED
      BY <2>1, <2>2, <2>3 DEF ReplyOK
  <1>6. ASSUME StealReply(c) PROVE ReplyOK(c)'
    BY <1>0, <1>1, <1>6, StealStepFields DEF ReplyOK
  <1>7. ASSUME StealFailed(c) PROVE ReplyOK(c)'
    BY <1>0, <1>7, StealStepFields DEF ReplyOK, StealFailed
  <1>8. QED
    BY <1>1, <1>2, <1>3, <1>4, <1>5, <1>6, <1>7
    DEF Next, Spawn, StealStep, spawnPublic, spawnLocalPrivate, Grappa_remote_privateTask,
        mark_sent, signal_termination, spawnRemotePrivate, Terminated, vars, network

\* Queues stay as the invariant has them.
LEMMA NextSlots == ASSUME Shape, [Next]_vars, NEW c \in Cores PROVE SlotsOK(c)'
  <1>0. SlotsOK(c) /\ QueueType /\ TaskType /\ steal \in [Cores -> StealType]
    BY TypeParts DEF Shape
  <1>a. StackSize \in Nat /\ ChunkSize \in Nat /\ MaxTasks \in Nat
    BY WorkStealingAssumption
  <1>b. bottom[c] \in 0 .. StackSize /\ top[c] \in 0 .. StackSize
    BY <1>0 DEF QueueType
  <1>1. ASSUME stack'[c] = stack[c], bottom'[c] = bottom[c], top'[c] = top[c] PROVE SlotsOK(c)'
    BY <1>0, <1>1 DEF SlotsOK
  <1>2. ASSUME NEW w \in Workers, ConsumePublic(w) PROVE SlotsOK(c)'
    <2>1. CASE Core(w) # c
      BY <1>0, <1>1, <1>2, <2>1 DEF ConsumePublic, QueueType
    <2>2. CASE Core(w) = c
      <3>1. /\ stack' = stack /\ bottom' = bottom /\ top'[c] = top[c] - 1
            /\ bottom[c] <= top[c] - 1
        BY <1>0, <1>2, <1>b, <2>2 DEF ConsumePublic, QueueType, publicHasEle, depth
      <3>2. QED
        BY <1>0, <1>b, <3>1 DEF SlotsOK
    <2>3. QED
      BY <2>1, <2>2
  <1>3. ASSUME NEW w \in Workers, steal_locally(w) PROVE SlotsOK(c)'
    <2>1. CASE Core(w) = c /\ MayReclaim(c)
      <3>1. bottom'[c] = 0 /\ top'[c] = 0
        BY <1>0, <1>3, <2>1 DEF steal_locally, Reclaimed, QueueType
      <3>2. QED
        BY <3>1 DEF SlotsOK
    <2>2. CASE ~(Core(w) = c /\ MayReclaim(c))
      BY <1>0, <1>1, <1>3, <2>2 DEF steal_locally, Reclaimed, QueueType
    <2>3. QED
      BY <2>1, <2>2
  <1>4. ASSUME NEW w \in Workers, spawnPublic(w) PROVE SlotsOK(c)'
    <2>1. CASE Core(w) = c /\ top[c] < StackSize
      <3>1. /\ stack' = [stack EXCEPT ![c][top[c]] = spawned + 1]
            /\ top' = [top EXCEPT ![c] = @ + 1] /\ bottom' = bottom
        BY <1>4, <2>1 DEF spawnPublic, push
      <3>2. spawned + 1 \in Tasks
        BY <1>0, <1>4, <1>a DEF TaskType, spawnPublic, SpawningUnbound, Spawning, Tasks
      <3>3. top'[c] = top[c] + 1 /\ bottom'[c] = bottom[c]
        BY <1>0, <3>1 DEF QueueType
      <3>4. ASSUME NEW i \in bottom[c] .. top[c] PROVE stack'[c][i] \in Tasks
        <4>1. i \in 0 .. StackSize - 1 /\ (i # top[c] => i \in bottom[c] .. top[c] - 1)
          BY <1>a, <1>b, <2>1
        <4>2. stack'[c][i] = IF i = top[c] THEN spawned + 1 ELSE stack[c][i]
          BY <1>0, <3>1, <4>1 DEF QueueType
        <4>3. QED
          BY <1>0, <3>2, <4>1, <4>2 DEF SlotsOK
      <3>5. QED
        BY <1>0, <1>b, <3>3, <3>4 DEF SlotsOK
    <2>2. CASE ~(Core(w) = c /\ top[c] < StackSize)
      BY <1>0, <1>1, <1>4, <2>2 DEF spawnPublic, push, queue, QueueType
    <2>3. QED
      BY <2>1, <2>2
  <1>5. ASSUME NEW d \in Cores, StealRequest(d) PROVE SlotsOK(c)'
    <2>1. CASE steal[d].victim = c
      <3>1. StealAmount(c) \in 0 .. ChunkSize /\ bottom[c] + StealAmount(c) <= top[c]
        BY <1>0, StealAmountOK DEF Shape, SlotsOK
      <3>2. stack' = stack /\ top' = top /\ bottom'[c] \in {bottom[c], bottom[c] + StealAmount(c)}
        BY <1>0, <1>5, <2>1 DEF StealRequest, Reserve, QueueType
      <3>3. bottom'[c] \in bottom[c] .. top[c]
        BY <1>0, <1>a, <1>b, <3>1, <3>2 DEF SlotsOK
      <3>4. QED
        BY <1>0, <1>b, <3>2, <3>3 DEF SlotsOK
    <2>2. CASE steal[d].victim # c
      BY <1>0, <1>1, <1>5, <2>2 DEF StealRequest, Reserve, QueueType
    <2>3. QED
      BY <2>1, <2>2
  <1>6. ASSUME NEW d \in Cores, StealReply(d) PROVE SlotsOK(c)'
    <2>1. CASE d = c /\ Reclaimed(top, c)[c] + steal[c].amt < StackSize
      <3> DEFINE t == Reclaimed(top, c)[c]
                 a == steal[c].amt
      <3>1. t \in 0 .. StackSize /\ a \in Nat /\ bottom'[c] <= t /\ bottom'[c] \in 0 .. StackSize
        <4>1. a \in Nat
          BY <1>0, <1>a DEF StealType
        <4>2. CASE MayReclaim(c)
          BY <1>0, <1>6, <1>a, <2>1, <4>1, <4>2 DEF Reclaimed, StealReply, QueueType
        <4>3. CASE ~MayReclaim(c)
          BY <1>0, <1>6, <1>b, <2>1, <4>1, <4>3 DEF Reclaimed, StealReply, SlotsOK
        <4>4. QED
          BY <4>2, <4>3
      <3>2. top'[c] = t + a
        BY <1>0, <1>6, <2>1 DEF StealReply, QueueType
      <3>3. \A i \in 0 .. StackSize - 1 :
              stack'[c][i] = IF i \in t .. t + a - 1 THEN steal[c].data[i - t + 1] ELSE stack[c][i]
        BY <1>0, <1>6, <2>1 DEF StealReply, QueueType
      <3>4. Len(steal[c].data) = a /\ \A i \in 1 .. a : steal[c].data[i] \in Tasks
        BY <1>6, <2>1 DEF Shape, ReplyOK, StealReply
      <3>5. (t = top[c] /\ bottom'[c] = bottom[c]) \/ (t = 0 /\ bottom'[c] = 0)
        BY <1>0, <1>6, <2>1 DEF Reclaimed, StealReply, QueueType
      <3> HIDE DEF t
      <3>6. ASSUME NEW i \in bottom'[c] .. t + a - 1 PROVE stack'[c][i] \in Tasks
        <4>1. i \in 0 .. StackSize - 1
          BY <1>a, <2>1, <3>1 DEF t
        <4>2. CASE i \in t .. t + a - 1
          <5>1. i - t + 1 \in 1 .. a
            BY <3>1, <4>2
          <5>2. QED
            BY <3>3, <3>4, <4>1, <4>2, <5>1
        <4>3. CASE i \notin t .. t + a - 1
          <5>1. i \in bottom[c] .. top[c] - 1
            BY <1>b, <3>1, <3>5, <4>3
          <5>2. QED
            BY <1>0, <3>3, <4>1, <4>3, <5>1 DEF SlotsOK
        <4>4. QED
          BY <4>2, <4>3
      <3>7. QED
        BY <3>1, <3>2, <3>6 DEF SlotsOK
    <2>2. CASE ~(d = c /\ Reclaimed(top, c)[c] + steal[c].amt < StackSize)
      BY <1>0, <1>1, <1>6, <2>2 DEF StealReply, Reclaimed, queue, QueueType
    <2>3. QED
      BY <2>1, <2>2
  <1>7. QED
    BY <1>1, <1>2, <1>3, <1>4, <1>5, <1>6
    DEF Next, WorkerStep, Spawn, StealStep, ConsumePrivate, thread_idle, Quit, Resume, Return,
        WaitForAll, AllCompleted, Grappa_end_tasks, spawnLocalPrivate, Grappa_remote_privateTask,
        serialize_to, StealFailed, mark_sent, signal_termination, spawnRemotePrivate, Terminated,
        vars, queue

\* The shape of the state is inductive.
LEMMA NextShape == Shape /\ [Next]_vars => Shape'
  <1> SUFFICES ASSUME Shape, [Next]_vars PROVE Shape'
    OBVIOUS
  <1>1. TypeOK' /\ SegmentsCovered'
    BY NextType, NextSegments
  <1>2. \A c \in Cores : ReplyOK(c)' /\ SlotsOK(c)' /\ LockOK(c)'
    BY NextReply, NextSlots, NextLock
  <1>3. \A w \in Workers : WorkerOK(w)'
    BY NextWorker
  <1>4. QED
    BY <1>1, <1>2, <1>3 DEF Shape

\* It holds of the state in which only user_main exists.
LEMMA InitShape == Init => Shape
  <1> SUFFICES ASSUME Init PROVE Shape
    OBVIOUS
  <1>a. /\ NumCores \in Nat \ {0} /\ NumWorkers \in Nat \ {0} /\ StackSize \in Nat
        /\ ChunkSize \in Nat \ {0} /\ MaxTasks \in Nat \ {0}
        /\ FirstTasks \in 0 .. MaxTasks - 1 /\ FirstTasks <= StackSize
    BY WorkStealingAssumption
  <1>b. 0 \in Cores /\ user_main \in Tasks /\ <<0, 1>> \in Workers
    BY <1>a DEF Cores, Tasks, user_main, Workers
  <1>1. TypeOK
    <2>1. QueueType
      <3>1. ASSUME NEW i \in 0 .. FirstTasks - 1 PROVE i + 2 \in Tasks
        BY <1>a DEF Tasks
      <3>3. stack \in [Cores -> [0 .. StackSize - 1 -> Tasks \union {NoTask}]]
        BY <1>a, <3>1 DEF Init
      <3>4. bottom \in [Cores -> 0 .. StackSize] /\ top \in [Cores -> 0 .. StackSize]
        BY <1>a DEF Init
      <3>5. QED
        BY <3>3, <3>4 DEF QueueType
    <2>2. CountType /\ JobType
      BY DEF Init, CountType, JobType
    <2>3. ManagerType
      BY <1>b DEF Init, ManagerType
    <2>4. TaskType
      BY <1>a DEF Init, TaskType, Tasks
    <2>5. worker \in [Workers -> WorkerType]
      <3>1. 0 \in 0 .. NumCores
        BY <1>a
      <3>2. QED
        BY <1>b, <3>1 DEF Init, WorkerType
    <2>6. steal \in [Cores -> StealType]
      BY NoStealType DEF Init
    <2>7. QED
      BY <2>1, <2>2, <2>3, <2>4, <2>5, <2>6, TypeParts
  <1>2. SegmentsCovered
    <2>1. \A v \in Cores : Queued(v) = {}
      BY DEF Init, Queued, NoSteal
    <2>2. Cardinality({}) = 0
      BY FS_EmptySet
    <2>3. \A v \in Cores : numVictimSegments[v] = 0 /\ unmarked[v] = 0
      BY DEF Init
    <2>4. \A v \in Cores : numVictimSegments[v] = unmarked[v] + Cardinality(Queued(v))
      BY <2>1, <2>2, <2>3
    <2>5. QED
      BY <2>4 DEF SegmentsCovered, Queued
  <1>3. ASSUME NEW c \in Cores PROVE ReplyOK(c) /\ SlotsOK(c) /\ LockOK(c)
    <2>1. ReplyOK(c)
      BY DEF Init, ReplyOK, NoSteal
    <2>2. SlotsOK(c)
      <3>1. ASSUME NEW i \in bottom[c] .. top[c] - 1 PROVE stack[c][i] \in Tasks
        <4>1. c = 0 /\ i \in 0 .. FirstTasks - 1
          BY <1>a DEF Init
        <4>2. i + 2 \in Tasks /\ i \in 0 .. StackSize - 1
          BY <1>a, <4>1 DEF Tasks
        <4>3. QED
          BY <4>1, <4>2 DEF Init
      <3>2. bottom[c] = 0 /\ top[c] \in Nat
        BY <1>a DEF Init
      <3>3. bottom[c] <= top[c]
        BY <3>2
      <3>4. QED
        BY <3>1, <3>3 DEF SlotsOK
    <2>3. LockOK(c)
      BY DEF Init, LockOK, NoSteal, WorkersOf
    <2>4. QED
      BY <2>1, <2>2, <2>3
  <1>4. ASSUME NEW w \in Workers PROVE WorkerOK(w)
    BY <1>b DEF Init, WorkerOK
  <1>5. QED
    BY <1>1, <1>2, <1>3, <1>4 DEF Shape

\* So it is an invariant: cursors, locks, messages and workers agree with each
\* other in every state of the task manager.
THEOREM ShapeInvariant == Spec => []Shape
  BY InitShape, NextShape, PTL DEF Spec

\* TypeOK, for every instance: cursors stay inside the arrays, whatever is
\* stolen, pushed and reclaimed.
THEOREM TypeCorrect == Spec => []TypeOK
  <1>1. Shape => TypeOK
    BY DEF Shape
  <1>2. QED
    BY <1>1, ShapeInvariant, PTL

\* SegmentsCovered, for every instance: the count that mark_sent decrements
\* covers every reply that points into the array.
THEOREM RepliesCounted == Spec => []SegmentsCovered
  <1>1. Shape => SegmentsCovered
    BY DEF Shape
  <1>2. QED
    BY <1>1, ShapeInvariant, PTL

\* OneThief, for every instance: the lock lets one worker of a core steal.
THEOREM StealsExclusive == Spec => []OneThief
  <1>1. Shape => OneThief
    <2> SUFFICES ASSUME Shape, NEW c \in Cores
                 PROVE  /\ Cardinality({w \in WorkersOf(c) : worker[w].pc = "steal"})
                             = (IF stealLock[c] THEN 0 ELSE 1)
                        /\ stealLock[c] <=> steal[c].st = "none"
      BY DEF OneThief
    <2>1. LockOK(c)
      BY DEF Shape
    <2>2. CASE stealLock[c]
      <3>1. {w \in WorkersOf(c) : worker[w].pc = "steal"} = {}
        BY <2>1, <2>2 DEF LockOK
      <3>2. QED
        BY <2>1, <2>2, <3>1, FS_EmptySet DEF LockOK
    <2>3. CASE ~stealLock[c]
      <3>1. PICK w \in WorkersOf(c) : \A v \in WorkersOf(c) : worker[v].pc = "steal" <=> v = w
        BY <2>1, <2>3 DEF LockOK
      <3>2. {v \in WorkersOf(c) : worker[v].pc = "steal"} = {w}
        BY <3>1
      <3>3. QED
        BY <2>1, <2>3, <3>2, FS_Singleton DEF LockOK
    <2>4. QED
      BY <2>2, <2>3
  <1>2. QED
    BY <1>1, ShapeInvariant, PTL

(***************************************************************************)
(* Each task is in one place: how places change                            *)
(***************************************************************************)
\* A task in a place of kind k is in no other place.
LEMMA SoleHere ==
  ASSUME NEW t, Sole(t), NEW k \in Kinds, NEW x \in At(t)[k]
  PROVE  At(t)[k] = {x} /\ \A i \in Kinds \ {k} : At(t)[i] = {}
  BY DEF Sole, SoleOf

\* A step that moves a task from a place of kind j to one of kind k.
LEMMA MoveAt ==
  ASSUME NEW t, Sole(t), NEW j \in Kinds, NEW k \in Kinds, j # k, NEW x \in At(t)[j], NEW y,
         At(t)'[j] = At(t)[j] \ {x}, At(t)'[k] = At(t)[k] \union {y},
         \A i \in Kinds \ {j, k} : At(t)'[i] = At(t)[i]
  PROVE  Sole(t)'
  <1>1. At(t)[j] = {x} /\ \A i \in Kinds \ {j} : At(t)[i] = {}
    BY SoleHere
  <1>2. At(t)'[j] = {} /\ At(t)'[k] = {y} /\ \A i \in Kinds \ {j, k} : At(t)'[i] = {}
    BY <1>1
  <1>3. (\E z : At(t)'[k] = {z}) /\ \A i \in Kinds \ {k} : At(t)'[i] = {}
    BY <1>2
  <1>4. SoleOf(t, k)'
    BY <1>3 DEF SoleOf
  <1>5. QED
    BY <1>4 DEF Sole

\* A step that puts a task that was nowhere in a place of kind k.
LEMMA NewAt ==
  ASSUME NEW t, Nowhere(t), NEW k \in Kinds, NEW y, At(t)'[k] = At(t)[k] \union {y},
         \A i \in Kinds \ {k} : At(t)'[i] = At(t)[i]
  PROVE  Sole(t)'
  <1>1. At(t)'[k] = {y} /\ \A i \in Kinds \ {k} : At(t)'[i] = {}
    BY DEF Nowhere
  <1>2. SoleOf(t, k)'
    BY <1>1 DEF SoleOf
  <1>3. QED
    BY <1>2 DEF Sole

\* The kinds of places, read off one by one.
LEMMA AtKinds ==
  ASSUME NEW t
  PROVE  /\ At(t)["public"] = PublicAt(t) /\ At(t)["private"] = PrivateAt(t)
         /\ At(t)["pointed"] = PointedAt(t) /\ At(t)["carried"] = CarriedAt(t)
         /\ At(t)["running"] = RunningAt(t) /\ At(t)["remote"] = SpawnedAt(t)
         /\ At(t)["done"] = done \intersect {t}
  BY DEF At

\* The same of the next state.
LEMMA AtKindsNext ==
  ASSUME NEW t
  PROVE  /\ At(t)'["public"] = PublicAt(t)' /\ At(t)'["private"] = PrivateAt(t)'
         /\ At(t)'["pointed"] = PointedAt(t)' /\ At(t)'["carried"] = CarriedAt(t)'
         /\ At(t)'["running"] = RunningAt(t)' /\ At(t)'["remote"] = SpawnedAt(t)'
         /\ At(t)'["done"] = done' \intersect {t}
  BY DEF At

\* The places of every kind outside S are the same.
LEMMA KindsSame ==
  ASSUME NEW t, NEW S,
         "public" \notin S => PublicAt(t)' = PublicAt(t),
         "private" \notin S => PrivateAt(t)' = PrivateAt(t),
         "pointed" \notin S => PointedAt(t)' = PointedAt(t),
         "carried" \notin S => CarriedAt(t)' = CarriedAt(t),
         "running" \notin S => RunningAt(t)' = RunningAt(t),
         "remote" \notin S => SpawnedAt(t)' = SpawnedAt(t),
         "done" \notin S => done' \intersect {t} = done \intersect {t}
  PROVE  \A i \in Kinds \ S : At(t)'[i] = At(t)[i]
  <1>1. ASSUME NEW i \in Kinds \ S PROVE At(t)'[i] = At(t)[i]
    <2>1. CASE i = "public"
      BY <1>1, <2>1, AtKinds, AtKindsNext
    <2>2. CASE i = "private"
      BY <1>1, <2>2, AtKinds, AtKindsNext
    <2>3. CASE i = "pointed"
      BY <1>1, <2>3, AtKinds, AtKindsNext
    <2>4. CASE i = "carried"
      BY <1>1, <2>4, AtKinds, AtKindsNext
    <2>5. CASE i = "running"
      BY <1>1, <2>5, AtKinds, AtKindsNext
    <2>6. CASE i = "remote"
      BY <1>1, <2>6, AtKinds, AtKindsNext
    <2>7. CASE i = "done"
      <3>1. At(t)'["done"] = done' \intersect {t} /\ At(t)["done"] = done \intersect {t}
        BY AtKinds, AtKindsNext
      <3>2. QED
        BY <1>1, <2>7, <3>1
    <2>8. QED
      BY <2>1, <2>2, <2>3, <2>4, <2>5, <2>6, <2>7 DEF Kinds
  <1>2. QED
    BY <1>1

\* What it is to be in a private queue.
LEMMA InPrivate ==
  ASSUME NEW t, NEW x
  PROVE  x \in PrivateAt(t) <=>
           \E c \in Cores : \E i \in 0 .. Len(privateQ[c]) - 1 :
              x = <<c, i>> /\ privateQ[c][Len(privateQ[c]) - i] = t
  BY DEF PrivateAt

\* The same of the next state.
LEMMA InPrivateNext ==
  ASSUME NEW t, NEW x
  PROVE  x \in PrivateAt(t)' <=>
           \E c \in Cores : \E i \in 0 .. Len(privateQ'[c]) - 1 :
              x = <<c, i>> /\ privateQ'[c][Len(privateQ'[c]) - i] = t
  BY DEF PrivateAt

\* What it is to be in a message, now and in the next state.
LEMMA InCarried ==
  ASSUME NEW t, NEW x
  PROVE  /\ x \in CarriedAt(t) <=>
               \E c \in Cores : \E i \in 1 .. Len(steal[c].data) :
                  x = <<c, i>> /\ steal[c].data[i] = t
         /\ x \in CarriedAt(t)' <=>
               \E c \in Cores : \E i \in 1 .. Len(steal'[c].data) :
                  x = <<c, i>> /\ steal'[c].data[i] = t
  BY DEF CarriedAt

\* Steals that stay as they are, or neither were nor are queued, keep what
\* replies point to.
LEMMA PointedSame ==
  ASSUME Shape, [Next]_vars, NEW t,
         \A c \in Cores : \/ steal'[c] = steal[c]
                          \/ steal[c].st # "queued" /\ steal'[c].st # "queued"
  PROVE  PointedAt(t)' = PointedAt(t)
  <1>1. ASSUME NEW p \in Slots, steal[p[1]].st = "queued",
               p[2] \in steal[p[1]].lo .. steal[p[1]].lo + steal[p[1]].amt - 1
        PROVE  stack'[steal[p[1]].victim][p[2]] = stack[steal[p[1]].victim][p[2]]
    <2>1. p[1] \in Cores
      BY DEF Slots
    <2>2. ReplyOK(p[1]) /\ steal[p[1]] \in StealType /\ QueueType
      BY <2>1, TypeParts DEF Shape
    <2>3. steal[p[1]].lo \in Nat /\ steal[p[1]].amt \in Nat /\ bottom[steal[p[1]].victim] \in Nat
      BY <2>2, WorkStealingAssumption DEF StealType, QueueType
    <2>4. p[2] \in 0 .. bottom[steal[p[1]].victim] - 1
      BY <1>1, <2>2, <2>3 DEF ReplyOK
    <2>5. QED
      BY <1>1, <2>1, <2>4, SegmentKept
  <1>2. \A p \in Slots : p[1] \in Cores
    BY DEF Slots
  <1>3. QED
    BY <1>1, <1>2 DEF PointedAt

\* The three lemmas again, for tasks spawned and not.
LEMMA SameFine ==
  ASSUME NEW t, Fine(t), spawned' = spawned, \A k \in Kinds : At(t)'[k] = At(t)[k]
  PROVE  Fine(t)'
  BY DEF Fine, Sole, SoleOf, Nowhere

\* A step that takes a task out of one place and puts it in one of another kind
\* leaves it in one place.
LEMMA MoveFine ==
  ASSUME TypeOK, NEW t \in Tasks, Fine(t), spawned' = spawned,
         NEW j \in Kinds, NEW k \in Kinds, j # k, NEW x \in At(t)[j], NEW y,
         At(t)'[j] = At(t)[j] \ {x}, At(t)'[k] = At(t)[k] \union {y},
         \A i \in Kinds \ {j, k} : At(t)'[i] = At(t)[i]
  PROVE  Fine(t)'
  <1>1. t \in Int /\ spawned \in Int
    BY DEF TypeOK, Tasks
  <1>2. t <= spawned
    BY <1>1 DEF Fine, Nowhere
  <1>3. Sole(t)'
    BY <1>2, MoveAt DEF Fine
  <1>4. QED
    BY <1>1, <1>2, <1>3 DEF Fine

\* A step that spawns a task puts the new one in one place, and leaves the others.
LEMMA NewFine ==
  ASSUME TypeOK, NEW t \in Tasks, Fine(t), spawned' = spawned + 1,
         NEW k \in Kinds, NEW y,
         At(t)'[k] = IF t = spawned + 1 THEN At(t)[k] \union {y} ELSE At(t)[k],
         \A i \in Kinds \ {k} : At(t)'[i] = At(t)[i]
  PROVE  Fine(t)'
  <1>1. t \in Int /\ spawned \in Int
    BY DEF TypeOK, Tasks
  <1>2. CASE t = spawned + 1
    <2>1. Nowhere(t)
      BY <1>1, <1>2 DEF Fine
    <2>2. Sole(t)'
      BY <1>2, <2>1, NewAt
    <2>3. QED
      BY <1>1, <1>2, <2>2 DEF Fine
  <1>3. CASE t # spawned + 1
    <2>1. \A i \in Kinds : At(t)'[i] = At(t)[i]
      BY <1>3
    <2>2. (t <= spawned + 1 => t <= spawned) /\ (t > spawned + 1 => t > spawned)
      BY <1>1, <1>3
    <2>3. (Sole(t) => Sole(t)') /\ (Nowhere(t) => Nowhere(t)')
      BY <2>1 DEF Sole, SoleOf, Nowhere
    <2>4. QED
      BY <2>2, <2>3 DEF Fine
  <1>4. QED
    BY <1>2, <1>3

\* The tasks of the workers, when worker w gets task u.
LEMMA RunningGets ==
  ASSUME worker \in [Workers -> WorkerType], NEW w \in Workers, worker[w].task = NoTask,
         NEW u, NEW pc, Becomes(w, pc, u), NEW t \in Tasks
  PROVE  RunningAt(t)' = IF t = u THEN RunningAt(t) \union {w} ELSE RunningAt(t)
  <1>1. t # NoTask
    BY DEF Tasks, NoTask
  <1>2. worker'[w].task = u /\ \A v \in Workers \ {w} : worker'[v] = worker[v]
    BY DEF Becomes
  <1>3. QED
    BY <1>1, <1>2 DEF RunningAt

\* The end of a session moves no task.
LEMMA EndSessionPlaces ==
  ASSUME Shape, [Next]_vars, NEW w \in Workers, Looking(w), EndSession(w), NEW t
  PROVE  PointedAt(t)' = PointedAt(t) /\ CarriedAt(t)' = CarriedAt(t)
  <1>1. Core(w) \in Cores /\ steal \in [Cores -> StealType] /\ \A c \in Cores : ReplyOK(c)
    BY TypeParts DEF Shape, Workers, Core
  <1>2. \/ steal' = steal
        \/ steal[Core(w)].st = "full" /\ steal' = [steal EXCEPT ![Core(w)] = NoSteal]
    BY DEF EndSession, Looking, Searching, nextCoroutine, Ready
  <1>3. PointedAt(t)' = PointedAt(t)
    BY <1>1, <1>2, PointedSame DEF NoSteal
  <1>4. \A c \in Cores : steal'[c].data = steal[c].data
    BY <1>1, <1>2 DEF ReplyOK, NoSteal
  <1>5. QED
    BY <1>3, <1>4 DEF CarriedAt

\* The head of a private queue runs.
LEMMA OnceConsumePrivate ==
  ASSUME Shape, [Next]_vars, NEW t \in Tasks, Fine(t), NEW w \in Workers, ConsumePrivate(w)
  PROVE  Fine(t)'
  <1> DEFINE c == Core(w)
             q == privateQ[c]
             x == <<c, Len(q) - 1>>
  <1>1. /\ c \in Cores /\ TypeOK /\ worker \in [Workers -> WorkerType]
        /\ privateQ \in [Cores -> Seq(Tasks)]
    BY TypeParts DEF Shape, ManagerType, Workers, Core
  <1>2. q \in Seq(Tasks) /\ q # <<>> /\ privateQ' = [privateQ EXCEPT ![c] = Tail(q)]
    BY <1>1 DEF ConsumePrivate, privateHasEle
  <1>3. /\ Len(q) \in Nat \ {0} /\ Len(Tail(q)) = Len(q) - 1
        /\ \A i \in 1 .. Len(q) - 1 : Tail(q)[i] = q[i + 1]
        /\ q[1] = Head(q)
    BY <1>2
  <1>a. Len(q) \in Nat \ {0}
    BY <1>3
  <1>4. PrivateAt(t)' = PrivateAt(t) \ {x}
    <2>1. ASSUME NEW i \in 0 .. Len(q) - 2 PROVE Tail(q)[Len(q) - 1 - i] = q[Len(q) - i]
      <3>1. Len(q) - 1 - i \in 1 .. Len(q) - 1 /\ (Len(q) - 1 - i) + 1 = Len(q) - i
        BY <1>3
      <3>2. QED
        BY <1>3, <3>1
    <2>2. privateQ'[c] = Tail(q) /\ \A d \in Cores \ {c} : privateQ'[d] = privateQ[d]
      BY <1>1, <1>2
    <2> HIDE DEF c, q
    <2>3. ASSUME NEW p PROVE p \in PrivateAt(t)' <=> p \in PrivateAt(t) /\ p # x
      <3>1. ASSUME p \in PrivateAt(t)' PROVE p \in PrivateAt(t) /\ p # x
        <4>1. PICK d \in Cores : \E i \in 0 .. Len(privateQ'[d]) - 1 :
                     p = <<d, i>> /\ privateQ'[d][Len(privateQ'[d]) - i] = t
          BY <3>1, InPrivateNext
        <4>2. PICK i \in 0 .. Len(privateQ'[d]) - 1 :
                     p = <<d, i>> /\ privateQ'[d][Len(privateQ'[d]) - i] = t
          BY <4>1
        <4>3. CASE d # c
          BY <2>2, <4>2, <4>3, InPrivate
        <4>4. CASE d = c
          <5>1. i \in 0 .. Len(q) - 2 /\ i \in 0 .. Len(q) - 1 /\ i # Len(q) - 1
            <6>1. Len(privateQ'[d]) = Len(q) - 1
              BY <1>3, <2>2, <4>4
            <6>2. i \in 0 .. (Len(q) - 1) - 1
              BY <4>2, <6>1
            <6>3. QED
              BY <1>a, <6>2
          <5>2. privateQ[d][Len(privateQ[d]) - i] = t
            BY <1>3, <2>1, <2>2, <4>2, <4>4, <5>1 DEF q
          <5>3. QED
            BY <4>2, <4>4, <5>1, <5>2, InPrivate DEF q
        <4>5. QED
          BY <4>3, <4>4
      <3>2. ASSUME p \in PrivateAt(t), p # x PROVE p \in PrivateAt(t)'
        <4>1. PICK d \in Cores : \E i \in 0 .. Len(privateQ[d]) - 1 :
                     p = <<d, i>> /\ privateQ[d][Len(privateQ[d]) - i] = t
          BY <3>2, InPrivate
        <4>2. PICK i \in 0 .. Len(privateQ[d]) - 1 :
                     p = <<d, i>> /\ privateQ[d][Len(privateQ[d]) - i] = t
          BY <4>1
        <4>3. CASE d # c
          BY <2>2, <4>2, <4>3, InPrivateNext
        <4>4. CASE d = c
          <5>1. i # Len(q) - 1
            BY <3>2, <4>2, <4>4
          <5>2. i \in 0 .. Len(q) - 2 /\ i \in 0 .. Len(privateQ'[d]) - 1
            <6>1. Len(privateQ'[d]) = Len(q) - 1 /\ i \in 0 .. Len(q) - 1
              BY <1>3, <2>2, <4>2, <4>4 DEF q
            <6>2. i \in 0 .. Len(q) - 2 /\ i \in 0 .. (Len(q) - 1) - 1
              BY <1>a, <5>1, <6>1
            <6>3. QED
              BY <6>1, <6>2
          <5>3. privateQ'[d][Len(privateQ'[d]) - i] = t
            BY <1>3, <2>1, <2>2, <4>2, <4>4, <5>2 DEF q
          <5>4. QED
            BY <4>2, <5>2, <5>3, InPrivateNext
        <4>5. QED
          BY <4>3, <4>4
      <3>3. QED
        BY <3>1, <3>2
    <2>4. QED
      BY <2>3
  <1>5. x \in PrivateAt(t) <=> t = Head(q)
    <2>1. Len(q) - (Len(q) - 1) = 1 /\ Len(q) - 1 \in 0 .. Len(q) - 1
      BY <1>3
    <2>2. QED
      BY <1>1, <1>3, <2>1, InPrivate
  <1>6. RunningAt(t)' = IF t = Head(q) THEN RunningAt(t) \union {w} ELSE RunningAt(t)
    <2>1. worker[w].task = NoTask
      BY DEF Shape, WorkerOK, ConsumePrivate, Looking, Searching
    <2>2. QED
      BY <1>1, <2>1, RunningGets DEF ConsumePrivate
  <1>7. /\ PublicAt(t)' = PublicAt(t) /\ SpawnedAt(t)' = SpawnedAt(t)
        /\ done' = done /\ spawned' = spawned
    BY DEF ConsumePrivate, PublicAt, SpawnedAt, queue, ghost
  <1>8. PointedAt(t)' = PointedAt(t) /\ CarriedAt(t)' = CarriedAt(t)
    BY EndSessionPlaces DEF ConsumePrivate
  <1> HIDE DEF x, q
  <1>9. CASE t = Head(q)
    <2>1. \A i \in Kinds \ {"private", "running"} : At(t)'[i] = At(t)[i]
      BY <1>7, <1>8, KindsSame
    <2>2. /\ x \in At(t)["private"] /\ At(t)'["private"] = At(t)["private"] \ {x}
          /\ At(t)'["running"] = At(t)["running"] \union {w}
      BY <1>4, <1>5, <1>6, <1>9, AtKinds, AtKindsNext
    <2>3. "private" \in Kinds /\ "running" \in Kinds /\ "private" # "running"
      BY DEF Kinds
    <2>4. QED
      BY <1>1, <1>7, <2>1, <2>2, <2>3, MoveFine
  <1>10. CASE t # Head(q)
    <2>1. \A i \in Kinds \ {} : At(t)'[i] = At(t)[i]
      BY <1>4, <1>5, <1>6, <1>7, <1>8, <1>10, KindsSame
    <2>2. QED
      BY <1>7, <2>1, SameFine
  <1>11. QED
    BY <1>9, <1>10

\* The top of a public queue runs.
LEMMA OnceConsumePublic ==
  ASSUME Shape, [Next]_vars, NEW t \in Tasks, Fine(t), NEW w \in Workers, ConsumePublic(w)
  PROVE  Fine(t)'
  <1> DEFINE c == Core(w)
             x == <<c, top[c] - 1>>
             u == stack[c][top[c] - 1]
  <1>1. /\ c \in Cores /\ TypeOK /\ worker \in [Workers -> WorkerType] /\ QueueType
    BY TypeParts DEF Shape, Workers, Core
  <1>2. /\ bottom[c] \in 0 .. StackSize /\ top[c] \in 0 .. StackSize /\ top[c] - bottom[c] > 0
        /\ StackSize \in Nat
    BY <1>1, WorkStealingAssumption DEF QueueType, ConsumePublic, publicHasEle, depth
  <1>3. stack' = stack /\ bottom' = bottom /\ top' = [top EXCEPT ![c] = top[c] - 1]
    BY <1>1 DEF ConsumePublic
  <1>4. PublicAt(t)' = PublicAt(t) \ {x}
    <2>1. ASSUME NEW p \in Slots
          PROVE  p[2] \in bottom[p[1]] .. top'[p[1]] - 1
                   <=> p[2] \in bottom[p[1]] .. top[p[1]] - 1 /\ p # x
      <3>1. p = <<p[1], p[2]>> /\ p[1] \in Cores /\ p[2] \in 0 .. StackSize - 1
        BY DEF Slots
      <3>2. CASE p[1] = c
        <4>1. top'[p[1]] = top[c] - 1 /\ (p = x <=> p[2] = top[c] - 1)
          BY <1>1, <1>3, <3>1, <3>2 DEF QueueType
        <4>2. QED
          BY <1>2, <3>1, <3>2, <4>1
      <3>3. CASE p[1] # c
        BY <1>1, <1>3, <3>1, <3>3 DEF QueueType
      <3>4. QED
        BY <3>2, <3>3
    <2>2. QED
      BY <1>3, <2>1 DEF PublicAt
  <1>5. x \in PublicAt(t) <=> t = u
    <2>1. x \in Slots /\ top[c] - 1 \in bottom[c] .. top[c] - 1
      BY <1>1, <1>2 DEF Slots
    <2>2. QED
      BY <2>1 DEF PublicAt
  <1>6. RunningAt(t)' = IF t = u THEN RunningAt(t) \union {w} ELSE RunningAt(t)
    <2>1. worker[w].task = NoTask
      BY DEF Shape, WorkerOK, ConsumePublic, Looking, Searching
    <2>2. QED
      BY <1>1, <2>1, RunningGets DEF ConsumePublic
  <1>7. /\ PrivateAt(t)' = PrivateAt(t) /\ SpawnedAt(t)' = SpawnedAt(t)
        /\ done' = done /\ spawned' = spawned
    BY DEF ConsumePublic, PrivateAt, SpawnedAt, ghost
  <1>8. PointedAt(t)' = PointedAt(t) /\ CarriedAt(t)' = CarriedAt(t)
    BY EndSessionPlaces DEF ConsumePublic
  <1> HIDE DEF x, u
  <1>9. CASE t = u
    <2>1. \A i \in Kinds \ {"public", "running"} : At(t)'[i] = At(t)[i]
      BY <1>7, <1>8, KindsSame
    <2>2. /\ x \in At(t)["public"] /\ At(t)'["public"] = At(t)["public"] \ {x}
          /\ At(t)'["running"] = At(t)["running"] \union {w}
      BY <1>4, <1>5, <1>6, <1>9, AtKinds, AtKindsNext
    <2>3. "public" \in Kinds /\ "running" \in Kinds /\ "public" # "running"
      BY DEF Kinds
    <2>4. QED
      BY <1>1, <1>7, <2>1, <2>2, <2>3, MoveFine
  <1>10. CASE t # u
    <2>1. \A i \in Kinds \ {} : At(t)'[i] = At(t)[i]
      BY <1>4, <1>5, <1>6, <1>7, <1>8, <1>10, KindsSame
    <2>2. QED
      BY <1>7, <2>1, SameFine
  <1>11. QED
    BY <1>9, <1>10

\* A request to steal, and the empty queue whose space it reclaims, move nothing.
LEMMA OnceStealLocally ==
  ASSUME Shape, [Next]_vars, NEW t \in Tasks, Fine(t), NEW w \in Workers, steal_locally(w)
  PROVE  Fine(t)'
  <1> DEFINE c == Core(w)
  <1>1. /\ c \in Cores /\ QueueType /\ worker \in [Workers -> WorkerType]
        /\ steal \in [Cores -> StealType] /\ \A d \in Cores : ReplyOK(d)
    BY TypeParts DEF Shape, Workers, Core
  <1>2. PublicAt(t)' = PublicAt(t)
    <2>1. CASE MayReclaim(c)
      <3>1. /\ stack' = stack /\ bottom' = [bottom EXCEPT ![c] = 0] /\ top' = [top EXCEPT ![c] = 0]
        BY <2>1 DEF steal_locally, Reclaimed
      <3>2. bottom[c] \in Int /\ top[c] \in Int /\ top[c] = bottom[c]
        BY <1>1, <2>1 DEF QueueType, MayReclaim, depth
      <3>3. bottom[c] .. top[c] - 1 = {} /\ 0 .. 0 - 1 = {}
        BY <3>2
      <3>4. \A d \in Cores : bottom'[d] .. top'[d] - 1 = bottom[d] .. top[d] - 1
        BY <1>1, <3>1, <3>3 DEF QueueType
      <3>5. \A p \in Slots : p[1] \in Cores
        BY DEF Slots
      <3>6. QED
        BY <3>1, <3>4, <3>5 DEF PublicAt
    <2>2. CASE ~MayReclaim(c)
      BY <2>2 DEF steal_locally, Reclaimed, PublicAt
    <2>3. QED
      BY <2>1, <2>2
  <1>3. /\ steal[c].st \in {"none", "full"} /\ steal'[c].st = "request" /\ steal'[c].data = <<>>
        /\ \A d \in Cores \ {c} : steal'[d] = steal[d]
    <2>1. steal[c].st \in {"none", "full"}
      BY <1>1 DEF steal_locally, Searching, nextCoroutine, Ready, TriesSteal, Shape, LockOK
    <2>2. QED
      BY <1>1, <2>1 DEF steal_locally, NoSteal
  <1>4. PointedAt(t)' = PointedAt(t)
    <2>1. \A d \in Cores : \/ steal'[d] = steal[d]
                           \/ steal[d].st # "queued" /\ steal'[d].st # "queued"
      BY <1>3
    <2>2. QED
      BY <2>1, PointedSame
  <1>5. CarriedAt(t)' = CarriedAt(t)
    <2>1. \A d \in Cores : steal'[d].data = steal[d].data
      BY <1>1, <1>3 DEF ReplyOK
    <2>2. QED
      BY <2>1 DEF CarriedAt
  <1>6. RunningAt(t)' = RunningAt(t)
    <2>1. \A v \in Workers : worker'[v].task = worker[v].task
      BY <1>1 DEF steal_locally, WorkerType
    <2>2. QED
      BY <2>1 DEF RunningAt
  <1>7. /\ PrivateAt(t)' = PrivateAt(t) /\ SpawnedAt(t)' = SpawnedAt(t)
        /\ done' = done /\ spawned' = spawned
    BY DEF steal_locally, PrivateAt, SpawnedAt, ghost
  <1>8. \A i \in Kinds \ {} : At(t)'[i] = At(t)[i]
    BY <1>2, <1>4, <1>5, <1>6, <1>7, KindsSame
  <1>9. QED
    BY <1>7, <1>8, SameFine

\* A worker that goes to sleep or quits has no task.
LEMMA OnceIdle ==
  ASSUME Shape, [Next]_vars, NEW t \in Tasks, Fine(t), NEW w \in Workers, thread_idle(w) \/ Quit(w)
  PROVE  Fine(t)'
  <1>1. /\ worker \in [Workers -> WorkerType] /\ t # NoTask
        /\ Looking(w) /\ EndSession(w)
        /\ \E pc : Becomes(w, pc, NoTask)
    BY TypeParts DEF Shape, thread_idle, Quit, Tasks, NoTask
  <1>2. worker[w].task = NoTask
    BY <1>1 DEF Shape, WorkerOK, Looking, Searching
  <1>3. RunningAt(t)' = RunningAt(t)
    BY <1>1, <1>2, RunningGets
  <1>4. PointedAt(t)' = PointedAt(t) /\ CarriedAt(t)' = CarriedAt(t)
    BY <1>1, EndSessionPlaces
  <1>5. /\ PublicAt(t)' = PublicAt(t) /\ PrivateAt(t)' = PrivateAt(t)
        /\ SpawnedAt(t)' = SpawnedAt(t) /\ done' = done /\ spawned' = spawned
    BY DEF thread_idle, Quit, PublicAt, PrivateAt, SpawnedAt, queue, ghost
  <1>6. \A i \in Kinds \ {} : At(t)'[i] = At(t)[i]
    BY <1>3, <1>4, <1>5, KindsSame
  <1>7. QED
    BY <1>5, <1>6, SameFine

\* A step that changes nothing but a worker that keeps its task, the counts of
\* segments, or steals without tasks.
LEMMA OnceQuiet ==
  ASSUME Shape, [Next]_vars, NEW t \in Tasks, Fine(t),
         UNCHANGED <<queue, privateQ, remote, spawned, done>>,
         \A v \in Workers : worker'[v].task = worker[v].task,
         \A d \in Cores : \/ steal'[d] = steal[d]
                          \/ /\ steal[d].st # "queued" /\ steal'[d].st # "queued"
                             /\ steal'[d].data = steal[d].data
  PROVE  Fine(t)'
  <1>1. PointedAt(t)' = PointedAt(t)
    BY PointedSame
  <1>2. /\ PublicAt(t)' = PublicAt(t) /\ PrivateAt(t)' = PrivateAt(t)
        /\ SpawnedAt(t)' = SpawnedAt(t) /\ done' = done /\ spawned' = spawned
    BY DEF PublicAt, PrivateAt, SpawnedAt, queue
  <1>3. RunningAt(t)' = RunningAt(t)
    BY DEF RunningAt
  <1>4. CarriedAt(t)' = CarriedAt(t)
    <2>1. \A d \in Cores : steal'[d].data = steal[d].data
      OBVIOUS
    <2>2. QED
      BY <2>1 DEF CarriedAt
  <1>5. \A i \in Kinds \ {} : At(t)'[i] = At(t)[i]
    BY <1>1, <1>2, <1>3, <1>4, KindsSame
  <1>6. QED
    BY <1>2, <1>5, SameFine

\* A task returns.
LEMMA OnceReturn ==
  ASSUME Shape, [Next]_vars, NEW t \in Tasks, Fine(t), NEW w \in Workers,
         Return(w) \/ Grappa_end_tasks(w)
  PROVE  Fine(t)'
  <1> DEFINE u == worker[w].task
  <1>1. TypeOK /\ worker \in [Workers -> WorkerType] /\ t # NoTask
    BY TypeParts DEF Shape, Tasks, NoTask
  <1>2. done' = done \union {u}
    BY DEF Return, Grappa_end_tasks, Shape, WorkerOK
  <1>3. /\ UNCHANGED <<queue, privateQ, remote, spawned, steal>>
        /\ Becomes(w, "find", NoTask)
    BY DEF Return, Grappa_end_tasks, manager, network
  <1>4. worker'[w].task = NoTask /\ \A v \in Workers \ {w} : worker'[v] = worker[v]
    BY <1>1, <1>3 DEF Becomes
  <1>5. RunningAt(t)' = RunningAt(t) \ {w} /\ (w \in RunningAt(t) <=> t = u)
    BY <1>1, <1>4 DEF RunningAt
  <1>6. PointedAt(t)' = PointedAt(t) /\ CarriedAt(t)' = CarriedAt(t)
    <2>1. PointedAt(t)' = PointedAt(t)
      BY <1>3, PointedSame
    <2>2. QED
      BY <1>3, <2>1 DEF CarriedAt
  <1>7. /\ PublicAt(t)' = PublicAt(t) /\ PrivateAt(t)' = PrivateAt(t)
        /\ SpawnedAt(t)' = SpawnedAt(t) /\ spawned' = spawned
    BY <1>3 DEF PublicAt, PrivateAt, SpawnedAt, queue
  <1> HIDE DEF u
  <1>8. CASE t = u
    <2>1. \A i \in Kinds \ {"running", "done"} : At(t)'[i] = At(t)[i]
      BY <1>6, <1>7, KindsSame
    <2>2. w \in At(t)["running"] /\ At(t)'["running"] = At(t)["running"] \ {w}
      BY <1>5, <1>8, AtKinds, AtKindsNext
    <2>3. At(t)'["done"] = At(t)["done"] \union {t}
      <3>1. At(t)'["done"] = done' \intersect {t} /\ At(t)["done"] = done \intersect {t}
        BY AtKinds, AtKindsNext
      <3>2. QED
        BY <1>2, <1>8, <3>1
    <2>4. "running" \in Kinds /\ "done" \in Kinds /\ "running" # "done"
      BY DEF Kinds
    <2>5. QED
      BY <1>1, <1>7, <2>1, <2>2, <2>3, <2>4, MoveFine
  <1>9. CASE t # u
    <2>1. RunningAt(t)' = RunningAt(t) /\ done' \intersect {t} = done \intersect {t}
      BY <1>2, <1>5, <1>9
    <2>2. \A i \in Kinds \ {} : At(t)'[i] = At(t)[i]
      BY <1>6, <1>7, <2>1, KindsSame
    <2>3. QED
      BY <1>7, <2>2, SameFine
  <1>10. QED
    BY <1>8, <1>9

\* A task pushed at the front of a private queue does not move the others,
\* whose places are counted from the back.
LEMMA PrivateGets ==
  ASSUME privateQ \in [Cores -> Seq(Tasks)], NEW c \in Cores, NEW u \in Tasks, push_front(c, u), NEW t
  PROVE  PrivateAt(t)' = IF t = u THEN PrivateAt(t) \union {<<c, Len(privateQ[c])>>} ELSE PrivateAt(t)
  <1> DEFINE q == privateQ[c]
             r == <<u>> \o q
             x == <<c, Len(q)>>
  <1>1. q \in Seq(Tasks) /\ Len(q) \in Nat
    OBVIOUS
  <1>2. privateQ'[c] = r /\ \A d \in Cores \ {c} : privateQ'[d] = privateQ[d]
    BY DEF push_front
  <1>3. /\ Len(r) = Len(q) + 1
        /\ \A i \in 1 .. Len(q) + 1 : r[i] = IF i = 1 THEN u ELSE q[i - 1]
    BY <1>1
  <1>4. \A i \in 0 .. Len(q) - 1 : r[Len(q) + 1 - i] = q[Len(q) - i]
    <2>1. ASSUME NEW i \in 0 .. Len(q) - 1 PROVE r[Len(q) + 1 - i] = q[Len(q) - i]
      <3>1. /\ Len(q) + 1 - i \in 1 .. Len(q) + 1 /\ Len(q) + 1 - i # 1
            /\ (Len(q) + 1 - i) - 1 = Len(q) - i
        BY <1>1
      <3>2. QED
        BY <1>3, <3>1
    <2>2. QED
      BY <2>1
  <1>5. r[Len(q) + 1 - Len(q)] = u
    <2>1. Len(q) + 1 - Len(q) = 1 /\ 1 \in 1 .. Len(q) + 1
      BY <1>1
    <2>2. QED
      BY <1>3, <2>1
  <1> HIDE DEF r
  <1>6. ASSUME NEW p PROVE p \in PrivateAt(t)' <=> p \in PrivateAt(t) \/ (t = u /\ p = x)
    <2>1. ASSUME p \in PrivateAt(t)' PROVE p \in PrivateAt(t) \/ (t = u /\ p = x)
      <3>1. PICK d \in Cores : \E i \in 0 .. Len(privateQ'[d]) - 1 :
                   p = <<d, i>> /\ privateQ'[d][Len(privateQ'[d]) - i] = t
        BY <2>1, InPrivateNext
      <3>2. PICK i \in 0 .. Len(privateQ'[d]) - 1 :
                   p = <<d, i>> /\ privateQ'[d][Len(privateQ'[d]) - i] = t
        BY <3>1
      <3>3. CASE d # c
        BY <1>2, <3>2, <3>3, InPrivate
      <3>4. CASE d = c
        <4>1. i \in 0 .. Len(q) + 1 - 1 /\ r[Len(q) + 1 - i] = t
          BY <1>2, <1>3, <3>2, <3>4
        <4>2. i \in 0 .. Len(q) - 1 \/ i = Len(q)
          BY <1>1, <4>1
        <4>3. QED
          BY <1>4, <1>5, <3>2, <3>4, <4>1, <4>2, InPrivate
      <3>5. QED
        BY <3>3, <3>4
    <2>2. ASSUME p \in PrivateAt(t) PROVE p \in PrivateAt(t)'
      <3>1. PICK d \in Cores : \E i \in 0 .. Len(privateQ[d]) - 1 :
                   p = <<d, i>> /\ privateQ[d][Len(privateQ[d]) - i] = t
        BY <2>2, InPrivate
      <3>2. PICK i \in 0 .. Len(privateQ[d]) - 1 :
                   p = <<d, i>> /\ privateQ[d][Len(privateQ[d]) - i] = t
        BY <3>1
      <3>3. CASE d # c
        BY <1>2, <3>2, <3>3, InPrivateNext
      <3>4. CASE d = c
        <4>1. i \in 0 .. Len(q) - 1 /\ i \in 0 .. (Len(q) + 1) - 1
          BY <1>1, <3>2, <3>4
        <4>2. i \in 0 .. Len(privateQ'[d]) - 1
          BY <1>2, <1>3, <3>4, <4>1
        <4>3. privateQ'[d][Len(privateQ'[d]) - i] = t
          BY <1>2, <1>3, <1>4, <3>2, <3>4, <4>1
        <4>4. QED
          BY <3>2, <4>2, <4>3, InPrivateNext
      <3>5. QED
        BY <3>3, <3>4
    <2>3. ASSUME t = u, p = x PROVE p \in PrivateAt(t)'
      <3>1. Len(q) \in 0 .. (Len(q) + 1) - 1
        BY <1>1
      <3>2. Len(q) \in 0 .. Len(privateQ'[c]) - 1
        BY <1>2, <1>3, <3>1
      <3>3. privateQ'[c][Len(privateQ'[c]) - Len(q)] = t
        BY <1>2, <1>3, <1>5, <2>3
      <3>4. QED
        BY <2>3, <3>2, <3>3, InPrivateNext
    <2>4. QED
      BY <2>1, <2>2, <2>3
  <1>7. QED
    BY <1>6

\* What a spawning task and its worker have in common, whatever is spawned.
LEMMA SpawnPlaces ==
  ASSUME Shape, [Next]_vars, NEW t \in Tasks, NEW w \in Workers, Spawning(w), YieldsOrBlocks(w),
         steal' = steal
  PROVE  /\ RunningAt(t)' = RunningAt(t) /\ CarriedAt(t)' = CarriedAt(t)
         /\ PointedAt(t)' = PointedAt(t) /\ spawned + 1 \in Tasks
  <1>1. worker \in [Workers -> WorkerType] /\ spawned \in Tasks /\ MaxTasks \in Nat
    BY TypeParts, WorkStealingAssumption DEF Shape, TaskType
  <1>2. \A v \in Workers : worker'[v].task = worker[v].task
    BY <1>1 DEF YieldsOrBlocks, Becomes
  <1>3. PointedAt(t)' = PointedAt(t)
    BY PointedSame
  <1>4. spawned + 1 \in Tasks
    BY <1>1 DEF Spawning, Tasks
  <1>5. QED
    BY <1>2, <1>3, <1>4 DEF RunningAt, CarriedAt

\* The new task is pushed on the public queue, unless the CHECK fails.
LEMMA OnceSpawnPublic ==
  ASSUME Shape, [Next]_vars, NEW t \in Tasks, Fine(t), NEW w \in Workers, spawnPublic(w),
         fatal' = "none"
  PROVE  Fine(t)'
  <1> DEFINE c == Core(w)
             x == <<c, top[c]>>
  <1>1. c \in Cores /\ TypeOK /\ QueueType /\ SlotsOK(c) /\ StackSize \in Nat /\ \A d \in Cores : SlotsOK(d)
    BY TypeParts, WorkStealingAssumption DEF Shape, Workers, Core
  <1>2. /\ top[c] < StackSize
        /\ stack' = [stack EXCEPT ![c][top[c]] = spawned + 1]
        /\ top' = [top EXCEPT ![c] = @ + 1] /\ bottom' = bottom
    BY DEF spawnPublic, push
  <1>3. /\ RunningAt(t)' = RunningAt(t) /\ CarriedAt(t)' = CarriedAt(t)
        /\ PointedAt(t)' = PointedAt(t) /\ spawned + 1 \in Tasks
    BY SpawnPlaces DEF spawnPublic, SpawningUnbound, network
  <1>4. bottom[c] \in 0 .. StackSize /\ top[c] \in 0 .. StackSize /\ bottom[c] <= top[c]
    BY <1>1 DEF QueueType, SlotsOK
  <1>5. PublicAt(t)' = IF t = spawned + 1 THEN PublicAt(t) \union {x} ELSE PublicAt(t)
    <2>0. x \in Slots
      BY <1>1, <1>2, <1>4 DEF Slots
    <2>1. ASSUME NEW p \in Slots
          PROVE  p \in PublicAt(t)' <=> p \in PublicAt(t) \/ (t = spawned + 1 /\ p = x)
      <3>1. p = <<p[1], p[2]>> /\ p[1] \in Cores /\ p[2] \in 0 .. StackSize - 1
        BY DEF Slots
      <3>2. CASE p[1] = c
        <4>1. top'[p[1]] = top[c] + 1 /\ (p = x <=> p[2] = top[c])
          BY <1>1, <1>2, <3>1, <3>2 DEF QueueType
        <4>2. stack'[p[1]][p[2]] = IF p[2] = top[c] THEN spawned + 1 ELSE stack[p[1]][p[2]]
          BY <1>1, <1>2, <3>1, <3>2 DEF QueueType
        <4>3. /\ p[2] \in bottom[c] .. top[c] <=> p[2] \in bottom[c] .. top[c] - 1 \/ p[2] = top[c]
              /\ p[2] \in bottom[c] .. (top[c] + 1) - 1 <=> p[2] \in bottom[c] .. top[c]
              /\ p[2] \in bottom[c] .. top[c] - 1 => p[2] # top[c]
          BY <1>4, <3>1
        <4>4. QED
          BY <1>2, <3>2, <4>1, <4>2, <4>3 DEF PublicAt
      <3>3. CASE p[1] # c
        <4>1. top'[p[1]] = top[p[1]] /\ stack'[p[1]] = stack[p[1]] /\ p # x
          BY <1>1, <1>2, <3>1, <3>3 DEF QueueType
        <4>2. QED
          BY <1>2, <4>1 DEF PublicAt
      <3>4. QED
        BY <3>2, <3>3
    <2>2. \A p \in PublicAt(t) \union PublicAt(t)' : p \in Slots
      BY DEF PublicAt
    <2> HIDE DEF x
    <2>3. QED
      BY <2>0, <2>1, <2>2
  <1>6. /\ PrivateAt(t)' = PrivateAt(t) /\ SpawnedAt(t)' = SpawnedAt(t)
        /\ done' = done /\ spawned' = spawned + 1
    BY DEF spawnPublic, PrivateAt, SpawnedAt, manager, network
  <1>7. \A i \in Kinds \ {"public"} : At(t)'[i] = At(t)[i]
    BY <1>3, <1>6, KindsSame
  <1>8. At(t)'["public"] = IF t = spawned + 1 THEN At(t)["public"] \union {x} ELSE At(t)["public"]
    <2>1. At(t)'["public"] = PublicAt(t)' /\ At(t)["public"] = PublicAt(t)
      BY AtKinds, AtKindsNext
    <2> HIDE DEF x
    <2>2. QED
      BY <1>5, <2>1
  <1>9. "public" \in Kinds
    BY DEF Kinds
  <1> HIDE DEF x
  <1>10. QED
    BY <1>1, <1>6, <1>7, <1>8, <1>9, NewFine

\* The new task goes to the private queue of its core.
LEMMA OnceSpawnLocal ==
  ASSUME Shape, [Next]_vars, NEW t \in Tasks, Fine(t), NEW w \in Workers, spawnLocalPrivate(w)
  PROVE  Fine(t)'
  <1> DEFINE x == <<Core(w), Len(privateQ[Core(w)])>>
  <1>1. TypeOK /\ Core(w) \in Cores /\ privateQ \in [Cores -> Seq(Tasks)]
    BY TypeParts DEF Shape, ManagerType, Workers, Core
  <1>2. /\ RunningAt(t)' = RunningAt(t) /\ CarriedAt(t)' = CarriedAt(t)
        /\ PointedAt(t)' = PointedAt(t) /\ spawned + 1 \in Tasks
    BY SpawnPlaces DEF spawnLocalPrivate, SpawningBound, network
  <1>3. /\ PublicAt(t)' = PublicAt(t) /\ SpawnedAt(t)' = SpawnedAt(t)
        /\ done' = done /\ spawned' = spawned + 1
    BY DEF spawnLocalPrivate, PublicAt, SpawnedAt, queue, network
  <1>4. PrivateAt(t)' = IF t = spawned + 1 THEN PrivateAt(t) \union {x} ELSE PrivateAt(t)
    BY <1>1, <1>2, PrivateGets DEF spawnLocalPrivate
  <1>5. \A i \in Kinds \ {"private"} : At(t)'[i] = At(t)[i]
    BY <1>2, <1>3, KindsSame
  <1>6. At(t)'["private"] = IF t = spawned + 1 THEN At(t)["private"] \union {x} ELSE At(t)["private"]
    <2>1. At(t)'["private"] = PrivateAt(t)' /\ At(t)["private"] = PrivateAt(t)
      BY AtKinds, AtKindsNext
    <2> HIDE DEF x
    <2>2. QED
      BY <1>4, <2>1
  <1>7. "private" \in Kinds
    BY DEF Kinds
  <1> HIDE DEF x
  <1>8. QED
    BY <1>1, <1>3, <1>5, <1>6, <1>7, NewFine

\* The new task is under way to another core.
LEMMA OnceSpawnRemote ==
  ASSUME Shape, [Next]_vars, NEW t \in Tasks, Fine(t), NEW w \in Workers, NEW c \in Cores,
         Grappa_remote_privateTask(w, c)
  PROVE  Fine(t)'
  <1> DEFINE x == <<spawned + 1, c>>
  <1>1. TypeOK
    BY DEF Shape
  <1>2. /\ RunningAt(t)' = RunningAt(t) /\ CarriedAt(t)' = CarriedAt(t)
        /\ PointedAt(t)' = PointedAt(t) /\ spawned + 1 \in Tasks
    BY SpawnPlaces DEF Grappa_remote_privateTask, SpawningBound
  <1>3. /\ PublicAt(t)' = PublicAt(t) /\ PrivateAt(t)' = PrivateAt(t)
        /\ done' = done /\ spawned' = spawned + 1
    BY DEF Grappa_remote_privateTask, PublicAt, PrivateAt, queue, manager
  <1>4. SpawnedAt(t)' = IF t = spawned + 1 THEN SpawnedAt(t) \union {x} ELSE SpawnedAt(t)
    BY DEF Grappa_remote_privateTask, SpawnedAt
  <1>5. \A i \in Kinds \ {"remote"} : At(t)'[i] = At(t)[i]
    BY <1>2, <1>3, KindsSame
  <1>6. At(t)'["remote"] = IF t = spawned + 1 THEN At(t)["remote"] \union {x} ELSE At(t)["remote"]
    <2>1. At(t)'["remote"] = SpawnedAt(t)' /\ At(t)["remote"] = SpawnedAt(t)
      BY AtKinds, AtKindsNext
    <2> HIDE DEF x
    <2>2. QED
      BY <1>4, <2>1
  <1>7. "remote" \in Kinds
    BY DEF Kinds
  <1> HIDE DEF x
  <1>8. QED
    BY <1>1, <1>3, <1>5, <1>6, <1>7, NewFine

\* A spawn arrives at another core.
LEMMA OnceSpawnArrives ==
  ASSUME Shape, [Next]_vars, NEW t \in Tasks, Fine(t), NEW m \in remote, spawnRemotePrivate(m)
  PROVE  Fine(t)'
  <1> DEFINE x == <<m[2], Len(privateQ[m[2]])>>
  <1>1. TypeOK /\ privateQ \in [Cores -> Seq(Tasks)] /\ m[1] \in Tasks /\ m[2] \in Cores
    BY TypeParts DEF Shape, ManagerType, TaskType
  <1>2. PrivateAt(t)' = IF t = m[1] THEN PrivateAt(t) \union {x} ELSE PrivateAt(t)
    BY <1>1, PrivateGets DEF spawnRemotePrivate
  <1>3. SpawnedAt(t)' = SpawnedAt(t) \ {m} /\ (m \in SpawnedAt(t) <=> t = m[1])
    BY DEF spawnRemotePrivate, SpawnedAt
  <1>4. /\ PublicAt(t)' = PublicAt(t) /\ RunningAt(t)' = RunningAt(t)
        /\ done' = done /\ spawned' = spawned /\ steal' = steal
    BY DEF spawnRemotePrivate, PublicAt, RunningAt, queue, ghost
  <1>5. PointedAt(t)' = PointedAt(t) /\ CarriedAt(t)' = CarriedAt(t)
    <2>1. PointedAt(t)' = PointedAt(t)
      BY <1>4, PointedSame
    <2>2. QED
      BY <1>4, <2>1 DEF CarriedAt
  <1> HIDE DEF x
  <1>6. CASE t = m[1]
    <2>1. \A i \in Kinds \ {"remote", "private"} : At(t)'[i] = At(t)[i]
      BY <1>4, <1>5, KindsSame
    <2>2. /\ m \in At(t)["remote"] /\ At(t)'["remote"] = At(t)["remote"] \ {m}
          /\ At(t)'["private"] = At(t)["private"] \union {x}
      BY <1>2, <1>3, <1>6, AtKinds, AtKindsNext
    <2>3. "remote" \in Kinds /\ "private" \in Kinds /\ "remote" # "private"
      BY DEF Kinds
    <2>4. QED
      BY <1>1, <1>4, <2>1, <2>2, <2>3, MoveFine
  <1>7. CASE t # m[1]
    <2>1. \A i \in Kinds \ {} : At(t)'[i] = At(t)[i]
      BY <1>2, <1>3, <1>4, <1>5, <1>7, KindsSame
    <2>2. QED
      BY <1>4, <2>1, SameFine
  <1>8. QED
    BY <1>6, <1>7

\* A task with a place has been spawned, and has no other.
LEMMA FineHere ==
  ASSUME TypeOK, NEW t \in Tasks, Fine(t), NEW k \in Kinds, NEW x \in At(t)[k]
  PROVE  At(t)[k] = {x} /\ \A i \in Kinds \ {k} : At(t)[i] = {}
  <1>1. t \in Int /\ spawned \in Int
    BY DEF TypeOK, Tasks
  <1>2. Sole(t)
    BY <1>1 DEF Fine, Nowhere
  <1>3. QED
    BY <1>2, SoleHere

\* The segment of a request is pointed to instead of queued.
LEMMA OnceStealRequest ==
  ASSUME Shape, [Next]_vars, NEW t \in Tasks, Fine(t), NEW c \in Cores, StealRequest(c)
  PROVE  Fine(t)'
  <1> DEFINE v == steal[c].victim
             amt == StealAmount(v)
             b == bottom[v]
  <1>1. TypeOK /\ QueueType /\ steal \in [Cores -> StealType] /\ v \in Cores /\ StackSize \in Nat
    BY TypeParts, WorkStealingAssumption DEF Shape, StealType
  <1>2. amt \in Nat /\ b \in Nat /\ top[v] \in 0 .. StackSize /\ b + amt <= top[v]
    <2>1. b \in 0 .. StackSize /\ top[v] \in 0 .. StackSize /\ b <= top[v]
      BY <1>1 DEF QueueType, Shape, SlotsOK
    <2>2. amt \in 0 .. ChunkSize /\ b + amt <= top[v]
      BY <1>1, <2>1, StealAmountOK
    <2>3. QED
      BY <1>1, <2>1, <2>2, WorkStealingAssumption
  <1>3. steal[c].st = "request" /\ \A d \in Cores \ {c} : steal'[d] = steal[d]
    BY <1>1, StealStepFields DEF StealRequest, StealStep
  <1>4. /\ UNCHANGED <<stack, top, privateQ, remote, spawned, done, worker>>
    BY DEF StealRequest, manager, ghost
  <1>5. CASE ~(amt > 0)
    <2>1. steal'[c].st = "failed" /\ steal'[c].data = steal[c].data /\ bottom' = bottom
      BY <1>1, <1>5, StealStepFields DEF StealRequest
    <2>2. \A d \in Cores : \/ steal'[d] = steal[d]
                           \/ /\ steal[d].st # "queued" /\ steal'[d].st # "queued"
                              /\ steal'[d].data = steal[d].data
      BY <1>3, <2>1
    <2>3. UNCHANGED <<queue, privateQ, remote, spawned, done>>
      BY <1>4, <2>1 DEF queue
    <2>4. \A w \in Workers : worker'[w].task = worker[w].task
      BY <1>4
    <2>5. QED
      BY <2>2, <2>3, <2>4, OnceQuiet
  <1>6. CASE amt > 0
    <2>1. /\ steal'[c].st = "queued" /\ steal'[c].victim = v /\ steal'[c].lo = b
          /\ steal'[c].amt = amt /\ steal'[c].data = steal[c].data
      BY <1>1, <1>6, StealStepFields
    <2>2. bottom'[v] = b + amt /\ \A d \in Cores \ {v} : bottom'[d] = bottom[d]
      BY <1>1, <1>6 DEF StealRequest, Reserve, QueueType
    <2> HIDE DEF amt, v, b
    <2>3. ASSUME NEW p \in Slots
          PROVE  p \in PublicAt(t)' <=> p \in PublicAt(t) /\ ~(p[1] = v /\ p[2] < b + amt)
      <3>1. p[1] \in Cores /\ p[2] \in 0 .. StackSize - 1
        BY DEF Slots
      <3>2. CASE p[1] = v
        <4>1. p[2] \in b + amt .. top[v] - 1 <=> p[2] \in b .. top[v] - 1 /\ ~(p[2] < b + amt)
          BY <1>1, <1>2, <3>1
        <4>2. QED
          BY <1>4, <2>2, <3>2, <4>1 DEF PublicAt, b
      <3>3. CASE p[1] # v
        BY <1>4, <2>2, <3>1, <3>3 DEF PublicAt
      <3>4. QED
        BY <3>2, <3>3
    <2>4. ASSUME NEW p \in Slots
          PROVE  p \in PointedAt(t)' <=>
                    p \in PointedAt(t) \/ (p[1] = c /\ <<v, p[2]>> \in PublicAt(t) /\ p[2] < b + amt)
      <3>1. p[1] \in Cores /\ p[2] \in 0 .. StackSize - 1 /\ <<v, p[2]>> \in Slots
        BY <1>1 DEF Slots
      <3>2. CASE p[1] = c
        <4>1. p[2] \in b .. b + amt - 1 <=> p[2] \in b .. top[v] - 1 /\ p[2] < b + amt
          BY <1>1, <1>2, <3>1
        <4>2. p \notin PointedAt(t)
          BY <1>3, <3>2 DEF PointedAt
        <4>3. p \in PointedAt(t)' <=> stack[v][p[2]] = t /\ p[2] \in b .. b + amt - 1
          BY <1>4, <2>1, <3>2 DEF PointedAt
        <4>4. <<v, p[2]>> \in PublicAt(t) <=> p[2] \in b .. top[v] - 1 /\ stack[v][p[2]] = t
          BY <3>1 DEF PublicAt, b
        <4>5. QED
          BY <3>2, <4>1, <4>2, <4>3, <4>4
      <3>3. CASE p[1] # c
        BY <1>3, <1>4, <3>1, <3>3 DEF PointedAt
      <3>4. QED
        BY <3>2, <3>3
    <2>5. /\ \A p \in PublicAt(t) \union PublicAt(t)' : p \in Slots
          /\ \A p \in PointedAt(t) \union PointedAt(t)' : p \in Slots
      BY DEF PublicAt, PointedAt
    <2>6. /\ PrivateAt(t)' = PrivateAt(t) /\ SpawnedAt(t)' = SpawnedAt(t)
          /\ RunningAt(t)' = RunningAt(t) /\ done' = done /\ spawned' = spawned
      BY <1>4 DEF PrivateAt, SpawnedAt, RunningAt
    <2>7. CarriedAt(t)' = CarriedAt(t)
      <3>1. \A d \in Cores : steal'[d].data = steal[d].data
        BY <1>3, <2>1
      <3>2. QED
        BY <3>1 DEF CarriedAt
    <2>8. CASE \E x \in PublicAt(t) : x[1] = v /\ x[2] < b + amt
      <3>1. PICK x \in PublicAt(t) : x[1] = v /\ x[2] < b + amt
        BY <2>8
      <3> DEFINE y == <<c, x[2]>>
      <3>2. x \in Slots /\ y \in Slots /\ x = <<v, x[2]>>
        BY <2>5, <3>1 DEF Slots
      <3>3. "public" \in Kinds /\ "pointed" \in Kinds /\ "public" # "pointed"
        BY DEF Kinds
      <3>4. PublicAt(t) = {x} /\ PointedAt(t) = {}
        <4>1. x \in At(t)["public"]
          BY AtKinds
        <4>2. At(t)["public"] = {x} /\ At(t)["pointed"] = {}
          BY <1>1, <3>3, <4>1, FineHere
        <4>3. QED
          BY <4>2, AtKinds
      <3>5. PublicAt(t)' = PublicAt(t) \ {x}
        BY <2>3, <2>5, <3>1, <3>2, <3>4
      <3>6. PointedAt(t)' = PointedAt(t) \union {y}
        <4>1. y \in PointedAt(t)'
          BY <2>4, <3>1, <3>2
        <4>2. ASSUME NEW p \in PointedAt(t)' PROVE p = y
          <5>1. p \in Slots /\ p = <<p[1], p[2]>>
            BY <2>5 DEF Slots
          <5>2. p[1] = c /\ <<v, p[2]>> \in PublicAt(t)
            BY <2>4, <3>4, <5>1
          <5>3. <<v, p[2]>> = x
            BY <3>4, <5>2
          <5>4. QED
            BY <5>1, <5>2, <5>3
        <4>3. QED
          BY <3>4, <4>1, <4>2
      <3>7. \A i \in Kinds \ {"public", "pointed"} : At(t)'[i] = At(t)[i]
        BY <2>6, <2>7, KindsSame
      <3> HIDE DEF y
      <3>8. /\ x \in At(t)["public"] /\ At(t)'["public"] = At(t)["public"] \ {x}
            /\ At(t)'["pointed"] = At(t)["pointed"] \union {y}
        BY <3>5, <3>6, AtKinds, AtKindsNext
      <3>9. QED
        BY <1>1, <2>6, <3>3, <3>7, <3>8, MoveFine
    <2>9. CASE ~\E x \in PublicAt(t) : x[1] = v /\ x[2] < b + amt
      <3>1. PublicAt(t)' = PublicAt(t)
        BY <2>3, <2>5, <2>9
      <3>2. PointedAt(t)' = PointedAt(t)
        <4>1. ASSUME NEW p \in Slots, <<v, p[2]>> \in PublicAt(t), p[2] < b + amt PROVE FALSE
          <5>1. <<v, p[2]>>[1] = v /\ <<v, p[2]>>[2] = p[2]
            OBVIOUS
          <5>2. QED
            BY <2>9, <4>1, <5>1
        <4>2. QED
          BY <2>4, <2>5, <4>1
      <3>3. \A i \in Kinds \ {} : At(t)'[i] = At(t)[i]
        BY <2>6, <2>7, <3>1, <3>2, KindsSame
      <3>4. QED
        BY <2>6, <3>3, SameFine
    <2>10. QED
      BY <2>8, <2>9
  <1>7. QED
    BY <1>5, <1>6

\* What was pointed to is carried.
LEMMA OnceSerialize ==
  ASSUME Shape, [Next]_vars, NEW t \in Tasks, Fine(t), NEW c \in Cores, serialize_to(c)
  PROVE  Fine(t)'
  <1> DEFINE v == steal[c].victim
             amt == steal[c].amt
             lo == steal[c].lo
  <1>1. TypeOK /\ QueueType /\ steal \in [Cores -> StealType] /\ ReplyOK(c) /\ StackSize \in Nat
    BY TypeParts, WorkStealingAssumption DEF Shape
  <1>2. /\ v \in Cores /\ lo \in Nat /\ amt \in Nat /\ bottom[v] \in 0 .. StackSize
        /\ lo + amt <= bottom[v]
    BY <1>1, WorkStealingAssumption DEF StealType, QueueType, ReplyOK, serialize_to
  <1>3. /\ steal[c].st = "queued" /\ steal[c].data = <<>>
        /\ steal'[c].st = "sent" /\ steal'[c].data = [i \in 1 .. amt |-> stack[v][lo + i - 1]]
        /\ \A d \in Cores \ {c} : steal'[d] = steal[d]
    BY <1>1, StealStepFields DEF serialize_to, StealStep, ReplyOK
  <1>4. UNCHANGED <<stack, bottom, top, privateQ, remote, spawned, done, worker>>
    BY DEF serialize_to, queue, manager, ghost
  <1> HIDE DEF v, amt, lo
  <1>5. PointedAt(t)' = {p \in PointedAt(t) : p[1] # c}
    <2>1. \A p \in Slots : p[1] \in Cores
      BY DEF Slots
    <2>2. QED
      BY <1>3, <1>4, <2>1 DEF PointedAt
  <1>6. ASSUME NEW i \in 1 .. amt PROVE <<c, lo + i - 1>> \in PointedAt(t) <=> stack[v][lo + i - 1] = t
    <2>1. lo + i - 1 \in 0 .. StackSize - 1 /\ lo + i - 1 \in lo .. lo + amt - 1
      BY <1>1, <1>2
    <2>2. <<c, lo + i - 1>> \in Slots
      BY <2>1 DEF Slots
    <2>3. QED
      BY <1>3, <2>1, <2>2 DEF PointedAt, v, lo, amt
  <1>7. ASSUME NEW x
        PROVE  x \in CarriedAt(t)' <=>
                  x \in CarriedAt(t) \/ \E i \in 1 .. amt : x = <<c, i>> /\ <<c, lo + i - 1>> \in PointedAt(t)
    <2>1. Len(steal[c].data) = 0 /\ 1 .. 0 = {}
      BY <1>3
    <2>2. Len(steal'[c].data) = amt /\ \A i \in 1 .. amt : steal'[c].data[i] = stack[v][lo + i - 1]
      BY <1>2, <1>3
    <2>3. ASSUME x \in CarriedAt(t)'
          PROVE  x \in CarriedAt(t) \/ \E i \in 1 .. amt : x = <<c, i>> /\ <<c, lo + i - 1>> \in PointedAt(t)
      <3>1. PICK d \in Cores : \E i \in 1 .. Len(steal'[d].data) : x = <<d, i>> /\ steal'[d].data[i] = t
        BY <2>3, InCarried
      <3>2. CASE d = c
        BY <1>6, <2>2, <3>1, <3>2
      <3>3. CASE d # c
        BY <1>3, <3>1, <3>3, InCarried
      <3>4. QED
        BY <3>2, <3>3
    <2>4. ASSUME x \in CarriedAt(t) PROVE x \in CarriedAt(t)'
      <3>1. PICK d \in Cores : \E i \in 1 .. Len(steal[d].data) : x = <<d, i>> /\ steal[d].data[i] = t
        BY <2>4, InCarried
      <3>2. d # c
        BY <2>1, <3>1
      <3>3. QED
        BY <1>3, <3>1, <3>2, InCarried
    <2>5. ASSUME NEW i \in 1 .. amt, x = <<c, i>>, <<c, lo + i - 1>> \in PointedAt(t)
          PROVE  x \in CarriedAt(t)'
      <3>1. i \in 1 .. Len(steal'[c].data) /\ steal'[c].data[i] = t
        BY <1>6, <2>2, <2>5
      <3>2. QED
        BY <2>5, <3>1, InCarried
    <2>6. QED
      BY <2>3, <2>4, <2>5
  <1>8. /\ PublicAt(t)' = PublicAt(t) /\ PrivateAt(t)' = PrivateAt(t) /\ SpawnedAt(t)' = SpawnedAt(t)
        /\ RunningAt(t)' = RunningAt(t) /\ done' = done /\ spawned' = spawned
    BY <1>4 DEF PublicAt, PrivateAt, SpawnedAt, RunningAt
  <1>9. CASE \E x \in PointedAt(t) : x[1] = c
    <2>1. PICK x \in PointedAt(t) : x[1] = c
      BY <1>9
    <2> DEFINE k == x[2] - lo + 1
               y == <<c, k>>
    <2>2. x = <<c, x[2]>> /\ x[2] \in lo .. lo + amt - 1
      BY <2>1 DEF PointedAt, Slots, lo, amt
    <2>3. k \in 1 .. amt /\ lo + k - 1 = x[2]
      BY <1>2, <2>2
    <2>4. "pointed" \in Kinds /\ "carried" \in Kinds /\ "pointed" # "carried"
      BY DEF Kinds
    <2>5. PointedAt(t) = {x} /\ CarriedAt(t) = {}
      <3>1. x \in At(t)["pointed"]
        BY AtKinds
      <3>2. At(t)["pointed"] = {x} /\ At(t)["carried"] = {}
        BY <1>1, <2>4, <3>1, FineHere
      <3>3. QED
        BY <3>2, AtKinds
    <2>6. PointedAt(t)' = PointedAt(t) \ {x}
      BY <1>5, <2>1, <2>5
    <2>7. CarriedAt(t)' = CarriedAt(t) \union {y}
      <3>1. <<c, lo + k - 1>> \in PointedAt(t)
        BY <2>2, <2>3, <2>5
      <3> HIDE DEF k
      <3>2. y \in CarriedAt(t)'
        BY <1>7, <2>3, <3>1
      <3>3. ASSUME NEW p \in CarriedAt(t)' PROVE p = y
        <4>1. PICK i \in 1 .. amt : p = <<c, i>> /\ <<c, lo + i - 1>> \in PointedAt(t)
          BY <1>7, <2>5
        <4>2. <<c, lo + i - 1>> = <<c, x[2]>>
          BY <2>2, <2>5, <4>1
        <4>3. lo + i - 1 = x[2]
          BY <4>2
        <4>4. i = k
          BY <1>2, <2>2, <2>3, <4>3
        <4>5. QED
          BY <4>1, <4>4
      <3>4. QED
        BY <2>5, <3>2, <3>3
    <2>8. \A i \in Kinds \ {"pointed", "carried"} : At(t)'[i] = At(t)[i]
      BY <1>8, KindsSame
    <2> HIDE DEF y
    <2>9. /\ x \in At(t)["pointed"] /\ At(t)'["pointed"] = At(t)["pointed"] \ {x}
          /\ At(t)'["carried"] = At(t)["carried"] \union {y}
      BY <2>6, <2>7, AtKinds, AtKindsNext
    <2>10. QED
      BY <1>1, <1>8, <2>4, <2>8, <2>9, MoveFine
  <1>10. CASE ~\E x \in PointedAt(t) : x[1] = c
    <2>1. PointedAt(t)' = PointedAt(t)
      BY <1>5, <1>10
    <2>2. ASSUME NEW i \in 1 .. amt, <<c, lo + i - 1>> \in PointedAt(t) PROVE FALSE
      <3>1. <<c, lo + i - 1>>[1] = c
        OBVIOUS
      <3>2. QED
        BY <1>10, <2>2, <3>1
    <2>3. CarriedAt(t)' = CarriedAt(t)
      BY <1>7, <2>2
    <2>4. \A i \in Kinds \ {} : At(t)'[i] = At(t)[i]
      BY <1>8, <2>1, <2>3, KindsSame
    <2>5. QED
      BY <1>8, <2>4, SameFine
  <1>11. QED
    BY <1>9, <1>10

\* What was carried is in the thief's queue, unless the CHECK fails.
LEMMA OnceStealReply ==
  ASSUME Shape, [Next]_vars, NEW t \in Tasks, Fine(t), NEW c \in Cores, StealReply(c),
         fatal' = "none"
  PROVE  Fine(t)'
  <1> DEFINE n == Reclaimed(top, c)[c]
             a == steal[c].amt
             d == steal[c].data
  <1>1. TypeOK /\ QueueType /\ steal \in [Cores -> StealType] /\ ReplyOK(c) /\ SlotsOK(c) /\ StackSize \in Nat
    BY TypeParts, WorkStealingAssumption DEF Shape
  <1>2. /\ steal[c].st = "sent" /\ Len(d) = a /\ a \in Nat
    BY <1>1, WorkStealingAssumption DEF StealReply, ReplyOK, StealType
  <1>3. /\ n + a < StackSize
        /\ stack' = [stack EXCEPT ![c] = [i \in 0 .. StackSize - 1 |->
                              IF i \in n .. n + a - 1 THEN d[i - n + 1] ELSE stack[c][i]]]
        /\ top' = [top EXCEPT ![c] = n + a]
        /\ bottom' = Reclaimed(bottom, c)
    BY DEF StealReply
  <1>4. /\ steal'[c].st = "full" /\ steal'[c].data = <<>>
        /\ \A e \in Cores \ {c} : steal'[e] = steal[e]
    <2>1. fatal' # "reply"
      OBVIOUS
    <2>2. QED
      BY <1>1, <2>1, StealStepFields DEF StealStep
  <1>5. UNCHANGED <<privateQ, remote, spawned, done, worker>>
    BY DEF StealReply, manager, ghost
  <1>6. n \in Nat /\ bottom'[c] \in Nat /\ bottom'[c] <= n
    <2>1. bottom[c] \in 0 .. StackSize /\ top[c] \in 0 .. StackSize /\ bottom[c] <= top[c]
      BY <1>1 DEF QueueType, SlotsOK
    <2>2. CASE MayReclaim(c)
      <3>1. n = 0 /\ bottom'[c] = 0
        BY <1>1, <1>3, <2>2 DEF Reclaimed, QueueType
      <3>2. QED
        BY <3>1
    <2>3. CASE ~MayReclaim(c)
      <3>1. n = top[c] /\ bottom'[c] = bottom[c]
        BY <1>1, <1>3, <2>3 DEF Reclaimed, QueueType
      <3>2. QED
        BY <1>1, <2>1, <3>1
    <2>4. QED
      BY <2>2, <2>3
  <1>7. ASSUME NEW i \in 0 .. StackSize - 1
        PROVE  i \in bottom'[c] .. n - 1 <=> i \in bottom[c] .. top[c] - 1
    <2>1. bottom[c] \in 0 .. StackSize /\ top[c] \in 0 .. StackSize
      BY <1>1 DEF QueueType
    <2>2. CASE MayReclaim(c)
      <3>1. n = 0 /\ bottom'[c] = 0 /\ top[c] - bottom[c] = 0
        BY <1>1, <1>3, <2>2 DEF Reclaimed, QueueType, MayReclaim, depth
      <3>2. QED
        BY <2>1, <3>1
    <2>3. CASE ~MayReclaim(c)
      <3>1. n = top[c] /\ bottom'[c] = bottom[c]
        BY <1>1, <1>3, <2>3 DEF Reclaimed, QueueType
      <3>2. QED
        BY <3>1
    <2>4. QED
      BY <2>2, <2>3
  <1> HIDE DEF n
  <1>8. ASSUME NEW p \in Slots
        PROVE  p \in PublicAt(t)' <=>
                  \/ p \in PublicAt(t)
                  \/ p[1] = c /\ p[2] \in n .. n + a - 1 /\ d[p[2] - n + 1] = t
    <2>1. p[1] \in Cores /\ p[2] \in 0 .. StackSize - 1
      BY DEF Slots
    <2>2. CASE p[1] = c
      <3>1. top'[c] = n + a
        BY <1>1, <1>3 DEF QueueType
      <3>2. stack'[c][p[2]] = IF p[2] \in n .. n + a - 1 THEN d[p[2] - n + 1] ELSE stack[c][p[2]]
        BY <1>1, <1>3, <2>1 DEF QueueType
      <3>3. /\ p[2] \in bottom'[c] .. top'[c] - 1 <=> p[2] \in bottom'[c] .. n - 1 \/ p[2] \in n .. n + a - 1
            /\ p[2] \in bottom'[c] .. n - 1 => p[2] \notin n .. n + a - 1
        BY <1>2, <1>6, <2>1, <3>1
      <3>4. p \in PublicAt(t)' <=> p[2] \in bottom'[c] .. top'[c] - 1 /\ stack'[c][p[2]] = t
        BY <2>2 DEF PublicAt
      <3>5. p \in PublicAt(t) <=> p[2] \in bottom[c] .. top[c] - 1 /\ stack[c][p[2]] = t
        BY <2>2 DEF PublicAt
      <3>6. p[2] \in bottom'[c] .. n - 1 <=> p[2] \in bottom[c] .. top[c] - 1
        BY <1>7, <2>1
      <3>7. QED
        BY <2>2, <3>2, <3>3, <3>4, <3>5, <3>6
    <2>3. CASE p[1] # c
      <3>1. top'[p[1]] = top[p[1]] /\ bottom'[p[1]] = bottom[p[1]] /\ stack'[p[1]] = stack[p[1]]
        BY <1>1, <1>3, <2>1, <2>3 DEF QueueType, Reclaimed
      <3>2. QED
        BY <2>3, <3>1 DEF PublicAt
    <2>4. QED
      BY <2>2, <2>3
  <1>9. ASSUME NEW i \in 1 .. a PROVE <<c, i>> \in CarriedAt(t) <=> d[i] = t
    BY <1>2, InCarried
  <1>10. CarriedAt(t)' = {x \in CarriedAt(t) : x[1] # c}
    <2>1. ASSUME NEW x PROVE x \in CarriedAt(t)' <=> x \in CarriedAt(t) /\ x[1] # c
      <3>1. ASSUME x \in CarriedAt(t)' PROVE x \in CarriedAt(t) /\ x[1] # c
        <4>1. PICK e \in Cores : \E i \in 1 .. Len(steal'[e].data) : x = <<e, i>> /\ steal'[e].data[i] = t
          BY <3>1, InCarried
        <4>2. Len(<<>>) = 0 /\ 1 .. 0 = {}
          OBVIOUS
        <4>3. e # c
          BY <1>4, <4>1, <4>2
        <4>4. QED
          BY <1>4, <4>1, <4>3, InCarried
      <3>2. ASSUME x \in CarriedAt(t), x[1] # c PROVE x \in CarriedAt(t)'
        <4>1. PICK e \in Cores : \E i \in 1 .. Len(steal[e].data) : x = <<e, i>> /\ steal[e].data[i] = t
          BY <3>2, InCarried
        <4>2. e # c
          BY <3>2, <4>1
        <4>3. QED
          BY <1>4, <4>1, <4>2, InCarried
      <3>3. QED
        BY <3>1, <3>2
    <2>2. QED
      BY <2>1
  <1>11. PointedAt(t)' = PointedAt(t)
    <2>1. \A e \in Cores : \/ steal'[e] = steal[e]
                           \/ steal[e].st # "queued" /\ steal'[e].st # "queued"
      BY <1>2, <1>4
    <2>2. QED
      BY <2>1, PointedSame
  <1>12. /\ PrivateAt(t)' = PrivateAt(t) /\ SpawnedAt(t)' = SpawnedAt(t)
         /\ RunningAt(t)' = RunningAt(t) /\ done' = done /\ spawned' = spawned
    BY <1>5 DEF PrivateAt, SpawnedAt, RunningAt
  <1>13. \A p \in PublicAt(t) \union PublicAt(t)' : p \in Slots
    BY DEF PublicAt
  <1>14. CASE \E x \in CarriedAt(t) : x[1] = c
    <2>1. PICK x \in CarriedAt(t) : x[1] = c
      BY <1>14
    <2>2. x = <<c, x[2]>> /\ x[2] \in 1 .. a
      <3>1. PICK e \in Cores : \E i \in 1 .. Len(steal[e].data) : x = <<e, i>> /\ steal[e].data[i] = t
        BY <2>1, InCarried
      <3>2. PICK i \in 1 .. Len(steal[e].data) : x = <<e, i>> /\ steal[e].data[i] = t
        BY <3>1
      <3>3. e = c
        BY <2>1, <3>2
      <3>4. QED
        BY <1>2, <3>2, <3>3
    <2> DEFINE y == <<c, n + x[2] - 1>>
    <2>3. "carried" \in Kinds /\ "public" \in Kinds /\ "carried" # "public"
      BY DEF Kinds
    <2>4. CarriedAt(t) = {x} /\ PublicAt(t) = {}
      <3>1. x \in At(t)["carried"]
        BY AtKinds
      <3>2. At(t)["carried"] = {x} /\ At(t)["public"] = {}
        BY <1>1, <2>3, <3>1, FineHere
      <3>3. QED
        BY <3>2, AtKinds
    <2>5. CarriedAt(t)' = CarriedAt(t) \ {x}
      BY <1>10, <2>1, <2>4
    <2>6. PublicAt(t)' = PublicAt(t) \union {y}
      <3>1. /\ n + x[2] - 1 \in 0 .. StackSize - 1 /\ n + x[2] - 1 \in n .. n + a - 1
            /\ (n + x[2] - 1) - n + 1 = x[2]
        BY <1>1, <1>2, <1>3, <1>6, <2>2
      <3>2. y \in Slots
        BY <3>1 DEF Slots
      <3>3. d[x[2]] = t
        BY <1>9, <2>1, <2>2
      <3>4. y \in PublicAt(t)'
        BY <1>8, <3>1, <3>2, <3>3
      <3>5. ASSUME NEW p \in PublicAt(t)' PROVE p = y
        <4>1. p \in Slots /\ p = <<p[1], p[2]>> /\ p[2] \in 0 .. StackSize - 1
          BY <1>13 DEF Slots
        <4>2. p[1] = c /\ p[2] \in n .. n + a - 1 /\ d[p[2] - n + 1] = t
          BY <1>8, <2>4, <4>1
        <4>3. p[2] - n + 1 \in 1 .. a
          BY <1>2, <1>6, <4>1, <4>2
        <4>4. <<c, p[2] - n + 1>> = <<c, x[2]>>
          BY <1>9, <2>2, <2>4, <4>2, <4>3
        <4>5. p[2] - n + 1 = x[2]
          BY <4>4
        <4>6. p[2] = n + x[2] - 1
          BY <1>6, <2>2, <4>1, <4>5
        <4>7. QED
          BY <4>1, <4>2, <4>6
      <3>6. QED
        BY <2>4, <3>4, <3>5
    <2>7. \A i \in Kinds \ {"carried", "public"} : At(t)'[i] = At(t)[i]
      BY <1>11, <1>12, KindsSame
    <2> HIDE DEF y
    <2>8. /\ x \in At(t)["carried"] /\ At(t)'["carried"] = At(t)["carried"] \ {x}
          /\ At(t)'["public"] = At(t)["public"] \union {y}
      BY <2>5, <2>6, AtKinds, AtKindsNext
    <2>9. QED
      BY <1>1, <1>12, <2>3, <2>7, <2>8, MoveFine
  <1>15. CASE ~\E x \in CarriedAt(t) : x[1] = c
    <2>1. CarriedAt(t)' = CarriedAt(t)
      BY <1>10, <1>15
    <2>2. ASSUME NEW i \in 1 .. a, d[i] = t PROVE FALSE
      <3>1. <<c, i>> \in CarriedAt(t) /\ <<c, i>>[1] = c
        BY <1>9, <2>2
      <3>2. QED
        BY <1>15, <3>1
    <2>3. ASSUME NEW p \in Slots, p[2] \in n .. n + a - 1 PROVE p[2] - n + 1 \in 1 .. a
      <3>1. p[2] \in Int /\ n \in Int /\ a \in Int
        BY <1>2, <1>6 DEF Slots
      <3> HIDE DEF a
      <3>2. QED
        BY <2>3, <3>1
    <2>4. PublicAt(t)' = PublicAt(t)
      BY <1>8, <1>13, <2>2, <2>3
    <2>5. \A i \in Kinds \ {} : At(t)'[i] = At(t)[i]
      BY <1>11, <1>12, <2>1, <2>4, KindsSame
    <2>6. QED
      BY <1>12, <2>5, SameFine
  <1>16. QED
    BY <1>14, <1>15

\* With the shape of the state, having each task in one place is inductive.
LEMMA NextOnce == Shape /\ Once /\ [Next]_vars => Once'
  <1> SUFFICES ASSUME Shape, Once, [Next]_vars, fatal' = "none", NEW t \in Tasks
               PROVE  Fine(t)'
    BY DEF Once
  <1>0. worker \in [Workers -> WorkerType] /\ steal \in [Cores -> StealType] /\ \A c \in Cores : ReplyOK(c)
    BY TypeParts DEF Shape
  <1>1. CASE UNCHANGED vars
    <2>1. /\ UNCHANGED <<queue, privateQ, remote, spawned, done, worker, steal, fatal>>
      BY <1>1 DEF vars, manager, network, ghost
    <2>2. Fine(t)
      BY <2>1 DEF Once
    <2>3. QED
      BY <2>1, <2>2, OnceQuiet
  <1>2. ASSUME fatal = "none", Next, ~UNCHANGED vars PROVE Fine(t)'
    <2>0. Fine(t)
      BY <1>2 DEF Once
    <2>1. ASSUME NEW w \in Workers, Resume(w) \/ WaitForAll(w) \/ AllCompleted(w) PROVE Fine(t)'
      <3>1. \E pc : Becomes(w, pc, worker[w].task)
        BY <2>1 DEF Resume, WaitForAll, AllCompleted, Shape, WorkerOK
      <3>2. \A v \in Workers : worker'[v].task = worker[v].task
        BY <1>0, <3>1 DEF Becomes
      <3>3. UNCHANGED <<queue, privateQ, remote, spawned, done, steal>>
        BY <2>1 DEF Resume, WaitForAll, AllCompleted, manager, network, ghost
      <3>4. QED
        BY <2>0, <3>2, <3>3, OnceQuiet
    <2>2. ASSUME NEW c \in Cores, StealFailed(c) \/ mark_sent(c) \/ signal_termination(c) PROVE Fine(t)'
      <3>1. UNCHANGED <<queue, privateQ, remote, spawned, done, worker>>
        BY <2>2 DEF StealFailed, mark_sent, signal_termination, manager, network, ghost
      <3>2. \A d \in Cores : \/ steal'[d] = steal[d]
                             \/ /\ steal[d].st # "queued" /\ steal'[d].st # "queued"
                                /\ steal'[d].data = steal[d].data
        <4>1. CASE StealFailed(c)
          <5>1. steal[c].st = "failed" /\ steal'[c].st = "full" /\ steal'[c].data = steal[c].data
            BY <1>0, <4>1, StealStepFields DEF StealFailed
          <5>2. \A d \in Cores \ {c} : steal'[d] = steal[d]
            BY <1>0, <4>1, StealStepFields DEF StealStep
          <5>3. QED
            BY <5>1, <5>2
        <4>2. CASE mark_sent(c) \/ signal_termination(c)
          BY <4>2 DEF mark_sent, signal_termination, network
        <4>3. QED
          BY <2>2, <4>1, <4>2
      <3>3. QED
        BY <2>0, <3>1, <3>2, OnceQuiet
    <2>3. ASSUME NEW w \in Workers, WorkerStep(w) PROVE Fine(t)'
      BY <2>0, <2>1, <2>3, OnceConsumePrivate, OnceConsumePublic, OnceStealLocally, OnceIdle, OnceReturn
      DEF WorkerStep
    <2>4. ASSUME NEW w \in Workers, Spawn(w) PROVE Fine(t)'
      BY <2>0, <2>4, OnceSpawnPublic, OnceSpawnLocal, OnceSpawnRemote DEF Spawn
    <2>5. ASSUME NEW c \in Cores, StealStep(c) PROVE Fine(t)'
      BY <2>0, <2>2, <2>5, OnceStealRequest, OnceSerialize, OnceStealReply DEF StealStep
    <2>6. ASSUME NEW m \in remote, spawnRemotePrivate(m) PROVE Fine(t)'
      BY <2>0, <2>6, OnceSpawnArrives
    <2>7. QED
      BY <1>2, <2>2, <2>3, <2>4, <2>5, <2>6 DEF Next, Terminated
  <1>3. Next /\ ~UNCHANGED vars => fatal = "none"
    <2>1. ASSUME NEW w \in Workers, WorkerStep(w) PROVE fatal = "none"
      BY <2>1
      DEF WorkerStep, ConsumePrivate, ConsumePublic, steal_locally, thread_idle, Quit, Resume, Return,
          WaitForAll, AllCompleted, Grappa_end_tasks, Looking, Searching, Running, nextCoroutine
    <2>2. ASSUME NEW w \in Workers, Spawn(w) PROVE fatal = "none"
      BY <2>2
      DEF Spawn, spawnPublic, spawnLocalPrivate, Grappa_remote_privateTask, SpawningBound,
          SpawningUnbound, Spawning, Running, nextCoroutine
    <2>3. ASSUME NEW c \in Cores, StealStep(c) \/ mark_sent(c) \/ signal_termination(c) PROVE fatal = "none"
      BY <2>3
      DEF StealStep, StealRequest, serialize_to, StealReply, StealFailed, mark_sent, signal_termination
    <2>4. ASSUME NEW m \in remote, spawnRemotePrivate(m) PROVE fatal = "none"
      BY <2>4 DEF spawnRemotePrivate
    <2>5. QED
      BY <2>1, <2>2, <2>3, <2>4 DEF Next, Terminated
  <1>4. QED
    BY <1>1, <1>2, <1>3

\* At first user_main is run, and nothing else is spawned.
LEMMA InitOnce == Init => Once
  <1> SUFFICES ASSUME Init, NEW t \in Tasks PROVE Fine(t)
    BY DEF Once
  <1>a. /\ NumCores \in Nat \ {0} /\ NumWorkers \in Nat \ {0} /\ StackSize \in Nat
        /\ MaxTasks \in Nat \ {0}
        /\ FirstTasks \in 0 .. MaxTasks - 1 /\ FirstTasks <= StackSize
    BY WorkStealingAssumption
  <1>b. 0 \in Cores /\ <<0, 1>> \in Workers /\ t \in Nat /\ t # 0
    BY <1>a DEF Cores, Workers, Tasks
  <1>1. PrivateAt(t) = {}
    <2>1. \A c \in Cores : Len(privateQ[c]) = 0
      BY DEF Init
    <2>2. 0 .. 0 - 1 = {}
      OBVIOUS
    <2>3. \A x : x \notin PrivateAt(t)
      BY <2>1, <2>2, InPrivate
    <2>4. QED
      BY <2>3
  <1>2. CarriedAt(t) = {}
    <2>1. \A c \in Cores : Len(steal[c].data) = 0
      BY DEF Init, NoSteal
    <2>2. 1 .. 0 = {}
      OBVIOUS
    <2>3. \A x : x \notin CarriedAt(t)
      BY <2>1, <2>2, InCarried
    <2>4. QED
      BY <2>3
  <1>3. PointedAt(t) = {}
    BY DEF Init, NoSteal, PointedAt, Slots
  <1>4. SpawnedAt(t) = {} /\ done \intersect {t} = {}
    BY DEF Init, SpawnedAt
  <1>5. RunningAt(t) = IF t = 1 THEN {<<0, 1>>} ELSE {}
    BY <1>b DEF Init, RunningAt, user_main, NoTask
  <1>6. PublicAt(t) = IF t \in 2 .. FirstTasks + 1 THEN {<<0, t - 2>>} ELSE {}
    <2>1. ASSUME NEW p \in Slots
          PROVE  p \in PublicAt(t) <=> t \in 2 .. FirstTasks + 1 /\ p = <<0, t - 2>>
      <3>1. p = <<p[1], p[2]>> /\ p[1] \in Cores /\ p[2] \in 0 .. StackSize - 1
        BY DEF Slots
      <3>2. CASE p[1] = 0
        <4>1. p \in PublicAt(t) <=> p[2] \in 0 .. FirstTasks - 1 /\ stack[0][p[2]] = t
          BY <1>b, <3>1, <3>2 DEF Init, PublicAt
        <4>2. p[2] \in 0 .. FirstTasks - 1 => stack[0][p[2]] = p[2] + 2
          BY <1>a, <1>b, <3>1 DEF Init
        <4>3. /\ p[2] \in 0 .. FirstTasks - 1 /\ p[2] + 2 = t <=> t \in 2 .. FirstTasks + 1 /\ p[2] = t - 2
          BY <1>a, <1>b, <3>1
        <4>4. QED
          BY <3>1, <3>2, <4>1, <4>2, <4>3
      <3>3. CASE p[1] # 0
        <4>1. p \notin PublicAt(t)
          BY <3>1, <3>3 DEF Init, PublicAt
        <4>2. QED
          BY <3>1, <3>3, <4>1
      <3>4. QED
        BY <3>2, <3>3
    <2>2. t \in 2 .. FirstTasks + 1 => <<0, t - 2>> \in Slots
      BY <1>a, <1>b DEF Slots
    <2>3. \A p \in PublicAt(t) : p \in Slots
      BY DEF PublicAt
    <2>4. QED
      BY <2>1, <2>2, <2>3
  <1>7. spawned = 1 + FirstTasks
    BY DEF Init
  <1>8. CASE t = 1
    <2>1. "running" \in Kinds /\ At(t)["running"] = {<<0, 1>>}
      BY <1>5, <1>8, AtKinds DEF Kinds
    <2>2. PublicAt(t) = {}
      BY <1>6, <1>8
    <2>3. \A i \in Kinds \ {"running"} : At(t)[i] = {}
      BY <1>1, <1>2, <1>3, <1>4, <2>2, AtKinds DEF Kinds
    <2>4. Sole(t)
      BY <2>1, <2>3 DEF Sole, SoleOf
    <2>5. ~(t > spawned)
      BY <1>7, <1>8, <1>a
    <2>6. QED
      BY <2>4, <2>5 DEF Fine
  <1>9. CASE t \in 2 .. FirstTasks + 1
    <2>1. "public" \in Kinds /\ At(t)["public"] = {<<0, t - 2>>}
      BY <1>6, <1>9, AtKinds DEF Kinds
    <2>2. RunningAt(t) = {}
      BY <1>5, <1>9
    <2>3. \A i \in Kinds \ {"public"} : At(t)[i] = {}
      BY <1>1, <1>2, <1>3, <1>4, <2>2, AtKinds DEF Kinds
    <2>4. Sole(t)
      BY <2>1, <2>3 DEF Sole, SoleOf
    <2>5. ~(t > spawned)
      BY <1>7, <1>9, <1>a
    <2>6. QED
      BY <2>4, <2>5 DEF Fine
  <1>10. CASE t # 1 /\ t \notin 2 .. FirstTasks + 1
    <2>1. RunningAt(t) = {} /\ PublicAt(t) = {}
      BY <1>5, <1>6, <1>10
    <2>2. Nowhere(t)
      BY <1>1, <1>2, <1>3, <1>4, <2>1, AtKinds DEF Nowhere, Kinds
    <2>3. ~(t <= spawned)
      BY <1>7, <1>10, <1>a, <1>b
    <2>4. QED
      BY <2>2, <2>3 DEF Fine
  <1>11. QED
    BY <1>8, <1>9, <1>10

\* So both are invariants: a task is pushed, stolen, copied, run and finished in
\* one place at a time.
THEOREM OnceInvariant == Spec => [](Shape /\ Once)
  BY InitShape, InitOnce, NextShape, NextOnce, PTL DEF Spec

\* EachTaskOnce, for every instance: no task is lost and none is duplicated
\* while queues are stolen from, wrapped round and reused.
THEOREM TasksOnce == Spec => []EachTaskOnce
  <1>1. Shape /\ Once => EachTaskOnce
    <2> SUFFICES ASSUME Shape, Once, fatal = "none", NEW t \in 1 .. spawned PROVE Places(t) = 1
      BY DEF EachTaskOnce
    <2>1. t \in Tasks /\ t <= spawned
      BY WorkStealingAssumption DEF Shape, TypeOK, Tasks
    <2>2. PICK k \in Kinds : SoleOf(t, k)
      BY <2>1 DEF Once, Fine, Sole
    <2>3. PICK x : At(t)[k] = {x}
      BY <2>2 DEF SoleOf
    <2>4. \A i \in Kinds \ {k} : At(t)[i] = {}
      BY <2>2 DEF SoleOf
    <2>5. Cardinality({}) = 0 /\ Cardinality({x}) = 1
      BY FS_EmptySet, FS_Singleton
    <2>6. \A i \in Kinds : Cardinality(At(t)[i]) = IF i = k THEN 1 ELSE 0
      BY <2>3, <2>4, <2>5
    <2> DEFINE N(i) == IF i = k THEN 1 ELSE 0
    <2>7. /\ Cardinality(PublicAt(t)) = N("public") /\ Cardinality(PrivateAt(t)) = N("private")
          /\ Cardinality(PointedAt(t)) = N("pointed") /\ Cardinality(CarriedAt(t)) = N("carried")
          /\ Cardinality(RunningAt(t)) = N("running") /\ Cardinality(SpawnedAt(t)) = N("remote")
      BY <2>6, AtKinds DEF Kinds
    <2>8. (IF t \in done THEN 1 ELSE 0) = N("done")
      <3>1. done \intersect {t} = At(t)["done"] /\ "done" \in Kinds
        BY AtKinds DEF Kinds
      <3>2. CASE k = "done"
        <4>1. t \in done
          BY <2>3, <3>1, <3>2
        <4>2. QED
          BY <3>2, <4>1
      <3>3. CASE k # "done"
        <4>1. t \notin done
          BY <2>4, <3>1, <3>3
        <4>2. QED
          BY <3>3, <4>1
      <3>4. QED
        BY <3>2, <3>3
    <2>9. N("public") + N("private") + N("pointed") + N("carried") + N("running") + N("remote") + N("done") = 1
      BY DEF Kinds
    <2> HIDE DEF N
    <2>10. QED
      BY <2>7, <2>8, <2>9 DEF Places
  <1>2. QED
    BY <1>1, OnceInvariant, PTL
=========================================================================

--------------------------- MODULE LocalSync ---------------------------
(***************************************************************************)
(* The synchronisation objects of one Grappa core, on the scheduler that   *)
(* runs its workers: Mutex, ReuseList (through ReuseMessageList),          *)
(* ReusePool on a CountingSemaphore, FullEmpty and CompletionEvent, with   *)
(* the calls that other cores make on a FullEmpty or under a Mutex.        *)
(*                                                                         *)
(* Workers are cooperative.  One runs until it waits, yields or ends; the  *)
(* scheduler then takes the first of readyQ or, when it polls, runs the    *)
(* handler of a message.  A wait list holds workers and, for the objects   *)
(* that are called remotely, suspended delegates: closures that the        *)
(* broadcast or signal runs where it would have woken a worker.            *)
(***************************************************************************)
EXTENDS Integers, Sequences, FiniteSets, SequencesExt

CONSTANTS
    Workers,        \* the workers of the core that run tasks
    Remotes,        \* tasks of other cores, which call remotely
    NumMessages,    \* messages of the ReuseMessageList (outstanding_)
    PoolSize,       \* buffers of the ReusePool (max_count)
    Enrolled,       \* initial count of the CompletionEvent
    Programs,       \* the sets of objects that a program may use together
    FuncLocks,      \* func of a remote call under a mutex locks and unlocks it
    MaxCalls,       \* bound: calls and yields of the workers of each program
    NoWorker        \* nobody runs: the scheduler is choosing

Objects == {"mutex", "list", "pool", "fe", "ce"}
Messages == 1 .. NumMessages
Buffers == 1 .. PoolSize

ASSUME LocalSyncAssumption ==
    /\ NumMessages \in Nat /\ PoolSize \in Nat /\ Enrolled \in Nat
    /\ Programs \subseteq SUBSET Objects /\ MaxCalls \in [Programs -> Nat]
    /\ FuncLocks \in BOOLEAN
    /\ IsFiniteSet(Workers) /\ Workers \cap Remotes = {}
    /\ NoWorker \notin Workers \cup Remotes

VARIABLES
    used,       \* the objects that this program uses
    current_thread, readyQ,
    op,         \* [Workers -> the call the worker is in, or "none"]
    calls,      \* calls and yields made so far
    waiters_,   \* [Objects -> Seq(Workers \cup Remotes)], the head first
    lock_, inside,      \* Mutex; the workers between lock and unlock
    list_, sending,     \* ReuseList; the messages popped and not yet sent
    count_, ptrs_, has, \* ReusePool; [Workers -> its buffer, or 0]
    state_, unread,     \* FullEmpty; values stored less values taken or replaced
    count,              \* CompletionEvent
    call                \* [Remotes -> what the remote task asked and how far it is]

mutexVars == <<lock_, inside>>
listVars == <<list_, sending>>
poolVars == <<count_, ptrs_, has>>
feVars == <<state_, unread>>
objectVars == <<mutexVars, listVars, poolVars, feVars, count>>
vars == <<used, current_thread, readyQ, op, calls, waiters_, objectVars, call>>

BlockingCalls == {"lock", "with_message", "block_until_pop", "writeEF", "writeFF",
                  "readFF", "readFE", "wait"}
RemoteCalls == {"readFF", "writeXF", "mutex"}
ObjectOf(k) == CASE k \in {"lock", "mutex"} -> "mutex" [] k = "with_message" -> "list"
                 [] k = "block_until_pop" -> "pool"    [] k = "wait" -> "ce"
                 [] OTHER -> "fe"

Init ==
    /\ used \in Programs
    /\ current_thread = NoWorker
    /\ readyQ = SetToSeq(Workers)     \* in the order they were spawned
    /\ op = [w \in Workers |-> "none"] /\ calls = 0
    /\ waiters_ = [o \in Objects |-> << >>]
    /\ lock_ = FALSE /\ inside = {}
    /\ list_ = [i \in Messages |-> NumMessages + 1 - i] /\ sending = {}
    /\ count_ = PoolSize /\ ptrs_ = [i \in 0 .. PoolSize - 1 |-> i + 1]
    /\ has = [w \in Workers |-> 0]
    /\ state_ = "EMPTY" /\ unread = 0
    /\ count = Enrolled
    /\ call = [r \in Remotes |-> [kind |-> "none", stage |-> "none"]]

---------------------------------------------------------------------------
\* What a worker does to its scheduler

\* The worker makes a call that does not block, or goes on in its own code.
Calls(w, o) ==
    /\ current_thread = w /\ op[w] = "none" /\ o \in used
    /\ calls < MaxCalls[used] /\ calls' = calls + 1
    /\ UNCHANGED <<used, op, current_thread>>

\* A worker that gives something back does so whatever its budget.
GivesBack(w) ==
    /\ current_thread = w /\ op[w] = "none"
    /\ UNCHANGED <<used, op, current_thread, calls>>

\* The worker is at the test of the loop of a blocking call: it has just made
\* the call, or it was woken inside it.
Enters(w, k) ==
    /\ current_thread = w
    /\ \/ op[w] = "none" /\ ObjectOf(k) \in used /\ calls < MaxCalls[used] /\ calls' = calls + 1
       \/ op[w] = k /\ UNCHANGED calls
    /\ UNCHANGED used

Returns(w) == op' = [op EXCEPT ![w] = "none"] /\ UNCHANGED current_thread

add_waiter(o, w) == waiters_' = [waiters_ EXCEPT ![o] = <<w>> \o @]

\* Grappa::wait: the worker is the head of the list, and is suspended.
wait(w, k) ==
    /\ add_waiter(ObjectOf(k), w)
    /\ op' = [op EXCEPT ![w] = k]
    /\ current_thread' = NoWorker
    /\ UNCHANGED <<readyQ, objectVars, call>>

\* The workers of a list, in its order; the others are delegates.
WorkersIn(s) ==
    LET upTo[n \in 0 .. Len(s)] ==
          IF n = 0 THEN << >>
          ELSE IF s[n] \in Workers THEN Append(upTo[n - 1], s[n]) ELSE upTo[n - 1]
    IN upTo[Len(s)]
DelegatesIn(s) == {x \in ToSet(s) : x \in Remotes}

\* The delegates are run: each sends its reply (fill_remote, set_result).
Answer(rs) == call' = [r \in Remotes |-> IF r \in rs THEN [call[r] EXCEPT !.stage = "reply"]
                                                     ELSE call[r]]

\* As if the head stayed in the list.
signalKeepHead(o) ==
    /\ readyQ' = IF waiters_[o] = << >> THEN readyQ ELSE Append(readyQ, Head(waiters_[o]))
    /\ UNCHANGED waiters_

\* signal: the head of the list is woken.
signal(o) ==
    IF waiters_[o] = << >>
      THEN UNCHANGED <<waiters_, readyQ>>
      ELSE /\ waiters_' = [waiters_ EXCEPT ![o] = Tail(@)]
           /\ readyQ' = Append(readyQ, Head(waiters_[o]))

\* As if broadcast did not tell delegates from workers.
broadcastUntested(o) ==
    /\ waiters_' = [waiters_ EXCEPT ![o] = << >>]
    /\ readyQ' = readyQ \o waiters_[o]

\* broadcast: everybody in the list, in its order.  A delegate's readFF
\* broadcasts again from inside, which wakes the rest of the same list.
broadcast(o) ==
    /\ waiters_' = [waiters_ EXCEPT ![o] = << >>]
    /\ readyQ' = readyQ \o WorkersIn(waiters_[o])

\* The worker that was first in readyQ runs.
Dispatch ==
    /\ current_thread = NoWorker /\ readyQ # << >>
    /\ current_thread' = Head(readyQ) /\ readyQ' = Tail(readyQ)
    /\ UNCHANGED <<used, op, calls, waiters_, objectVars, call>>

\* The worker yields between two calls.
thread_yield(w) ==
    /\ current_thread = w /\ op[w] = "none"
    /\ calls < MaxCalls[used] /\ calls' = calls + 1
    /\ current_thread' = NoWorker /\ readyQ' = Append(readyQ, w)
    /\ UNCHANGED <<used, op, waiters_, objectVars, call>>

\* The worker's task ends; it ends with nothing in its hands.
Exit(w) ==
    /\ current_thread = w /\ op[w] = "none" /\ w \notin inside /\ has[w] = 0
    /\ current_thread' = NoWorker
    /\ UNCHANGED <<used, readyQ, op, calls, waiters_, objectVars, call>>

---------------------------------------------------------------------------
\* Mutex

lock(w) ==
    /\ Enters(w, "lock") /\ w \notin inside
    /\ IF lock_ THEN wait(w, "lock")
                 ELSE /\ lock_' = TRUE /\ inside' = inside \cup {w} /\ Returns(w)
                      /\ UNCHANGED <<readyQ, waiters_, listVars, poolVars, feVars, count, call>>

trylock(w) ==
    /\ Calls(w, "mutex") /\ w \notin inside
    /\ IF lock_ THEN UNCHANGED mutexVars
                ELSE lock_' = TRUE /\ inside' = inside \cup {w}
    /\ UNCHANGED <<readyQ, waiters_, listVars, poolVars, feVars, count, call>>

\* signal(mutex) with delegates in the list.  A func that locks and unlocks
\* signals in its turn, so the delegates before the first worker all run.
Woken(s) ==
    LET firstWorker == {i \in DOMAIN s : s[i] \in Workers /\ \A j \in 1 .. i - 1 : s[j] \in Remotes}
    IN IF s = << >> THEN 0
       ELSE IF ~FuncLocks THEN 1
       ELSE IF firstWorker = {} THEN Len(s) ELSE CHOOSE i \in firstWorker : TRUE

signalMutex ==
    LET s == waiters_["mutex"] n == Woken(s) IN
    /\ waiters_' = [waiters_ EXCEPT !["mutex"] = SubSeq(s, n + 1, Len(s))]
    /\ readyQ' = readyQ \o WorkersIn(SubSeq(s, 1, n))
    /\ Answer(DelegatesIn(SubSeq(s, 1, n)))

unlock(w) ==
    /\ GivesBack(w) /\ w \in inside
    /\ lock_' = FALSE /\ inside' = inside \ {w}
    /\ signalMutex
    /\ UNCHANGED <<listVars, poolVars, feVars, count>>

---------------------------------------------------------------------------
\* ReuseList, as a ReuseMessageList uses it

\* with_message: a message is popped, filled in and enqueued.
with_message(w) ==
    /\ Enters(w, "with_message")
    /\ IF list_ = << >> THEN wait(w, "with_message")
                       ELSE /\ list_' = Tail(list_) /\ sending' = sending \cup {Head(list_)}
                            /\ Returns(w)
                            /\ UNCHANGED <<readyQ, waiters_, mutexVars, poolVars, feVars, count, call>>

\* As if a waiter were only told when the list had been empty.
mark_sentWhenEmpty(m) ==
    /\ current_thread = NoWorker /\ m \in sending
    /\ list_' = <<m>> \o list_ /\ sending' = sending \ {m}
    /\ IF list_ = << >> THEN signal("list") ELSE UNCHANGED <<waiters_, readyQ>>
    /\ UNCHANGED <<used, current_thread, op, calls, mutexVars, poolVars, feVars, count, call>>

\* mark_sent, when the message has left: it goes back to the list.
mark_sent(m) ==
    /\ current_thread = NoWorker /\ m \in sending
    /\ list_' = <<m>> \o list_ /\ sending' = sending \ {m}
    /\ signal("list")
    /\ UNCHANGED <<used, current_thread, op, calls, mutexVars, poolVars, feVars, count, call>>

---------------------------------------------------------------------------
\* ReusePool on a CountingSemaphore

\* decrement's test: the count would become negative.
WouldBlock == count_ - 1 < 0

\* decrement, and then the element at the new count.
Pop(w) ==
    /\ count_' = count_ - 1
    /\ has' = [has EXCEPT ![w] = ptrs_[count_ - 1]]
    /\ UNCHANGED ptrs_

block_until_pop(w) ==
    /\ Enters(w, "block_until_pop") /\ has[w] = 0
    /\ IF WouldBlock THEN wait(w, "block_until_pop")
                     ELSE /\ Pop(w) /\ Returns(w)
                          /\ UNCHANGED <<readyQ, waiters_, mutexVars, listVars, feVars, count, call>>

try_pop(w) ==
    /\ Calls(w, "pool") /\ has[w] = 0
    /\ IF count_ - 1 < 0 THEN UNCHANGED poolVars ELSE Pop(w)
    /\ UNCHANGED <<readyQ, waiters_, mutexVars, listVars, feVars, count, call>>

\* The element is stored at the count, and increment wakes everybody.
push(w) ==
    /\ GivesBack(w) /\ has[w] # 0
    /\ ptrs_' = [ptrs_ EXCEPT ![count_] = has[w]]
    /\ count_' = count_ + 1
    /\ has' = [has EXCEPT ![w] = 0]
    /\ broadcast("pool")
    /\ UNCHANGED <<mutexVars, listVars, feVars, count, call>>

---------------------------------------------------------------------------
\* FullEmpty

Desired(k) == IF k = "writeEF" THEN "EMPTY" ELSE "FULL"

\* As if a worker that was woken did not test again.
NotYetOnce(k) == state_ # Desired(k) /\ op[current_thread] = "none"

\* block_until's test.
NotYet(k) == state_ # Desired(k)

StoredBy(k) == IF k = "writeEF" \/ state_ = "EMPTY" THEN 1 ELSE 0

\* As if the signal that is commented out there were called instead.
signalFE == signal("fe") /\ UNCHANGED call

\* broadcast(fe), which readFF, readFE and writeXF end with.
broadcastFE == broadcast("fe") /\ Answer(DelegatesIn(waiters_["fe"]))

\* The four calls that wait for a state; k is the call.
accessFE(w, k) ==
    /\ Enters(w, k)
    /\ IF NotYet(k)
         THEN wait(w, k)
         ELSE /\ state_' = IF k = "readFE" THEN "EMPTY" ELSE "FULL"
              /\ unread' = CASE k = "readFE" -> unread - 1
                             [] k = "readFF" -> unread
                             [] OTHER -> unread + StoredBy(k)
              /\ broadcastFE /\ Returns(w)
              /\ UNCHANGED <<mutexVars, listVars, poolVars, count>>

\* writeXF, from a worker of the core.
writeXF(w) ==
    /\ Calls(w, "fe")
    /\ state_' = "FULL" /\ unread' = unread + StoredBy("writeXF")
    /\ broadcastFE
    /\ UNCHANGED <<mutexVars, listVars, poolVars, count>>

\* reset, whose CHECK wants no waiters.
reset(w) ==
    /\ Calls(w, "fe") /\ waiters_["fe"] = << >>
    /\ state_' = "EMPTY" /\ unread' = 0
    /\ UNCHANGED <<readyQ, waiters_, mutexVars, listVars, poolVars, count, call>>

---------------------------------------------------------------------------
\* CompletionEvent

\* wait tests the count once: a worker that was woken returns.
ceWait(w) ==
    /\ Enters(w, "wait")
    /\ IF count > 0 /\ op[w] = "none"
         THEN wait(w, "wait")
         ELSE Returns(w) /\ UNCHANGED <<readyQ, waiters_, objectVars, call>>

\* More work is enrolled by a task that is itself enrolled.
enroll(w) ==
    /\ Calls(w, "ce") /\ count > 0
    /\ count' = count + 1
    /\ UNCHANGED <<readyQ, waiters_, mutexVars, listVars, poolVars, feVars, call>>

\* complete, from the handler of a message (send_completion).
complete ==
    /\ current_thread = NoWorker /\ "ce" \in used /\ count > 0
    /\ count' = count - 1
    /\ IF count = 1 THEN broadcast("ce") ELSE UNCHANGED <<waiters_, readyQ>>
    /\ UNCHANGED <<used, current_thread, op, calls, mutexVars, listVars, poolVars, feVars, call>>

---------------------------------------------------------------------------
\* Calls of other cores.  The handlers run on this core, between two workers.

\* A task of another core sends its request.
RemoteCall(r, k) ==
    /\ call[r].stage = "none" /\ ObjectOf(k) \in used
    /\ call' = [call EXCEPT ![r] = [kind |-> k, stage |-> "request"]]
    /\ UNCHANGED <<used, current_thread, readyQ, op, calls, waiters_, objectVars>>

Handles(r, k) ==
    /\ current_thread = NoWorker
    /\ call[r] = [kind |-> k, stage |-> "request"]
    /\ UNCHANGED <<used, current_thread, op, calls, listVars, poolVars, count>>

\* The handler blocks by leaving a delegate in the list.
Suspend(r, o) ==
    /\ add_waiter(o, r)
    /\ call' = [call EXCEPT ![r].stage = "delegate"]
    /\ UNCHANGED <<readyQ, mutexVars, feVars>>

\* Remote readFF.
HandleReadFF(r) ==
    /\ Handles(r, "readFF")
    /\ IF state_ = "FULL"
         THEN /\ broadcast("fe") /\ Answer({r} \cup DelegatesIn(waiters_["fe"]))
              /\ UNCHANGED <<mutexVars, feVars>>
         ELSE Suspend(r, "fe")

\* Remote writeXF, a delegate::call.
HandleWriteXF(r) ==
    /\ Handles(r, "writeXF")
    /\ state_' = "FULL" /\ unread' = unread + StoredBy("writeXF")
    /\ broadcast("fe") /\ Answer({r} \cup DelegatesIn(waiters_["fe"]))
    /\ UNCHANGED mutexVars

\* delegate::call(dest, mutex, func): func runs when the mutex is not locked.
HandleMutexCall(r) ==
    /\ Handles(r, "mutex")
    /\ IF lock_
         THEN Suspend(r, "mutex")
         ELSE LET s == waiters_["mutex"] n == IF FuncLocks THEN Woken(s) ELSE 0 IN
              /\ waiters_' = [waiters_ EXCEPT !["mutex"] = SubSeq(s, n + 1, Len(s))]
              /\ readyQ' = readyQ \o WorkersIn(SubSeq(s, 1, n))
              /\ Answer({r} \cup DelegatesIn(SubSeq(s, 1, n)))
              /\ UNCHANGED <<mutexVars, feVars>>

\* The reply is delivered: the remote task's own FullEmpty becomes full.
RemoteReturn(r) ==
    /\ call[r].stage = "reply"
    /\ call' = [call EXCEPT ![r].stage = "done"]
    /\ UNCHANGED <<used, current_thread, readyQ, op, calls, waiters_, objectVars>>

---------------------------------------------------------------------------
WorkerStep(w) ==
    \/ thread_yield(w) \/ Exit(w)
    \/ lock(w) \/ trylock(w) \/ unlock(w)
    \/ with_message(w)
    \/ block_until_pop(w) \/ try_pop(w) \/ push(w)
    \/ \E k \in {"writeEF", "writeFF", "readFF", "readFE"} : accessFE(w, k)
    \/ writeXF(w) \/ reset(w)
    \/ ceWait(w) \/ enroll(w)

Handle(r) == HandleReadFF(r) \/ HandleWriteXF(r) \/ HandleMutexCall(r)

Next ==
    \/ Dispatch
    \/ \E w \in Workers : WorkerStep(w)
    \/ \E m \in Messages : mark_sent(m)
    \/ complete
    \/ \E r \in Remotes, k \in RemoteCalls : RemoteCall(r, k)
    \/ \E r \in Remotes : Handle(r) \/ RemoteReturn(r)

\* The scheduler keeps dispatching and polling, a running worker gets on with
\* its task, and messages are delivered.  Nothing makes a remote task call.
Fairness ==
    /\ WF_vars(Dispatch) /\ WF_vars(complete)
    /\ \A w \in Workers : WF_vars(WorkerStep(w))
    /\ \A m \in Messages : WF_vars(mark_sent(m))
    /\ \A r \in Remotes : WF_vars(Handle(r)) /\ WF_vars(RemoteReturn(r))

Spec == Init /\ [][Next]_vars /\ Fairness

---------------------------------------------------------------------------
\* The objects keep their types: only workers come into readyQ, never a
\* delegate, and the counts stay within what the objects hold.
TypeOK ==
    /\ used \in Programs
    /\ current_thread \in Workers \cup {NoWorker} /\ readyQ \in Seq(Workers)
    /\ op \in [Workers -> BlockingCalls \cup {"none"}] /\ calls \in 0 .. MaxCalls[used]
    /\ waiters_ \in [Objects -> Seq(Workers \cup Remotes)]
    /\ lock_ \in BOOLEAN /\ inside \subseteq Workers
    /\ list_ \in Seq(Messages) /\ sending \subseteq Messages
    /\ count_ \in 0 .. PoolSize /\ ptrs_ \in [0 .. PoolSize - 1 -> Buffers]
    /\ has \in [Workers -> Buffers \cup {0}]
    /\ state_ \in {"EMPTY", "FULL"} /\ unread \in Int
    /\ count \in 0 .. Enrolled + MaxCalls[used]
    /\ call \in [Remotes -> [kind : RemoteCalls \cup {"none"},
                             stage : {"none", "request", "delegate", "reply", "done"}]]

\* In how many queues x is, counting twice where it is twice.
Places(x) ==
    Cardinality({j \in DOMAIN readyQ : readyQ[j] = x})
      + Cardinality(UNION {{<<o, j>> : j \in {k \in DOMAIN waiters_[o] : waiters_[o][k] = x}} :
                             o \in Objects})

\* A worker has one link field for readyQ and for every wait list, and a
\* delegate sits in a list exactly while its caller has no reply: nobody is in
\* two places, whatever wakes, waits again or barges in (thread_wake's CHECK).
OnePlace ==
    /\ \A w \in Workers : Places(w) + (IF current_thread = w THEN 1 ELSE 0) <= 1
    /\ \A r \in Remotes : Places(r) = IF call[r].stage = "delegate" THEN 1 ELSE 0
    /\ \A w \in Workers : op[w] # "none" => Places(w) = 1 \/ current_thread = w

\* The mutex has one holder, a message or a buffer has one place, and a stored
\* value is taken once, although many are woken for it and others barge in.
Exclusive ==
    /\ Cardinality(inside) = IF lock_ THEN 1 ELSE 0
    /\ Len(list_) + Cardinality(sending) = NumMessages
    /\ ToSet(list_) \cup sending = Messages
    /\ LET out == {w \in Workers : has[w] # 0} IN
         /\ count_ + Cardinality(out) = PoolSize
         /\ {ptrs_[i] : i \in 0 .. count_ - 1} \cup {has[w] : w \in out} = Buffers
    /\ unread = IF state_ = "FULL" THEN 1 ELSE 0

\* The workers that were woken in call k and have not tested again.
WokenIn(k) == {w \in Workers : op[w] = k /\ (current_thread = w \/ w \in ToSet(readyQ))}

\* A task that waits for the mutex is not left there while the lock is free:
\* unlock has woken somebody who will take it and unlock it again (Mutex.hpp).
MutexWakes == waiters_["mutex"] # << >> => lock_ \/ WokenIn("lock") # {}

\* The same for the other objects.
ListWakes == waiters_["list"] # << >> => Len(list_) <= Cardinality(WokenIn("with_message"))
PoolWakes == waiters_["pool"] # << >> => count_ = 0
FullEmptyWakes ==
    \A x \in ToSet(waiters_["fe"]) : state_ # IF x \in Workers THEN Desired(op[x]) ELSE "FULL"
EventWakes == waiters_["ce"] # << >> => count > 0

\* Nobody sleeps on a condition that holds unless a wake-up for it is under
\* way.  Mutex and ReuseList wake one waiter only, so others may wait while
\* the lock is free or messages are there, but never more than were woken;
\* the objects that broadcast keep nobody.  In particular a delegate is left
\* with a FullEmpty only while it is empty, so that the readFF it runs, in
\* somebody else's context, never suspends.
NoLostWakeup == MutexWakes /\ ListWakes /\ PoolWakes /\ FullEmptyWakes /\ EventWakes

\* Worker w is in no call for something that is given back.
Served(w) == op[w] \notin {"lock", "with_message", "block_until_pop", "wait"}

\* Every blocked call for something that is given back in the end returns, in
\* spite of barging and of wait lists that are last in, first out, and so does
\* a remote call under a mutex whose func locks it: a program that makes
\* finitely many calls comes to where nobody is left blocked in one.
CallsServed ==
    <>[]( /\ \A w \in Workers : Served(w)
          /\ \A r \in Remotes : call[r].kind = "mutex" => call[r].stage = "done" )
===========================================================================

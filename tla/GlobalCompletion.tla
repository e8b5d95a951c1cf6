------------------------ MODULE GlobalCompletion ------------------------
(***************************************************************************)
(* Grappa's GlobalCompletionEvent (GlobalCompletionEvent.hpp): a reusable  *)
(* barrier over tasks that spawn tasks.  Every core keeps a count of the   *)
(* tasks enrolled there; the master core counts the cores whose count is   *)
(* not zero (cores_out).  When cores_out falls to 0 the master resets the  *)
(* event on every core and, once all are reset, wakes the waiters.         *)
(*                                                                         *)
(* The event is used as by forall (ParallelLoop.hpp) and by the iterative  *)
(* loop of CompletionEvent_tests.cpp: a user task on some core enrolls     *)
(* one task per core; each of these spawns more, completes and waits.  A   *)
(* spawned task may run on any core (work stealing) and completes where it *)
(* was enrolled.  A bystander calls wait without having enrolled anything. *)
(*                                                                         *)
(* Cores are single-threaded and tasks cooperative: what a task does       *)
(* between two blocking calls is one step, and so is a message handler.    *)
(* Messages are neither lost nor duplicated but arrive in any order: the   *)
(* aggregator keeps them in a LIFO list (RDMAAggregator.hpp, enqueue).     *)
(***************************************************************************)
EXTENDS Integers, Bags, FiniteSets, FiniteSetsExt

CONSTANTS
    NumCores,      \* cores()
    Children,      \* names for spawned tasks, at most so many at a time
    Fuel,          \* [Cores -> Nat]: the tasks that come of a core's share of a loop
    Dec            \* how many completions a spawned task stands for

ASSUME GlobalCompletionAssumption ==
    /\ NumCores \in Nat \ {0}
    /\ Fuel \in [0 .. NumCores - 1 -> Nat]
    /\ Dec \in Nat \ {0}
    /\ IsFiniteSet(Children)

Cores == 0 .. NumCores - 1
master_core == 0

Main(c) == <<"main", c>>
Mains == {Main(c) : c \in Cores}
User == <<"user">>
Bystander == <<"bystander", NumCores - 1>>
Kids == {<<"child", k>> : k \in Children}
Tasks == Mains \union Kids \union {User, Bystander}

VARIABLES
    count,                       \* [Cores -> Int]
    event_in_progress,           \* [Cores -> BOOLEAN]
    cv,                          \* [Cores -> SUBSET Tasks]: who waits
    temporary_waking_cv,         \* [Cores -> SUBSET Tasks]: who is to be woken
    cores_out,                   \* on the master
    temporary_waking_cores_out,  \* on the master
    reenroll_count,              \* on the master
    completion_msgs,             \* [Cores -> [Cores -> CompletionMessage]]
    net,                         \* bag of messages under way
    task,                        \* [Tasks -> state of the task]
    recurring,                   \* does the user task call enroll_recurring?
    fatal                        \* a CHECK has failed

vars == <<count, event_in_progress, cv, temporary_waking_cv, cores_out,
          temporary_waking_cores_out, reenroll_count, completion_msgs, net, task,
          recurring, fatal>>

\* A task: where it is in its program, the core it runs on, the core it
\* completes to, what it may still spawn, the task it is about to spawn, the
\* acknowledgements it waits for, and (a ghost) the phase it belongs to.
Idle(c) == [pc |-> "idle", core |-> c, target |-> master_core, fuel |-> 0,
            child |-> User, acks |-> 0, phase |-> 0]

Init ==
    /\ count = [c \in Cores |-> 0]
    /\ event_in_progress = [c \in Cores |-> FALSE]
    /\ cv = [c \in Cores |-> {}]
    /\ temporary_waking_cv = [c \in Cores |-> {}]
    /\ cores_out = 0 /\ temporary_waking_cores_out = 0 /\ reenroll_count = 0
    /\ completion_msgs =
          [c \in Cores |-> [o \in Cores |->
              [queued |-> FALSE, dec |-> 0, completes_to_send |-> 0]]]
    /\ net = EmptyBag
    /\ recurring \in BOOLEAN
    /\ \E origin \in Cores :
          /\ recurring => origin = master_core
          /\ task = [t \in Tasks |->
                Idle(CASE t \in Kids -> 0 [] t = User -> origin [] OTHER -> t[2])]
    /\ fatal = FALSE

Send(ms) == net (+) SetToBag(ms)
Receive(m, ms) == (net (-) SetToBag({m})) (+) SetToBag(ms)

Enter == [type |-> "enter"]
Increment(t) == [type |-> "increment", task |-> t]
Query(t) == [type |-> "query", task |-> t]
Reply(t, n) == [type |-> "reply", task |-> t, value |-> n]
InProgress(c, t) == [type |-> "in_progress", core |-> c, task |-> t]
Ack(t) == [type |-> "ack", task |-> t]
DoComplete(c, dec) == [type |-> "complete", core |-> c, dec |-> dec]
Reset(c, re) == [type |-> "reset", core |-> c, re |-> re]
ResetDone(re) == [type |-> "reset_done", re |-> re]
Wake(c) == [type |-> "wake", core |-> c]

\* A failed CHECK ends the program: no message arrives, no task runs.
Arriving == {m \in BagToSet(net) : ~fatal}
Runs(t) == task[t].pc = "run" /\ ~fatal

(***************************************************************************)
(* enroll(inc), called by task t; tk is the task table as the caller has   *)
(* it by then.                                                             *)
(***************************************************************************)
\* Where the caller continues: the user task starts a task per core, another
\* task spawns the child it has named.
Enrolled(tk, t) ==
    IF t = User
    THEN [u \in Tasks |->
             IF u = User THEN [tk[User] EXCEPT !.pc = "started"]
             ELSE IF u \in Mains THEN [tk[u] EXCEPT !.pc = "run", !.fuel = Fuel[u[2]]]
             ELSE tk[u]]
    ELSE [tk EXCEPT ![t].pc = "run", ![t].child = User,
                    ![tk[t].child].pc = "run"]

\* The call of the master returned co.  The first to leave the barrier sees to
\* it that every core is ready to wait, and blocks until all have answered.
AfterCall(tk, t, co) ==
    IF co = 1 /\ NumCores > 1
    THEN [tk EXCEPT ![t].pc = "all", ![t].acks = NumCores - 1]
    ELSE Enrolled(tk, t)

CallOnAllCores(t, c, co) ==
    IF co = 1 THEN {InProgress(d, t) : d \in Cores \ {c}} ELSE {}

\* Mutant: the call of the master is not waited for.
EnrollWithoutBlocking(t, inc, tk) ==
    LET c == tk[t].core
        first == count[c] = 0
    IN /\ count' = [count EXCEPT ![c] = @ + inc]
       /\ event_in_progress' = [event_in_progress EXCEPT ![c] = @ \/ first]
       /\ cores_out' = IF first /\ c = master_core THEN cores_out + 1 ELSE cores_out
       /\ net' = IF first /\ c # master_core THEN Send({Increment(t)}) ELSE net
       /\ task' = Enrolled(tk, t)
       /\ UNCHANGED <<cv, temporary_waking_cv, temporary_waking_cores_out,
                      completion_msgs, recurring, fatal>>

enroll(t, inc, tk) ==
    LET c == tk[t].core
        first == count[c] = 0
    IN /\ count' = [count EXCEPT ![c] = @ + inc]
       /\ event_in_progress' = [event_in_progress EXCEPT ![c] = @ \/ first]
       /\ \/ /\ first /\ c = master_core
             /\ cores_out' = cores_out + 1
             /\ net' = Send(CallOnAllCores(t, c, cores_out'))
             /\ task' = AfterCall(tk, t, cores_out')
          \/ /\ first /\ c # master_core
             /\ net' = Send({Increment(t)})
             /\ task' = [tk EXCEPT ![t].pc = "call"]
             /\ UNCHANGED cores_out
          \/ /\ ~first
             /\ task' = Enrolled(tk, t)
             /\ UNCHANGED <<net, cores_out>>
       /\ UNCHANGED <<cv, temporary_waking_cv, temporary_waking_cores_out,
                      completion_msgs, recurring, fatal>>

\* The user task begins: enroll(cores()) or enroll_recurring(cores()).
StartPhase ==
    /\ task[User].pc = "idle" /\ ~fatal
    /\ reenroll_count' = IF recurring THEN NumCores ELSE reenroll_count
    /\ enroll(User, NumCores, task)

\* A task names a free child, the core that will run it and its part of what
\* is left to spawn, and enrolls it.
Spawn(t) ==
    /\ Runs(t) /\ task[t].fuel > 0
    /\ \E k \in Kids, d \in Cores, f \in 0 .. task[t].fuel - 1 :
          /\ task[k].pc = "idle"
          /\ enroll(t, Dec,
                    [task EXCEPT ![t].fuel = @ - 1 - f, ![t].child = k,
                                 ![k] = [pc |-> "new", core |-> d, target |-> task[t].core,
                                         fuel |-> f, child |-> User, acks |-> 0,
                                         phase |-> task[t].phase]])
    /\ UNCHANGED reenroll_count

\* The handler on the master, and the task's continuation.
HandleIncrement ==
    \E m \in Arriving :
        /\ m.type = "increment"
        /\ cores_out' = cores_out + 1
        /\ net' = Receive(m, {Reply(m.task, cores_out')})
        /\ UNCHANGED <<count, event_in_progress, cv, temporary_waking_cv,
                       temporary_waking_cores_out, reenroll_count, completion_msgs,
                       task, recurring, fatal>>

ReturnFromCall ==
    \E m \in Arriving :
        LET c == task[m.task].core
        IN /\ m.type = "reply" /\ task[m.task].pc = "call"
           /\ event_in_progress' = [event_in_progress EXCEPT ![c] = @ \/ m.value = 1]
           /\ net' = Receive(m, CallOnAllCores(m.task, c, m.value))
           /\ task' = AfterCall(task, m.task, m.value)
           /\ fatal' = (m.value # 1 /\ count[c] <= 0)
           /\ UNCHANGED <<count, cv, temporary_waking_cv, cores_out,
                          temporary_waking_cores_out, reenroll_count, completion_msgs,
                          recurring>>

HandleInProgress ==
    \E m \in Arriving :
        /\ m.type = "in_progress"
        /\ event_in_progress' = [event_in_progress EXCEPT ![m.core] = TRUE]
        /\ net' = Receive(m, {Ack(m.task)})
        /\ UNCHANGED <<count, cv, temporary_waking_cv, cores_out,
                       temporary_waking_cores_out, reenroll_count, completion_msgs,
                       task, recurring, fatal>>

HandleAck ==
    \E m \in Arriving :
        LET t == m.task
            c == task[t].core
            last == task[t].acks = 1
        IN /\ m.type = "ack"
           /\ net' = Receive(m, {})
           /\ task' = IF last THEN Enrolled([task EXCEPT ![t].acks = 0], t)
                              ELSE [task EXCEPT ![t].acks = @ - 1]
           /\ fatal' = (last /\ (~event_in_progress[c] \/ count[c] <= 0))
           /\ UNCHANGED <<count, event_in_progress, cv, temporary_waking_cv, cores_out,
                          temporary_waking_cores_out, reenroll_count, completion_msgs,
                          recurring>>

(***************************************************************************)
(* complete(dec) and send_completion.                                      *)
(***************************************************************************)
\* Mutant: the barrier is entered at every completion.
EnterAlways(c, dec) == {Enter}

\* What complete(dec) on core c sends.
Entering(c, dec) == IF count[c] = dec THEN {Enter} ELSE {}

\* send_completion(o, dec) on core c, with the messages ms sent besides.  While
\* the last message to o has not left, a completion is added to what follows.
send_completion(c, o, dec, ms) ==
    LET cm == completion_msgs[c][o]
    IN \/ /\ o = c
          /\ count' = [count EXCEPT ![c] = @ - dec]
          /\ net' = Send(Entering(c, dec) \union ms)
          /\ UNCHANGED <<completion_msgs, fatal>>
       \/ /\ o # c /\ cm.queued
          /\ completion_msgs' = [completion_msgs EXCEPT ![c][o].completes_to_send = @ + 1]
          /\ net' = Send(ms)
          /\ UNCHANGED <<count, fatal>>
       \/ /\ o # c /\ ~cm.queued
          /\ completion_msgs' = [completion_msgs EXCEPT ![c][o].queued = TRUE, ![c][o].dec = dec]
          /\ fatal' = (cm.completes_to_send # 0)
          /\ net' = Send(ms)
          /\ UNCHANGED count

\* Mutant: what was added is forgotten.
MarkSentWithoutResend ==
    \E c \in Cores, o \in Cores :
        LET cm == completion_msgs[c][o]
        IN /\ cm.queued /\ ~fatal
           /\ net' = Send({DoComplete(o, cm.dec)})
           /\ completion_msgs' = [completion_msgs EXCEPT ![c][o] =
                 [queued |-> FALSE, dec |-> 0, completes_to_send |-> 0]]
           /\ UNCHANGED <<count, event_in_progress, cv, temporary_waking_cv, cores_out,
                          temporary_waking_cores_out, reenroll_count, task, recurring, fatal>>

\* Mutant: what was sent is sent again with what was added.
MarkSentResendAll ==
    \E c \in Cores, o \in Cores :
        LET cm == completion_msgs[c][o]
        IN /\ cm.queued /\ ~fatal
           /\ net' = Send({DoComplete(o, cm.dec)})
           /\ completion_msgs' = [completion_msgs EXCEPT ![c][o] =
                 [queued |-> cm.completes_to_send > 0, dec |-> cm.dec + cm.completes_to_send,
                  completes_to_send |-> 0]]
           /\ UNCHANGED <<count, event_in_progress, cv, temporary_waking_cv, cores_out,
                          temporary_waking_cores_out, reenroll_count, task, recurring, fatal>>

\* The aggregator takes the message; mark_sent sends again what was added.
mark_sent ==
    \E c \in Cores, o \in Cores :
        LET cm == completion_msgs[c][o]
        IN /\ cm.queued /\ ~fatal
           /\ net' = Send({DoComplete(o, cm.dec)})
           /\ completion_msgs' = [completion_msgs EXCEPT ![c][o] =
                 [queued |-> cm.completes_to_send > 0, dec |-> cm.completes_to_send,
                  completes_to_send |-> 0]]
           /\ UNCHANGED <<count, event_in_progress, cv, temporary_waking_cv, cores_out,
                          temporary_waking_cores_out, reenroll_count, task, recurring, fatal>>

HandleComplete ==
    \E m \in Arriving :
        /\ m.type = "complete"
        /\ count' = [count EXCEPT ![m.core] = @ - m.dec]
        /\ net' = Receive(m, Entering(m.core, m.dec))
        /\ UNCHANGED <<event_in_progress, cv, temporary_waking_cv, cores_out,
                       temporary_waking_cores_out, reenroll_count, completion_msgs,
                       task, recurring, fatal>>

\* A spawned task ends.
Finish(k) ==
    /\ Runs(k)
    /\ task' = [task EXCEPT ![k] = Idle(0)]
    /\ send_completion(task[k].core, task[k].target, Dec, {})
    /\ UNCHANGED <<event_in_progress, cv, temporary_waking_cv, cores_out,
                   temporary_waking_cores_out, reenroll_count, recurring>>

(***************************************************************************)
(* The end of a phase.                                                     *)
(***************************************************************************)
HandleEnter ==
    /\ Enter \in Arriving
    /\ cores_out' = cores_out - 1
    /\ \/ /\ cores_out' = 0
          /\ fatal' = (count[master_core] # 0)
          /\ temporary_waking_cores_out' = NumCores
          /\ net' = Receive(Enter, {Reset(c, reenroll_count) : c \in Cores})
       \/ /\ cores_out' # 0
          /\ net' = Receive(Enter, {})
          /\ UNCHANGED <<fatal, temporary_waking_cores_out>>
    /\ UNCHANGED <<count, event_in_progress, cv, temporary_waking_cv, reenroll_count,
                   completion_msgs, task, recurring>>

\* Mutant: reset() comes before the waiters are set aside.
ResetBeforeCapture ==
    \E m \in Arriving :
        LET c == m.core
        IN /\ m.type = "reset"
           /\ fatal' = (count[c] # 0)
           /\ temporary_waking_cv' = [temporary_waking_cv EXCEPT ![c] = {}]
           /\ cv' = [cv EXCEPT ![c] = {}]
           /\ count' = [count EXCEPT ![c] = 0]
           /\ event_in_progress' = [event_in_progress EXCEPT ![c] = (m.re # 0)]
           /\ cores_out' = IF c = master_core THEN 0 ELSE cores_out
           /\ reenroll_count' = IF c = master_core THEN 0 ELSE reenroll_count
           /\ net' = Receive(m, {ResetDone(m.re)})
           /\ UNCHANGED <<temporary_waking_cores_out, completion_msgs, task, recurring>>

\* The waiters are set aside; reset().
HandleReset ==
    \E m \in Arriving :
        LET c == m.core
        IN /\ m.type = "reset"
           /\ fatal' = (count[c] # 0)
           /\ temporary_waking_cv' = [temporary_waking_cv EXCEPT ![c] = cv[c]]
           /\ cv' = [cv EXCEPT ![c] = {}]
           /\ count' = [count EXCEPT ![c] = 0]
           /\ event_in_progress' = [event_in_progress EXCEPT ![c] = (m.re # 0)]
           /\ cores_out' = IF c = master_core THEN 0 ELSE cores_out
           /\ reenroll_count' = IF c = master_core THEN 0 ELSE reenroll_count
           /\ net' = Receive(m, {ResetDone(m.re)})
           /\ UNCHANGED <<temporary_waking_cores_out, completion_msgs, task, recurring>>

\* Once every core is reset: enroll again what recurs, and wake.
HandleResetDone ==
    \E m \in Arriving :
        /\ m.type = "reset_done"
        /\ temporary_waking_cores_out' = temporary_waking_cores_out - 1
        /\ \/ /\ temporary_waking_cores_out' = 0
              /\ net' = Receive(m, {Wake(c) : c \in Cores})
              /\ \/ /\ m.re # 0
                    /\ count' = [count EXCEPT ![master_core] = m.re]
                    /\ cores_out' = 1
                    /\ reenroll_count' = m.re
                 \/ /\ m.re = 0
                    /\ UNCHANGED <<count, cores_out, reenroll_count>>
           \/ /\ temporary_waking_cores_out' # 0
              /\ net' = Receive(m, {})
              /\ UNCHANGED <<count, cores_out, reenroll_count>>
        /\ UNCHANGED <<event_in_progress, cv, temporary_waking_cv, completion_msgs,
                       task, recurring, fatal>>

(***************************************************************************)
(* wait, and what a task does when it returns.                             *)
(***************************************************************************)
\* A task of the loop begins its next round, or is done until the user task
\* starts the next loop.
Returned(t) ==
    IF t \notin Mains THEN [task[t] EXCEPT !.pc = "idle"]
    ELSE [task[t] EXCEPT !.pc = IF recurring THEN "run" ELSE "done",
                         !.fuel = Fuel[t[2]], !.phase = 1 - @]

\* wait() of task t on core c, which sends WaitSends(t, c).
WaitSends(t, c) ==
    IF ~event_in_progress[c] /\ c # master_core THEN {Query(t)} ELSE {}

wait(t, c) ==
    \/ /\ event_in_progress[c] \/ (c = master_core /\ cores_out > 0)
       /\ cv' = [cv EXCEPT ![c] = @ \union {t}]
       /\ task' = [task EXCEPT ![t].pc = "wait"]
    \/ /\ ~event_in_progress[c] /\ c = master_core /\ cores_out <= 0
       /\ task' = [task EXCEPT ![t] = Returned(t)]
       /\ UNCHANGED cv
    \/ /\ ~event_in_progress[c] /\ c # master_core
       /\ task' = [task EXCEPT ![t].pc = "query"]
       /\ UNCHANGED cv

\* A task of the loop has spawned all it wants: send_completion, then wait.
CompleteAndWait(t) ==
    LET c == task[t].core
    IN /\ Runs(t)
       /\ wait(t, c)
       /\ send_completion(c, task[User].core, 1, WaitSends(t, c))
       /\ UNCHANGED <<event_in_progress, temporary_waking_cv, cores_out,
                      temporary_waking_cores_out, reenroll_count, recurring>>

BystanderWaits ==
    LET c == task[Bystander].core
    IN /\ task[Bystander].pc = "idle" /\ ~fatal
       /\ wait(Bystander, c)
       /\ net' = Send(WaitSends(Bystander, c))
       /\ UNCHANGED <<count, event_in_progress, temporary_waking_cv, cores_out,
                      temporary_waking_cores_out, reenroll_count, completion_msgs,
                      recurring, fatal>>

\* The conservative check: the master is asked, and the answer acted upon.
HandleQuery ==
    \E m \in Arriving :
        /\ m.type = "query"
        /\ net' = Receive(m, {Reply(m.task, cores_out)})
        /\ UNCHANGED <<count, event_in_progress, cv, temporary_waking_cv, cores_out,
                       temporary_waking_cores_out, reenroll_count, completion_msgs,
                       task, recurring, fatal>>

ReturnFromQuery ==
    \E m \in Arriving :
        LET t == m.task
        IN /\ m.type = "reply" /\ task[t].pc = "query"
           /\ net' = Receive(m, {})
           /\ \/ /\ m.value > 0
                 /\ cv' = [cv EXCEPT ![task[t].core] = @ \union {t}]
                 /\ task' = [task EXCEPT ![t].pc = "wait"]
              \/ /\ m.value <= 0
                 /\ task' = [task EXCEPT ![t] = Returned(t)]
                 /\ UNCHANGED cv
           /\ UNCHANGED <<count, event_in_progress, temporary_waking_cv, cores_out,
                          temporary_waking_cores_out, reenroll_count, completion_msgs,
                          recurring, fatal>>

HandleWake ==
    \E m \in Arriving :
        /\ m.type = "wake"
        /\ net' = Receive(m, {})
        /\ task' = [t \in Tasks |->
              IF t \in temporary_waking_cv[m.core] THEN Returned(t) ELSE task[t]]
        /\ temporary_waking_cv' = [temporary_waking_cv EXCEPT ![m.core] = {}]
        /\ UNCHANGED <<count, event_in_progress, cv, cores_out, temporary_waking_cores_out,
                       reenroll_count, completion_msgs, recurring, fatal>>

\* on_all_cores returns to the user task when the tasks of the loop are done.
LoopReturns ==
    /\ task[User].pc = "started" /\ ~fatal
    /\ \A t \in Mains : task[t].pc = "done"
    /\ task' = [t \in Tasks |->
          IF t \in Mains \union {User} THEN [task[t] EXCEPT !.pc = "idle"] ELSE task[t]]
    /\ UNCHANGED <<count, event_in_progress, cv, temporary_waking_cv, cores_out,
                   temporary_waking_cores_out, reenroll_count, completion_msgs, net,
                   recurring, fatal>>

Communicate ==
    \/ HandleIncrement \/ ReturnFromCall \/ HandleInProgress \/ HandleAck
    \/ mark_sent \/ HandleComplete
    \/ HandleEnter \/ HandleReset \/ HandleResetDone \/ HandleWake
    \/ HandleQuery \/ ReturnFromQuery

Next ==
    \/ StartPhase \/ LoopReturns \/ BystanderWaits
    \/ \E t \in Mains \union Kids : Spawn(t)
    \/ \E k \in Kids : Finish(k)
    \/ \E t \in Mains : CompleteAndWait(t)
    \/ Communicate

(***************************************************************************)
(* Messages are delivered and tasks run: the polling loop and the ready    *)
(* queue of a core are first come first served.  Nobody has to start a     *)
(* loop, to spawn, or to wait as a bystander.                              *)
(***************************************************************************)
Fairness ==
    /\ WF_vars(HandleIncrement) /\ WF_vars(ReturnFromCall)
    /\ WF_vars(HandleInProgress) /\ WF_vars(HandleAck)
    /\ WF_vars(mark_sent) /\ WF_vars(HandleComplete)
    /\ WF_vars(HandleEnter) /\ WF_vars(HandleReset)
    /\ WF_vars(HandleResetDone) /\ WF_vars(HandleWake)
    /\ WF_vars(HandleQuery) /\ WF_vars(ReturnFromQuery)
    /\ \A k \in Kids : WF_vars(Finish(k))
    /\ \A t \in Mains : WF_vars(CompleteAndWait(t))
    /\ WF_vars(LoopReturns)

Spec == Init /\ [][Next]_vars /\ Fairness

(***************************************************************************)
(* Properties.                                                             *)
(***************************************************************************)
\* The fields of the event, the messages and the tasks have their types; no
\* count goes below zero, which complete() does not look at.
TypeOK ==
    /\ count \in [Cores -> Nat]
    /\ event_in_progress \in [Cores -> BOOLEAN]
    /\ cv \in [Cores -> SUBSET Tasks]
    /\ temporary_waking_cv \in [Cores -> SUBSET Tasks]
    /\ cores_out \in Nat
    /\ temporary_waking_cores_out \in 0 .. NumCores
    /\ reenroll_count \in {0, NumCores}
    /\ completion_msgs \in
          [Cores -> [Cores -> [queued : BOOLEAN, dec : Nat, completes_to_send : Nat]]]
    /\ IsABag(net)
    /\ \A t \in Tasks :
          /\ task[t].pc \in {"idle", "new", "run", "call", "all", "query", "wait",
                             "started", "done"}
          /\ task[t].core \in Cores /\ task[t].target \in Cores
          /\ task[t].acks \in 0 .. NumCores - 1
    /\ recurring \in BOOLEAN /\ fatal \in BOOLEAN

Working == {"new", "run", "call", "all"}

\* What task t has still to complete on core c.  The user task enrolls for the
\* tasks of a loop before they start, reenroll_count before they are woken.
Owes(t, c) ==
    IF t \in Kids
    THEN IF task[t].pc \in Working /\ task[t].target = c THEN Dec ELSE 0
    ELSE IF /\ t \in Mains /\ c = task[User].core
            /\ \/ task[t].pc \in Working
               \/ task[User].pc \in Working
               \/ recurring /\ task[t].pc = "wait" /\ BagIn(Wake(task[t].core), net)
         THEN 1
         ELSE 0

\* How many copies of message m are under way.
Copies(m) == IF BagIn(m, net) THEN net[m] ELSE 0

Merged(c) ==
    MapThenSumSet(LAMBDA s : completion_msgs[s][c].dec + completion_msgs[s][c].completes_to_send,
                  {s \in Cores : completion_msgs[s][c].queued})

UnderWay(c) ==
    MapThenSumSet(LAMBDA m : m.dec * Copies(m),
                  {m \in BagToSet(net) : m.type = "complete" /\ m.core = c})

\* The count of a core is exactly what tasks have enrolled there and not yet
\* completed, wherever the completion is: in a task, merged in a message that
\* has not left, or under way (enroll, complete, send_completion, mark_sent,
\* and reset with its re-enrolling).
CountExact ==
    \A c \in Cores :
        count[c] = MapThenSumSet(LAMBDA t : Owes(t, c), Tasks) + Merged(c) + UnderWay(c)

Increments ==
    MapThenSumSet(LAMBDA m : Copies(m), {m \in BagToSet(net) : m.type = "increment"})

\* cores_out of the master is the number of cores with work, but for the
\* cancels and the entries to the barrier under way: enroll and complete report
\* every change of a count from and to 0 once, in whatever order they arrive.
CoresOutExact ==
    cores_out = Cardinality({c \in Cores : count[c] # 0}) - Increments + Copies(Enter)

\* No CHECK of the event fails: an event is only reset when every count is 0,
\* a task that has enrolled finds its count above 0 when it goes on, and merged
\* completions are never left behind.
ChecksHold == ~fatal

\* Nobody returns from wait() while a task of the phase waited for still works:
\* tasks that work or have returned all belong to one phase.
PhasesApart ==
    \A t, u \in Mains \union Kids :
        {task[t].pc, task[u].pc} \subseteq Working \union {"done"}
            => task[t].phase = task[u].phase

\* A task of the loop that waits is woken: its phase ends, however completions
\* are merged and delayed.
LoopWoken ==
    \A t \in Mains : (task[t].pc = "wait") ~> (task[t].pc # "wait")

\* "When *all* work has been completed on all cores, all tasks waiting on the GCE
\* will be woken": wait() returns, also to a task that enrolled nothing.
BystanderWoken ==
    (task[Bystander].pc \in {"query", "wait"}) ~> (task[Bystander].pc = "idle")

=========================================================================

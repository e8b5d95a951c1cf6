----------------------------- MODULE Cache -----------------------------
(***************************************************************************)
(* One of Grappa's incoherent caches (Cache.hpp): a task of core 0 copies  *)
(* a range of global memory into local storage (IncoherentAcquirer), works *)
(* on the copy and writes it back (IncoherentReleaser), and may then reset *)
(* the same object to another range.                                       *)
(*                                                                         *)
(* A range of linear memory is cut at block boundaries and each part goes  *)
(* to its home core in a message of its own; the number of messages is     *)
(* computed beforehand, from the addresses, and the operation is done when *)
(* as many replies have come.  Messages are not copied when they are       *)
(* queued: their payload is read when they leave.  Here it is read at the  *)
(* latest moment, when they are handled.  Messages come in any order.      *)
(*                                                                         *)
(* The data is used without races: while a task has a range in its cache,  *)
(* nobody else touches it.                                                 *)
(***************************************************************************)
EXTENDS Integers, FiniteSets

CONSTANTS
    NumCores,       \* cores()
    block_size,     \* bytes of a block of linear memory
    SizeT,          \* sizeof(T)
    MemSize,        \* bytes of linear memory, and of each core's own object
    Kinds,          \* the kinds of cache used: among "RO", "RW", "WO"
    Ranges,         \* [address, count] that a cache may be created for
    ResetRanges,    \* the ones from which and to which it may be reset
    MaxResets,      \* bound: resets of the cache
    MayGrow         \* may it be reset to more elements than it was created for?

mycore == 0
Cores == 0 .. NumCores - 1

\* An address is linear (core is then Linear), or a core and a place there.
Linear == -1
Addresses == [core : Cores \cup {Linear}, at : 0 .. MemSize - 1]

Bytes(r) == r.count * SizeT

ASSUME CacheAssumption ==
    /\ NumCores \in Nat \ {0} /\ block_size \in Nat \ {0} /\ SizeT \in Nat \ {0}
    /\ MemSize \in Nat \ {0} /\ MaxResets \in Nat /\ MayGrow \in BOOLEAN
    /\ Kinds \subseteq {"RO", "RW", "WO"}
    /\ Ranges \subseteq [address : Addresses, count : Nat]
    /\ \A r \in Ranges : r.address.at + Bytes(r) <= MemSize
    /\ ResetRanges \subseteq Ranges

VARIABLES
    kind, range,    \* which cache; address_ and count_
    pointer_,       \* where the task reads and writes: see Places
    storage,        \* [0 .. MemSize - 1 -> value], memory from the cache's buffer on
    allocated,      \* bytes of the buffer; what lies behind it has other owners
    mem,            \* [Cells -> value], the memory of all cores
    acq, rel,       \* acquirer_, releaser_: [started, done, num, resp]
    thread_,        \* in which of the two the task is suspended, or "none"
    msgs,           \* messages on their way
    goal,           \* a reset or the destructor has begun, or "none"
    target, resets, \* where to reset to; resets so far
    wrote,          \* the task has written into this range
    intended        \* [Cells -> value]: memory as the task's writes want it

vars == <<kind, range, pointer_, storage, allocated, mem, acq, rel, thread_, msgs, goal,
          target, resets, wrote, intended>>

Cells == (Cores \cup {Linear}) \X (0 .. MemSize - 1)
CellsOf(r) == {<<r.address.core, r.address.at + k>> : k \in 0 .. Bytes(r) - 1}
Places == {[to |-> "storage"], [to |-> "NULL"]} \cup [to : {"memory"}, address : Addresses]

---------------------------------------------------------------------------
\* Addressing

is_2D(a) == a.core # Linear

\* The addresses of the first byte of a byte's block and of the next block.
block_min(b) == b - (b % block_size)
block_max(b) == b + 1 + block_size - ((b % block_size) + 1)

\* As if the last element were not counted to its last byte.
NumMessagesShort(r) ==
    IF r.count = 0 THEN 0 ELSE IF is_2D(r.address) THEN 1
    ELSE (block_max(r.address.at + Bytes(r) - SizeT) - block_min(r.address.at)) \div block_size

\* reset: how many messages an acquire or a release of the range will take.
NumMessages(r) ==
    IF r.count = 0 THEN 0 ELSE IF is_2D(r.address) THEN 1
    ELSE (block_max(r.address.at + Bytes(r) - 1) - block_min(r.address.at)) \div block_size

\* do_acquire and do_release: the bytes that the message at offset asks for.
\* (For a 2D address the bound is below the address, and as a size_t huge.)
request_bytes(r, offset) ==
    LET left == Bytes(r) - offset
        toEnd == block_max(r.address.at + offset) - (r.address.at + offset)
    IN IF is_2D(r.address) \/ toEnd > left THEN left ELSE toEnd

\* The offsets that the loop comes through, and where it ends.
Offsets(r) ==
    LET turn[k \in 0 .. Bytes(r)] ==
          IF k = 0 THEN 0
          ELSE IF turn[k - 1] < Bytes(r) THEN turn[k - 1] + request_bytes(r, turn[k - 1])
          ELSE turn[k - 1]
    IN {turn[k] : k \in 0 .. Bytes(r)} \ {Bytes(r)}

Requests(side, r) ==
    {[side |-> side, stage |-> "request", offset |-> o, bytes |-> request_bytes(r, o)] :
       o \in Offsets(r)}

---------------------------------------------------------------------------
\* Construction and reset

Fresh(r) == [started |-> FALSE, done |-> FALSE, num |-> NumMessages(r), resp |-> 0]
AtOnce(r) == [Fresh(r) EXCEPT !.started = TRUE, !.done = TRUE]
ShortCircuit(r) == is_2D(r.address) /\ r.address.core = mycore
Memory(r) == [to |-> "memory", address |-> r.address]

\* reset of an IncoherentAcquirer or an IncoherentReleaser: nothing is to be
\* done for no elements, nor for an object of this core.
Reset(r) == IF r.count = 0 \/ ShortCircuit(r) THEN AtOnce(r) ELSE Fresh(r)

\* NullAcquirer is always acquired; NullReleaser is done when it is asked.
AcquirerFor(k, r) == IF k = "WO" THEN AtOnce(r) ELSE Reset(r)
ReleaserFor(k, r) == IF k = "RO" THEN Fresh(r) ELSE Reset(r)

\* *pointer_ after an acquirer's reset, where it was p before.  A NullAcquirer's
\* constructor compares the address of the count with 0, which it never is.
AfterReset(k, r, p) ==
    IF k # "WO" /\ r.count = 0 THEN [to |-> "NULL"]
    ELSE IF ShortCircuit(r) THEN Memory(r) ELSE p

\* As if elements were bytes.
AllocatedElements(r) == r.count

\* CacheAllocator: the buffer for the constructor's count, or the caller's own.
Allocated(r) == Bytes(r)

\* What the owners of the memory behind the buffer keep there.
Others == {-1, -2}

Init ==
    /\ kind \in Kinds /\ range \in Ranges
    /\ pointer_ = AfterReset(kind, range, [to |-> "storage"])
    /\ storage = [k \in 0 .. MemSize - 1 |-> -1] /\ allocated = Allocated(range)
    /\ mem = [c \in Cells |-> (c[1] + 1) * MemSize + c[2]]
    /\ acq = AcquirerFor(kind, range) /\ rel = ReleaserFor(kind, range)
    /\ thread_ = "none" /\ msgs = {}
    /\ goal = "none" /\ target = range /\ resets = 0
    /\ wrote = FALSE /\ intended = mem

\* The value that the task writes at byte k, in its session s.
NewValue(s, k) == 1000 * (s + 1) + k

\* The k-th byte where *pointer_ points.
At(k) == IF pointer_.to = "storage" THEN storage[k]
         ELSE mem[<<pointer_.address.core, pointer_.address.at + k>>]

---------------------------------------------------------------------------
\* The task

Running == thread_ = "none" /\ goal # "destroyed"
Free == Running /\ goal = "none"

Begin(side) == IF side = "acquire" THEN acq' = [acq EXCEPT !.started = TRUE] /\ UNCHANGED rel
                                   ELSE rel' = [rel EXCEPT !.started = TRUE] /\ UNCHANGED acq

start_acquire ==
    /\ Free /\ ~acq.started
    /\ Begin("acquire")
    /\ msgs' = msgs \cup Requests("acquire", range)
    /\ UNCHANGED <<kind, range, pointer_, storage, allocated, mem, thread_, goal, target, resets,
                   wrote, intended>>

\* block_until_acquired, by the task or first in its reset.  It starts the
\* acquire if that has not been done, and the task is suspended.
block_until_acquired ==
    /\ Running /\ goal \in {"none", "reset"} /\ ~acq.done
    /\ Begin("acquire")
    /\ msgs' = IF acq.started THEN msgs ELSE msgs \cup Requests("acquire", range)
    /\ thread_' = "acquire"
    /\ UNCHANGED <<kind, range, pointer_, storage, allocated, mem, goal, target, resets, wrote,
                   intended>>

\* The task uses the cache, which dereferences it: a writable one is written.
Write ==
    /\ Free /\ kind # "RO" /\ acq.done /\ range.count > 0
    /\ ~wrote /\ (rel.started => ShortCircuit(range))
    /\ LET news(k) == NewValue(resets, k)
           a == range.address
       IN /\ IF pointer_.to = "storage"
               THEN /\ storage' = [k \in DOMAIN storage |-> IF k < Bytes(range) THEN news(k)
                                                                              ELSE storage[k]]
                    /\ UNCHANGED mem
               ELSE /\ mem' = [c \in Cells |->
                                 LET k == c[2] - pointer_.address.at IN
                                 IF c[1] = pointer_.address.core /\ k \in 0 .. Bytes(range) - 1
                                   THEN news(k) ELSE mem[c]]
                    /\ UNCHANGED storage
          /\ intended' = [c \in Cells |-> IF c \in CellsOf(range) THEN news(c[2] - a.at)
                                                                 ELSE intended[c]]
    /\ wrote' = TRUE
    /\ UNCHANGED <<kind, range, pointer_, allocated, acq, rel, thread_, msgs, goal, target,
                   resets>>

\* The task gives the range back: what it has acquired or written.
MayRelease == acq.done /\ (kind = "WO" => wrote \/ range.count = 0)

start_release ==
    /\ Free /\ ~rel.started /\ MayRelease
    /\ IF kind = "RO" THEN rel' = AtOnce(range) /\ UNCHANGED <<acq, msgs>>
                      ELSE Begin("release") /\ msgs' = msgs \cup Requests("release", range)
    /\ UNCHANGED <<kind, range, pointer_, storage, allocated, mem, thread_, goal, target, resets,
                   wrote, intended>>

\* block_until_released, by the task, in its reset or in the destructor.
block_until_released ==
    /\ Running /\ ~rel.done /\ MayRelease
    /\ IF kind = "RO"
         THEN rel' = AtOnce(range) /\ UNCHANGED <<acq, msgs, thread_>>
         ELSE /\ Begin("release")
              /\ msgs' = IF rel.started THEN msgs ELSE msgs \cup Requests("release", range)
              /\ thread_' = "release"
    /\ UNCHANGED <<kind, range, pointer_, storage, allocated, mem, goal, target, resets, wrote,
                   intended>>

\* reset of the cache begins: it waits for both.
reset(r) ==
    /\ Free /\ resets < MaxResets /\ (kind = "WO" => wrote)
    /\ range \in ResetRanges
    /\ MayGrow \/ Bytes(r) <= allocated
    /\ goal' = "reset" /\ target' = r
    /\ UNCHANGED <<kind, range, pointer_, storage, allocated, mem, acq, rel, thread_, msgs,
                   resets, wrote, intended>>

\* As if reset did not wait for the release.
ReadyToMoveEarly == Running /\ goal = "reset" /\ acq.done

ReadyToMove == Running /\ goal = "reset" /\ acq.done /\ rel.done

\* ... and then takes the new range, in the buffer that it has; a NullAcquirer's
\* reset does nothing.
FinishReset ==
    /\ ReadyToMove
    /\ range' = target /\ resets' = resets + 1 /\ wrote' = FALSE
    /\ rel' = ReleaserFor(kind, target) /\ acq' = AcquirerFor(kind, target)
    /\ pointer_' = IF kind = "WO" THEN pointer_ ELSE AfterReset(kind, target, pointer_)
    /\ goal' = "none"
    /\ UNCHANGED <<kind, storage, allocated, mem, thread_, msgs, target, intended>>

\* The destructor; an RO cache has none, and may go once nothing is under way.
Destroy ==
    /\ Running /\ goal \in {"none", "destroy"}
    /\ acq.started => acq.done
    /\ IF kind = "RO" \/ rel.done THEN goal' = "destroyed"
                                  ELSE goal = "none" /\ MayRelease /\ goal' = "destroy"
    /\ UNCHANGED <<kind, range, pointer_, storage, allocated, mem, acq, rel, thread_, msgs,
                   target, resets, wrote, intended>>

\* The task was woken, and its loop's test holds.
Resume ==
    /\ \/ thread_ = "acquire" /\ acq.done
       \/ thread_ = "release" /\ rel.done
    /\ thread_' = "none"
    /\ UNCHANGED <<kind, range, pointer_, storage, allocated, mem, acq, rel, msgs, goal, target,
                   resets, wrote, intended>>

\* The owners of the memory behind the buffer use it.
OthersWrite ==
    /\ \E v \in Others :
         storage' = [k \in DOMAIN storage |-> IF k < allocated THEN storage[k] ELSE v]
    /\ UNCHANGED <<kind, range, pointer_, allocated, mem, acq, rel, thread_, msgs, goal, target,
                   resets, wrote, intended>>

---------------------------------------------------------------------------
\* The handlers

\* A request is handled at the home of its address; for a release this copies
\* the payload into memory.
Handle(m) ==
    /\ m \in msgs /\ m.stage = "request"
    /\ msgs' = (msgs \ {m}) \cup {[m EXCEPT !.stage = "reply"]}
    /\ mem' = IF m.side = "acquire" THEN mem
              ELSE [c \in Cells |->
                      LET k == c[2] - range.address.at IN
                      IF c[1] = range.address.core /\ k \in m.offset .. m.offset + m.bytes - 1
                        THEN At(k) ELSE mem[c]]
    /\ UNCHANGED <<kind, range, pointer_, storage, allocated, acq, rel, thread_, goal, target,
                   resets, wrote, intended>>

\* As if the first reply were enough.
CountedFirst(s) == [s EXCEPT !.resp = @ + 1, !.done = TRUE]

\* As if the count were tested before it is increased.
CountedLate(s) == [s EXCEPT !.resp = @ + 1, !.done = @ \/ s.resp = s.num]

\* A reply counts; the last one makes the operation done, and wakes the task.
Counted(s) == [s EXCEPT !.resp = @ + 1, !.done = @ \/ s.resp + 1 = s.num]

\* acquire_reply copies the payload to where *pointer_ points.
acquire_reply(m) ==
    /\ m \in msgs /\ m.side = "acquire" /\ m.stage = "reply"
    /\ LET payload(k) == mem[<<range.address.core, range.address.at + k>>]
           part == m.offset .. m.offset + m.bytes - 1
       IN IF pointer_.to = "storage"
            THEN /\ storage' = [k \in DOMAIN storage |-> IF k \in part THEN payload(k) ELSE storage[k]]
                 /\ UNCHANGED mem
            ELSE /\ mem' = [c \in Cells |->
                              LET k == c[2] - pointer_.address.at IN
                              IF c[1] = pointer_.address.core /\ k \in part THEN payload(k) ELSE mem[c]]
                 /\ UNCHANGED storage
    /\ acq' = Counted(acq) /\ msgs' = msgs \ {m}
    /\ UNCHANGED <<kind, range, pointer_, allocated, rel, thread_, goal, target, resets, wrote,
                   intended>>

release_reply(m) ==
    /\ m \in msgs /\ m.side = "release" /\ m.stage = "reply"
    /\ rel' = Counted(rel) /\ msgs' = msgs \ {m}
    /\ UNCHANGED <<kind, range, pointer_, storage, allocated, mem, acq, thread_, goal, target,
                   resets, wrote, intended>>

---------------------------------------------------------------------------
Deliver == \E m \in msgs : Handle(m) \/ acquire_reply(m) \/ release_reply(m)

Next ==
    \/ start_acquire \/ block_until_acquired
    \/ Write
    \/ start_release \/ block_until_released
    \/ \E r \in ResetRanges : reset(r)
    \/ FinishReset \/ Destroy
    \/ Resume
    \/ OthersWrite
    \/ \E m \in msgs : Handle(m) \/ acquire_reply(m) \/ release_reply(m)

\* Messages are delivered, a woken task runs, and a call that was begun goes on.
Fairness ==
    /\ WF_vars(Deliver) /\ WF_vars(Resume) /\ WF_vars(FinishReset)
    /\ WF_vars(goal # "none" /\ (block_until_acquired \/ block_until_released))
    /\ WF_vars(goal = "destroy" /\ Destroy)

Spec == Init /\ [][Next]_vars /\ Fairness

---------------------------------------------------------------------------
SideOK(s) == s \in [started : BOOLEAN, done : BOOLEAN, num : Nat, resp : Nat]

\* The fields of the cache, its acquirer and its releaser keep their types; no
\* more replies are counted than were expected (response_count_).
TypeOK ==
    /\ kind \in Kinds /\ range \in Ranges /\ target \in Ranges
    /\ pointer_ \in Places /\ allocated \in Nat
    /\ storage \in [0 .. MemSize - 1 -> Int] /\ mem \in [Cells -> Int] /\ intended \in [Cells -> Int]
    /\ SideOK(acq) /\ acq.resp <= acq.num /\ SideOK(rel) /\ rel.resp <= rel.num
    /\ thread_ \in {"none", "acquire", "release"}
    /\ \A m \in msgs : m.side \in {"acquire", "release"} /\ m.stage \in {"request", "reply"}
    /\ goal \in {"none", "reset", "destroy", "destroyed"} /\ resets \in 0 .. MaxResets
    /\ wrote \in BOOLEAN

\* The number of messages computed from the addresses is the number the loop
\* sends, whatever elements straddle blocks: as many replies are due as were
\* counted on, none is left when the operation is done and so none can meet
\* the object after its reset; and each message stays within one home block.
MessagesExact ==
    /\ \A s \in {<<"acquire", acq>>, <<"release", rel>>} :
         LET out == {m \in msgs : m.side = s[1]} IN
         /\ s[2].started /\ ~s[2].done => Cardinality(out) + s[2].resp = s[2].num
         /\ s[2].done \/ ~s[2].started => out = {}
    /\ \A m \in msgs : \A k \in m.offset .. m.offset + m.bytes - 1 :
         LET a == range.address IN
         ~is_2D(a) => block_min(a.at + k) = block_min(a.at + m.offset)

\* An acquired range is in the cache, all of it and in its place, until the
\* task writes.
AcquiredRight ==
    acq.done /\ kind # "WO" /\ ~wrote /\ goal # "destroyed" =>
        \A k \in 0 .. Bytes(range) - 1 : At(k) = mem[<<range.address.core, range.address.at + k>>]

\* Memory is as the task's writes want it, but for the range that it has
\* written and not released yet: no release is lost and nothing else is hit.
HomeRight ==
    \A c \in Cells :
        mem[c] # intended[c] => wrote /\ ~rel.done /\ c \in CellsOf(range)

\* "reassign cache to point at a different block" (reset, Cache.hpp:196): whatever
\* range the cache is given, replies and writes stay in the buffer that
\* CacheAllocator made; the memory behind it holds what its owners keep there.
BufferKept == \A k \in DOMAIN storage : k >= allocated => storage[k] \in Others

\* A task that is suspended in block_until_acquired or block_until_released
\* returns from it, and a reset and the destructor come to their end.
CallsReturn ==
    /\ thread_ # "none" ~> thread_ = "none"
    /\ goal = "reset" ~> goal = "none"
    /\ goal = "destroy" ~> goal = "destroyed"
===========================================================================

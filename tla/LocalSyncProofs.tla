------------------------ MODULE LocalSyncProofs ------------------------
(***************************************************************************)
(* Proofs about LocalSync, for every number of workers, remote tasks,      *)
(* messages and buffers, and every program.                                *)
(***************************************************************************)
EXTENDS LocalSync, FiniteSetTheorems, SequenceTheorems, TLAPS

(***************************************************************************)
(* The inductive invariant                                                 *)
(***************************************************************************)
Distinct(s) == \A j, k \in DOMAIN s : s[j] = s[k] => j = k

\* Nobody is twice in a queue or in two queues, and who runs is in none.
Apart ==
    /\ Distinct(readyQ) /\ \A o \in Objects : Distinct(waiters_[o])
    /\ \A o \in Objects : ToSet(waiters_[o]) \cap ToSet(readyQ) = {}
    /\ \A o, p \in Objects : o # p => ToSet(waiters_[o]) \cap ToSet(waiters_[p]) = {}
    /\ current_thread \notin ToSet(readyQ)
    /\ \A o \in Objects : current_thread \notin ToSet(waiters_[o])

\* A worker in a call runs, is ready or waits for the object of the call; only
\* a worker in a call waits.
InCall(w) ==
    /\ op[w] # "none" => \/ w = current_thread \/ w \in ToSet(readyQ)
                         \/ \E o \in Objects : w \in ToSet(waiters_[o])
    /\ \A o \in Objects : w \in ToSet(waiters_[o]) => op[w] # "none" /\ ObjectOf(op[w]) = o

\* A remote task has a delegate exactly while it waits.
Waiting(r) == {o \in Objects : r \in ToSet(waiters_[o])}
DelegateOK(r) ==
    /\ call[r].stage = "delegate" <=> Waiting(r) # {}
    /\ Waiting(r) \subseteq {"fe", "mutex"}

\* OnePlace without cardinalities.
QueuesOK ==
    /\ Apart
    /\ \A w \in Workers : InCall(w)
    /\ \A r \in Remotes : DelegateOK(r)

\* The types, part by part.
SchedType ==
    /\ current_thread \in Workers \cup {NoWorker} /\ readyQ \in Seq(Workers)
    /\ op \in [Workers -> BlockingCalls \cup {"none"}]
    /\ waiters_ \in [Objects -> Seq(Workers \cup Remotes)]
CallType == call \in [Remotes -> [kind : RemoteCalls \cup {"none"},
                                  stage : {"none", "request", "delegate", "reply", "done"}]]
CallsOK == used \in Programs /\ calls \in 0 .. MaxCalls[used]
MutexType == lock_ \in BOOLEAN /\ inside \subseteq Workers
ListType == list_ \in Seq(Messages) /\ sending \subseteq Messages
PoolType ==
    /\ count_ \in 0 .. PoolSize /\ ptrs_ \in [0 .. PoolSize - 1 -> Buffers]
    /\ has \in [Workers -> Buffers \cup {0}]

\* The mutex has one holder.
MutexOK ==
    /\ lock_ => \E w \in Workers : inside = {w}
    /\ ~lock_ => inside = {}

\* A message is in the list, once, or on its way.
ListOK == Distinct(list_) /\ ToSet(list_) \cap sending = {}
ListFull ==
    /\ Len(list_) + Cardinality(sending) = NumMessages
    /\ ToSet(list_) \cup sending = Messages

\* A buffer is in the pool or with a worker.
Out == {w \in Workers : has[w] # 0}
PoolFull ==
    /\ count_ + Cardinality(Out) = PoolSize
    /\ {ptrs_[i] : i \in 0 .. count_ - 1} \cup {has[w] : w \in Out} = Buffers

FullEmptyOK ==
    /\ state_ \in {"EMPTY", "FULL"} /\ unread \in Int
    /\ unread = IF state_ = "FULL" THEN 1 ELSE 0

\* The count is bounded by the calls that were made.
EventOK == count \in 0 .. Enrolled + MaxCalls[used] /\ count <= Enrolled + calls

IInv ==
    /\ SchedType /\ QueuesOK /\ CallType /\ CallsOK
    /\ MutexType /\ MutexOK /\ ListType /\ ListOK /\ ListFull
    /\ PoolType /\ PoolFull /\ FullEmptyOK /\ EventOK

(***************************************************************************)
(* Queues as sequences without repetitions                                 *)
(***************************************************************************)
\* A set of natural numbers has a least element.
LEMMA NatMin ==
  ASSUME NEW T, T \subseteq Nat, T # {}
  PROVE  \E x \in T : \A y \in T : x <= y
  <1> DEFINE R == OpToRel(<, Nat)
  <1>1. IsWellFoundedOn(R, Nat)
    BY NatLessThanWellFounded
  <1>2. \A y, x \in Nat : <<y, x>> \in R <=> y < x
    BY DEF OpToRel
  <1> HIDE DEF R
  <1>3. PICK x \in T : \A y \in T : ~ (<<y, x>> \in R)
    BY <1>1, WFMin
  <1>4. ASSUME NEW y \in T PROVE x <= y
    <2>1. x \in Nat /\ y \in Nat
      OBVIOUS
    <2>2. ~(y < x)
      BY <1>2, <1>3, <2>1
    <2>3. QED
      BY <2>1, <2>2
  <1>5. QED
    BY <1>4

\* So a set of natural numbers that has 0 and the successor of each of its
\* elements has them all.
LEMMA Induction ==
  ASSUME NEW T, 0 \in T, \A n \in Nat : n \in T => n + 1 \in T
  PROVE  Nat \subseteq T
  <1> SUFFICES ASSUME Nat \ T # {} PROVE FALSE
    OBVIOUS
  <1>1. PICK x \in Nat \ T : \A y \in Nat \ T : x <= y
    BY NatMin
  <1>2. x # 0 /\ x - 1 \in Nat /\ ~(x <= x - 1)
    BY <1>1
  <1>3. x - 1 \in T
    BY <1>1, <1>2
  <1>4. (x - 1) + 1 \in T
    BY <1>2, <1>3
  <1>5. QED
    BY <1>1, <1>4

\* What is in a sequence.
LEMMA InSeq ==
  ASSUME NEW S, NEW s \in Seq(S)
  PROVE  /\ Len(s) \in Nat /\ DOMAIN s = 1 .. Len(s)
         /\ \A x : x \in ToSet(s) <=> \E j \in 1 .. Len(s) : s[j] = x
         /\ ToSet(s) \subseteq S
         /\ s = << >> <=> ToSet(s) = {}
  <1>1. Len(s) \in Nat /\ DOMAIN s = 1 .. Len(s)
    OBVIOUS
  <1>2. \A x : x \in ToSet(s) <=> \E j \in 1 .. Len(s) : s[j] = x
    BY <1>1 DEF ToSet
  <1>3. \A j \in 1 .. Len(s) : s[j] \in S
    OBVIOUS
  <1>4. s # << >> => 1 \in 1 .. Len(s)
    BY <1>1
  <1>5. s = << >> => Len(s) = 0
    OBVIOUS
  <1>6. ToSet(s) \subseteq S
    BY <1>2, <1>3
  <1>7. s = << >> <=> ToSet(s) = {}
    <2>1. s = << >> => ToSet(s) = {}
      BY <1>2, <1>5
    <2>2. s # << >> => s[1] \in ToSet(s)
      BY <1>2, <1>4
    <2>3. QED
      BY <2>1, <2>2
  <1>8. QED
    BY <1>1, <1>2, <1>6, <1>7

\* Distinct, by indices.
LEMMA DistinctSeq ==
  ASSUME NEW S, NEW s \in Seq(S)
  PROVE  Distinct(s) <=> \A j, k \in 1 .. Len(s) : s[j] = s[k] => j = k
  BY InSeq DEF Distinct

\* A newcomer at the end.
LEMMA AppendDistinct ==
  ASSUME NEW S, NEW s \in Seq(S), NEW x \in S
  PROVE  /\ Append(s, x) \in Seq(S) /\ ToSet(Append(s, x)) = ToSet(s) \cup {x}
         /\ Distinct(s) /\ x \notin ToSet(s) => Distinct(Append(s, x))
  <1> DEFINE t == Append(s, x)
  <1>1. /\ t \in Seq(S) /\ Len(s) \in Nat /\ Len(t) = Len(s) + 1 /\ t[Len(s) + 1] = x
        /\ \A j \in 1 .. Len(s) : t[j] = s[j]
    BY AppendProperties
  <1> HIDE DEF t
  <1>2. \A j \in 1 .. Len(t) : j = Len(s) + 1 \/ j \in 1 .. Len(s)
    BY <1>1
  <1>3. ToSet(t) = ToSet(s) \cup {x}
    <2>1. ASSUME NEW y \in ToSet(t) PROVE y \in ToSet(s) \cup {x}
      BY <1>1, <1>2, InSeq
    <2>2. ASSUME NEW y \in ToSet(s) PROVE y \in ToSet(t)
      BY <1>1, InSeq
    <2>3. x \in ToSet(t)
      <3>1. Len(s) + 1 \in 1 .. Len(t)
        BY <1>1
      <3>2. QED
        BY <1>1, <3>1, InSeq
    <2>4. QED
      BY <2>1, <2>2, <2>3
  <1>4. ASSUME Distinct(s), x \notin ToSet(s) PROVE Distinct(t)
    <2>1. SUFFICES ASSUME NEW j \in 1 .. Len(t), NEW k \in 1 .. Len(t), t[j] = t[k] PROVE j = k
      BY <1>1, DistinctSeq
    <2>2. \A l \in 1 .. Len(s) : s[l] # x
      BY <1>4, InSeq
    <2>3. \A l, m \in 1 .. Len(s) : s[l] = s[m] => l = m
      BY <1>4, DistinctSeq
    <2>4. QED
      BY <1>1, <1>2, <2>1, <2>2, <2>3
  <1>5. QED
    BY <1>1, <1>3, <1>4 DEF t

\* One queue after another.
LEMMA ConcatDistinct ==
  ASSUME NEW S, NEW s \in Seq(S), NEW t \in Seq(S)
  PROVE  /\ s \o t \in Seq(S) /\ ToSet(s \o t) = ToSet(s) \cup ToSet(t)
         /\ Distinct(s) /\ Distinct(t) /\ ToSet(s) \cap ToSet(t) = {} => Distinct(s \o t)
  <1> DEFINE u == s \o t
  <1>1. /\ u \in Seq(S) /\ Len(s) \in Nat /\ Len(t) \in Nat /\ Len(u) = Len(s) + Len(t)
        /\ \A j \in 1 .. Len(s) : u[j] = s[j]
        /\ \A j \in Len(s) + 1 .. Len(u) : u[j] = t[j - Len(s)]
    BY ConcatProperties
  <1> HIDE DEF u
  <1>2. \A j \in 1 .. Len(u) : j \in 1 .. Len(s) \/ (j \in Len(s) + 1 .. Len(u) /\ j - Len(s) \in 1 .. Len(t))
    BY <1>1
  <1>3. ToSet(u) = ToSet(s) \cup ToSet(t)
    <2>1. ASSUME NEW y \in ToSet(u) PROVE y \in ToSet(s) \cup ToSet(t)
      <3>1. PICK j \in 1 .. Len(u) : u[j] = y
        BY <1>1, InSeq
      <3>2. QED
        BY <1>1, <1>2, <3>1, InSeq
    <2>2. ASSUME NEW y \in ToSet(s) PROVE y \in ToSet(u)
      <3>1. PICK j \in 1 .. Len(s) : s[j] = y
        BY InSeq
      <3>2. j \in 1 .. Len(u) /\ u[j] = y
        BY <1>1, <3>1
      <3>3. QED
        BY <1>1, <3>2, InSeq
    <2>3. ASSUME NEW y \in ToSet(t) PROVE y \in ToSet(u)
      <3>1. PICK j \in 1 .. Len(t) : t[j] = y
        BY InSeq
      <3>2. j + Len(s) \in Len(s) + 1 .. Len(u) /\ (j + Len(s)) - Len(s) = j
        BY <1>1
      <3>3. j + Len(s) \in 1 .. Len(u) /\ u[j + Len(s)] = y
        BY <1>1, <3>1, <3>2
      <3>4. QED
        BY <1>1, <3>3, InSeq
    <2>4. QED
      BY <2>1, <2>2, <2>3
  <1>4. ASSUME Distinct(s), Distinct(t), ToSet(s) \cap ToSet(t) = {} PROVE Distinct(u)
    <2>1. SUFFICES ASSUME NEW j \in 1 .. Len(u), NEW k \in 1 .. Len(u), u[j] = u[k] PROVE j = k
      BY <1>1, DistinctSeq
    <2>2. \A l \in 1 .. Len(s), m \in 1 .. Len(t) : s[l] # t[m]
      <3>1. SUFFICES ASSUME NEW l \in 1 .. Len(s), NEW m \in 1 .. Len(t) PROVE s[l] # t[m]
        OBVIOUS
      <3>2. s[l] \in ToSet(s) /\ t[m] \in ToSet(t)
        BY InSeq
      <3>3. QED
        BY <1>4, <3>2
    <2>3. \A l, m \in 1 .. Len(s) : s[l] = s[m] => l = m
      BY <1>4, DistinctSeq
    <2>4. \A l, m \in 1 .. Len(t) : t[l] = t[m] => l = m
      BY <1>4, DistinctSeq
    <2>5. CASE j \in 1 .. Len(s) /\ k \in 1 .. Len(s)
      BY <1>1, <2>1, <2>3, <2>5
    <2>6. CASE j \notin 1 .. Len(s) /\ k \notin 1 .. Len(s)
      <3>1. j - Len(s) = k - Len(s)
        BY <1>1, <1>2, <2>1, <2>4, <2>6
      <3>2. QED
        BY <1>1, <3>1
    <2>7. CASE j \in 1 .. Len(s) /\ k \notin 1 .. Len(s)
      BY <1>1, <1>2, <2>1, <2>2, <2>7
    <2>8. CASE j \notin 1 .. Len(s) /\ k \in 1 .. Len(s)
      BY <1>1, <1>2, <2>1, <2>2, <2>8
    <2>9. QED
      BY <2>5, <2>6, <2>7, <2>8
  <1>5. QED
    BY <1>1, <1>3, <1>4 DEF u

\* A newcomer at the front.
LEMMA ConsDistinct ==
  ASSUME NEW S, NEW s \in Seq(S), NEW x \in S
  PROVE  /\ <<x>> \o s \in Seq(S) /\ ToSet(<<x>> \o s) = ToSet(s) \cup {x}
         /\ <<x>> \o s # << >> /\ Len(<<x>> \o s) = Len(s) + 1
         /\ Distinct(s) /\ x \notin ToSet(s) => Distinct(<<x>> \o s)
  <1> DEFINE h == <<x>>
  <1>1. h \in Seq(S) /\ Len(h) = 1 /\ h[1] = x
    OBVIOUS
  <1> HIDE DEF h
  <1>2. ToSet(h) = {x}
    <2>1. \A j \in 1 .. Len(h) : h[j] = x
      BY <1>1
    <2>2. 1 \in 1 .. Len(h)
      BY <1>1
    <2>3. QED
      BY <1>1, <2>1, <2>2, InSeq
  <1>3. Distinct(h)
    <2>1. \A j, k \in 1 .. Len(h) : j = k
      BY <1>1
    <2>2. QED
      BY <1>1, <2>1, DistinctSeq
  <1>4. h \o s \in Seq(S) /\ ToSet(h \o s) = ToSet(s) \cup {x}
    BY <1>1, <1>2, ConcatDistinct
  <1>5. Len(h \o s) = Len(s) + 1
    BY <1>1, ConcatProperties
  <1>6. h \o s # << >>
    BY <1>4, InSeq
  <1>7. Distinct(s) /\ x \notin ToSet(s) => Distinct(h \o s)
    BY <1>1, <1>2, <1>3, ConcatDistinct
  <1>8. QED
    BY <1>4, <1>5, <1>6, <1>7 DEF h

\* The first leaves.
LEMMA TailDistinct ==
  ASSUME NEW S, NEW s \in Seq(S), s # << >>
  PROVE  /\ Head(s) \in S /\ Head(s) \in ToSet(s) /\ Tail(s) \in Seq(S)
         /\ Len(Tail(s)) = Len(s) - 1 /\ Len(s) \in Nat \ {0}
         /\ ToSet(s) = ToSet(Tail(s)) \cup {Head(s)}
         /\ Distinct(s) => Distinct(Tail(s)) /\ Head(s) \notin ToSet(Tail(s))
  <1> DEFINE t == Tail(s)
  <1>1. /\ Head(s) = s[1] /\ Head(s) \in S /\ t \in Seq(S) /\ Len(s) \in Nat \ {0} /\ Len(t) = Len(s) - 1
        /\ \A j \in 1 .. Len(t) : j + 1 \in 1 .. Len(s) /\ t[j] = s[j + 1]
        /\ \A j \in 1 .. Len(s) : j = 1 \/ (j - 1 \in 1 .. Len(t) /\ t[j - 1] = s[j])
        /\ 1 \in 1 .. Len(s)
    OBVIOUS
  <1> HIDE DEF t
  <1>2. \A x : x \in ToSet(s) <=> x \in ToSet(t) \/ x = Head(s)
    <2>1. ASSUME NEW x \in ToSet(s) PROVE x \in ToSet(t) \/ x = Head(s)
      <3>1. PICK j \in 1 .. Len(s) : s[j] = x
        BY InSeq
      <3>2. j = 1 \/ \E k \in 1 .. Len(t) : t[k] = x
        BY <1>1, <3>1
      <3>3. QED
        BY <1>1, <3>1, <3>2, InSeq
    <2>2. ASSUME NEW x \in ToSet(t) PROVE x \in ToSet(s)
      <3>1. PICK j \in 1 .. Len(t) : t[j] = x
        BY <1>1, InSeq
      <3>2. QED
        BY <1>1, <3>1, InSeq
    <2>3. Head(s) \in ToSet(s)
      BY <1>1, InSeq
    <2>4. QED
      BY <2>1, <2>2, <2>3
  <1>3. ASSUME Distinct(s) PROVE Distinct(t) /\ Head(s) \notin ToSet(t)
    <2>1. \A j, k \in 1 .. Len(s) : s[j] = s[k] => j = k
      BY <1>3, DistinctSeq
    <2>2. ASSUME NEW j \in 1 .. Len(t), NEW k \in 1 .. Len(t), t[j] = t[k] PROVE j = k
      <3>1. j + 1 = k + 1
        BY <1>1, <2>1, <2>2
      <3>2. QED
        BY <3>1
    <2>3. ASSUME NEW j \in 1 .. Len(t) PROVE t[j] # s[1]
      <3>1. j + 1 # 1
        OBVIOUS
      <3>2. QED
        BY <1>1, <2>1, <3>1
    <2>4. Distinct(t)
      BY <1>1, <2>2, DistinctSeq
    <2>5. Head(s) \notin ToSet(t)
      BY <1>1, <2>3, InSeq
    <2>6. QED
      BY <2>4, <2>5
  <1>4. QED
    BY <1>1, <1>2, <1>3 DEF t

\* The first n leave.
LEMMA SplitDistinct ==
  ASSUME NEW S, NEW s \in Seq(S), NEW n \in 0 .. Len(s)
  PROVE  /\ SubSeq(s, 1, n) \in Seq(S) /\ SubSeq(s, n + 1, Len(s)) \in Seq(S)
         /\ \A x : x \in ToSet(SubSeq(s, 1, n)) <=> \E j \in 1 .. n : s[j] = x
         /\ \A x : x \in ToSet(SubSeq(s, n + 1, Len(s))) <=> \E j \in n + 1 .. Len(s) : s[j] = x
         /\ Distinct(s) => /\ Distinct(SubSeq(s, 1, n)) /\ Distinct(SubSeq(s, n + 1, Len(s)))
                           /\ ToSet(SubSeq(s, n + 1, Len(s))) = ToSet(s) \ ToSet(SubSeq(s, 1, n))
         /\ ToSet(SubSeq(s, 1, n)) \subseteq ToSet(s)
  <1> DEFINE a == SubSeq(s, 1, n)
             b == SubSeq(s, n + 1, Len(s))
  <1>0. Len(s) \in Nat /\ n \in Nat /\ n <= Len(s) /\ \A j \in 1 .. Len(s) : s[j] \in S
    OBVIOUS
  <1>1. a \in Seq(S) /\ Len(a) = n /\ \A j \in 1 .. n : a[j] = s[j]
    <2>1. \A j \in 1 .. n : s[j] \in S
      BY <1>0
    <2>2. /\ a \in Seq(S) /\ Len(a) = IF 1 <= n THEN n - 1 + 1 ELSE 0
          /\ \A j \in 1 .. n - 1 + 1 : a[j] = s[1 + j - 1]
      BY <1>0, <2>1, SubSeqProperties
    <2> HIDE DEF a
    <2>3. QED
      BY <1>0, <2>2
  <1>2. b \in Seq(S) /\ Len(b) = Len(s) - n /\ \A j \in 1 .. Len(s) - n : b[j] = s[n + j]
    <2>1. \A j \in n + 1 .. Len(s) : s[j] \in S
      BY <1>0
    <2>2. /\ b \in Seq(S) /\ Len(b) = IF n + 1 <= Len(s) THEN Len(s) - (n + 1) + 1 ELSE 0
          /\ \A j \in 1 .. Len(s) - (n + 1) + 1 : b[j] = s[n + 1 + j - 1]
      BY <1>0, <2>1, SubSeqProperties
    <2> HIDE DEF b
    <2>3. QED
      BY <1>0, <2>2
  <1> HIDE DEF a, b
  <1>3. \A x : x \in ToSet(a) <=> \E j \in 1 .. n : s[j] = x
    BY <1>1, InSeq
  <1>4. \A x : x \in ToSet(b) <=> \E j \in n + 1 .. Len(s) : s[j] = x
    <2>1. ASSUME NEW x \in ToSet(b) PROVE \E j \in n + 1 .. Len(s) : s[j] = x
      <3>1. PICK j \in 1 .. Len(s) - n : b[j] = x
        BY <1>2, InSeq
      <3>2. n + j \in n + 1 .. Len(s) /\ s[n + j] = x
        BY <1>0, <1>2, <3>1
      <3>3. QED
        BY <3>2
    <2>2. ASSUME NEW x, NEW j \in n + 1 .. Len(s), s[j] = x PROVE x \in ToSet(b)
      <3>1. j - n \in 1 .. Len(s) - n /\ n + (j - n) = j
        BY <1>0
      <3>2. b[j - n] = x
        BY <1>2, <2>2, <3>1
      <3>3. QED
        BY <1>2, <3>1, <3>2, InSeq
    <2>3. QED
      BY <2>1, <2>2
  <1>5. ToSet(a) \subseteq ToSet(s)
    BY <1>0, <1>3, InSeq
  <1>6. ASSUME Distinct(s) PROVE Distinct(a) /\ Distinct(b) /\ ToSet(b) = ToSet(s) \ ToSet(a)
    <2>1. \A j, k \in 1 .. Len(s) : s[j] = s[k] => j = k
      BY <1>6, DistinctSeq
    <2>2. Distinct(a)
      <3>1. \A j, k \in 1 .. n : a[j] = a[k] => j = k
        BY <1>0, <1>1, <2>1
      <3>2. QED
        BY <1>1, <3>1, DistinctSeq
    <2>3. Distinct(b)
      <3>1. ASSUME NEW j \in 1 .. Len(s) - n, NEW k \in 1 .. Len(s) - n, b[j] = b[k] PROVE j = k
        <4>1. n + j \in 1 .. Len(s) /\ n + k \in 1 .. Len(s) /\ s[n + j] = s[n + k]
          BY <1>0, <1>2, <3>1
        <4>2. n + j = n + k
          BY <2>1, <4>1
        <4>3. QED
          BY <1>0, <4>2
      <3>2. QED
        BY <1>2, <3>1, DistinctSeq
    <2>4. ASSUME NEW x \in ToSet(b) PROVE x \in ToSet(s) /\ x \notin ToSet(a)
      <3>1. PICK j \in n + 1 .. Len(s) : s[j] = x
        BY <1>4
      <3>2. j \in 1 .. Len(s) /\ \A k \in 1 .. n : k \in 1 .. Len(s) /\ k # j
        BY <1>0
      <3>3. QED
        BY <1>3, <2>1, <3>1, <3>2, InSeq
    <2>5. ASSUME NEW x \in ToSet(s), x \notin ToSet(a) PROVE x \in ToSet(b)
      <3>1. PICK j \in 1 .. Len(s) : s[j] = x
        BY InSeq
      <3>2. j \in n + 1 .. Len(s)
        BY <1>0, <1>3, <2>5, <3>1
      <3>3. QED
        BY <1>4, <3>1, <3>2
    <2>6. QED
      BY <2>2, <2>3, <2>4, <2>5
  <1>7. QED
    BY <1>1, <1>2, <1>3, <1>4, <1>5, <1>6 DEF a, b

\* The partial results of WorkersIn exist.
LEMMA UpToExists ==
  ASSUME NEW s \in Seq(Workers \cup Remotes)
  PROVE  \E f : f = [n \in 0 .. Len(s) |->
                       IF n = 0 THEN << >>
                       ELSE IF s[n] \in Workers THEN Append(f[n - 1], s[n]) ELSE f[n - 1]]
  <1> DEFINE Eq(f, n) == f[n] = IF n = 0 THEN << >>
                                ELSE IF s[n] \in Workers THEN Append(f[n - 1], s[n]) ELSE f[n - 1]
             Good(m) == \E f : DOMAIN f = 0 .. m /\ f = [n \in 0 .. m |-> f[n]] /\ \A n \in 0 .. m : Eq(f, n)
             T == {m \in Nat : Good(m)}
  <1>1. 0 \in T
    <2> DEFINE f == [n \in 0 .. 0 |-> << >>]
    <2>1. DOMAIN f = 0 .. 0 /\ f = [n \in 0 .. 0 |-> f[n]] /\ \A n \in 0 .. 0 : n = 0 /\ f[n] = << >>
      OBVIOUS
    <2>2. QED
      BY <2>1
  <1>2. ASSUME NEW m \in Nat, m \in T PROVE m + 1 \in T
    <2>1. PICK f : DOMAIN f = 0 .. m /\ \A n \in 0 .. m : Eq(f, n)
      BY <1>2
    <2> DEFINE x == IF s[m + 1] \in Workers THEN Append(f[m], s[m + 1]) ELSE f[m]
               g == [n \in 0 .. m + 1 |-> IF n = m + 1 THEN x ELSE f[n]]
    <2> HIDE DEF x
    <2>2. DOMAIN g = 0 .. m + 1 /\ g = [n \in 0 .. m + 1 |-> g[n]]
      OBVIOUS
    <2>3. g[m + 1] = x /\ \A n \in 0 .. m : g[n] = f[n]
      OBVIOUS
    <2> HIDE DEF g
    <2>4. Eq(g, m + 1)
      <3>1. m + 1 # 0 /\ (m + 1) - 1 = m /\ m \in 0 .. m
        OBVIOUS
      <3>2. g[(m + 1) - 1] = f[m]
        BY <2>3, <3>1
      <3>3. QED
        BY <2>3, <3>1, <3>2 DEF x
    <2>5. ASSUME NEW n \in 0 .. m PROVE Eq(g, n)
      <3>1. g[n] = f[n] /\ Eq(f, n)
        BY <2>1, <2>3
      <3>2. n # 0 => n - 1 \in 0 .. m
        OBVIOUS
      <3>3. n # 0 => g[n - 1] = f[n - 1]
        BY <2>3, <3>2
      <3>4. QED
        BY <3>1, <3>3
    <2>6. \A n \in 0 .. m + 1 : n = m + 1 \/ n \in 0 .. m
      OBVIOUS
    <2>7. \A n \in 0 .. m + 1 : Eq(g, n)
      BY <2>4, <2>5, <2>6
    <2>8. Good(m + 1)
      <3> HIDE DEF Eq
      <3>1. QED
        BY <2>2, <2>7
    <2>9. QED
      BY <2>8
  <1>3. Nat \subseteq T
    <2> HIDE DEF T
    <2>1. QED
      BY <1>1, <1>2, Induction
  <1>4. Len(s) \in T
    BY <1>3
  <1>5. PICK f : f = [n \in 0 .. Len(s) |-> f[n]] /\ \A n \in 0 .. Len(s) : Eq(f, n)
    BY <1>4
  <1>6. f = [n \in 0 .. Len(s) |->
                       IF n = 0 THEN << >>
                       ELSE IF s[n] \in Workers THEN Append(f[n - 1], s[n]) ELSE f[n - 1]]
    BY <1>5
  <1>7. QED
    BY <1>6

\* WorkersIn keeps the workers of a queue, each once.
LEMMA WorkersInOK ==
  ASSUME NEW s \in Seq(Workers \cup Remotes), Distinct(s)
  PROVE  /\ WorkersIn(s) \in Seq(Workers) /\ ToSet(WorkersIn(s)) = ToSet(s) \cap Workers
         /\ Distinct(WorkersIn(s))
  <1> DEFINE Sel(f) == [n \in 0 .. Len(s) |->
                          IF n = 0 THEN << >>
                          ELSE IF s[n] \in Workers THEN Append(f[n - 1], s[n]) ELSE f[n - 1]]
             upTo == CHOOSE f : f = Sel(f)
  <1>1. upTo = Sel(upTo)
    BY UpToExists
  <1>2. WorkersIn(s) = upTo[Len(s)]
    BY DEF WorkersIn
  <1> HIDE DEF upTo
  <1>3. /\ Len(s) \in Nat /\ upTo[0] = << >>
        /\ \A n \in 1 .. Len(s) :
              upTo[n] = IF s[n] \in Workers THEN Append(upTo[n - 1], s[n]) ELSE upTo[n - 1]
    <2>1. Len(s) \in Nat
      OBVIOUS
    <2>2. \A n \in 0 .. Len(s) : upTo[n] = Sel(upTo)[n]
      BY <1>1
    <2>3. \A n \in 0 .. Len(s) :
             upTo[n] = IF n = 0 THEN << >>
                       ELSE IF s[n] \in Workers THEN Append(upTo[n - 1], s[n]) ELSE upTo[n - 1]
      BY <2>2
    <2>4. 0 \in 0 .. Len(s) /\ \A n \in 1 .. Len(s) : n \in 0 .. Len(s) /\ n # 0
      BY <2>1
    <2>5. QED
      BY <2>1, <2>3, <2>4
  <1> HIDE DEF Sel
  <1>4. \A j, k \in 1 .. Len(s) : s[j] = s[k] => j = k
    BY DistinctSeq
  <1> DEFINE Ok(n) == /\ upTo[n] \in Seq(Workers) /\ Distinct(upTo[n])
                      /\ \A x : x \in ToSet(upTo[n]) <=> x \in Workers /\ \E j \in 1 .. n : s[j] = x
             T == {n \in Nat : n <= Len(s) => Ok(n)}
  <1>5. 0 \in T
    <2>1. << >> \in Seq(Workers) /\ Len(<< >>) = 0
      OBVIOUS
    <2>2. ToSet(<< >>) = {} /\ Distinct(<< >>)
      BY <2>1, InSeq, DistinctSeq
    <2>3. Ok(0)
      BY <1>3, <2>1, <2>2
    <2>4. QED
      BY <2>3
  <1>6. ASSUME NEW n \in Nat, n \in T PROVE n + 1 \in T
    <2>1. SUFFICES ASSUME n + 1 <= Len(s) PROVE Ok(n + 1)
      OBVIOUS
    <2>2. Ok(n)
      BY <1>3, <1>6, <2>1
    <2>3. n + 1 \in 1 .. Len(s) /\ (n + 1) - 1 = n /\ \A j \in 1 .. n : j \in 1 .. Len(s) /\ j # n + 1
      BY <1>3, <2>1
    <2>4. upTo[n + 1] = IF s[n + 1] \in Workers THEN Append(upTo[n], s[n + 1]) ELSE upTo[n]
      BY <1>3, <2>3
    <2>5. \A j : j \in 1 .. n + 1 <=> j \in 1 .. n \/ j = n + 1
      OBVIOUS
    <2>6. CASE s[n + 1] \in Workers
      <3>1. s[n + 1] \notin ToSet(upTo[n])
        BY <1>4, <2>2, <2>3
      <3>2. /\ upTo[n + 1] \in Seq(Workers) /\ Distinct(upTo[n + 1])
            /\ ToSet(upTo[n + 1]) = ToSet(upTo[n]) \cup {s[n + 1]}
        BY <2>2, <2>4, <2>6, <3>1, AppendDistinct
      <3>3. QED
        BY <2>2, <2>5, <2>6, <3>2
    <2>7. CASE s[n + 1] \notin Workers
      <3>1. upTo[n + 1] = upTo[n]
        BY <2>4, <2>7
      <3>2. QED
        BY <2>2, <2>5, <2>7, <3>1
    <2>8. QED
      BY <2>6, <2>7
  <1>7. Nat \subseteq T
    <2> HIDE DEF T
    <2>1. QED
      BY <1>5, <1>6, Induction
  <1>8. Ok(Len(s))
    <2>a. Len(s) <= Len(s)
      BY <1>3
    <2>1. Len(s) \in T /\ Len(s) <= Len(s)
      <3> HIDE DEF T
      <3>1. QED
        BY <1>3, <1>7, <2>a
    <2>2. QED
      BY <2>1
  <1>9. QED
    BY <1>2, <1>8, InSeq

(***************************************************************************)
(* How a step may change the queues                                        *)
(***************************************************************************)
\* The running worker's call may return.
OpSame ==
    \/ op' = op
    \/ current_thread \in Workers /\ op' = [op EXCEPT ![current_thread] = "none"]

\* The delegates in X, and no others, are answered.
Answered(X) ==
    \A r \in Remotes :
       call'[r].stage = "delegate" <=> call[r].stage = "delegate" /\ r \notin X

Stays == UNCHANGED <<current_thread, readyQ, waiters_>> /\ OpSame /\ Answered({})

Leaves ==
    /\ current_thread \in Workers /\ current_thread' = NoWorker /\ UNCHANGED <<op, waiters_>>
    /\ \/ readyQ' = Append(readyQ, current_thread)
       \/ readyQ' = readyQ /\ op[current_thread] = "none"
    /\ Answered({})

Comes ==
    /\ current_thread = NoWorker /\ readyQ # << >>
    /\ current_thread' = Head(readyQ) /\ readyQ' = Tail(readyQ)
    /\ UNCHANGED <<op, waiters_>> /\ Answered({})

Waits(k) ==
    /\ current_thread \in Workers /\ current_thread' = NoWorker /\ readyQ' = readyQ
    /\ waiters_' = [waiters_ EXCEPT ![ObjectOf(k)] = <<current_thread>> \o @]
    /\ op' = [op EXCEPT ![current_thread] = k] /\ Answered({})

\* Those in X leave the list of object o; the workers among them are ready.
Moved(o, X) ==
    /\ X \subseteq ToSet(waiters_[o])
    /\ waiters_' \in [Objects -> Seq(Workers \cup Remotes)]
    /\ \A p \in Objects \ {o} : waiters_'[p] = waiters_[p]
    /\ ToSet(waiters_'[o]) = ToSet(waiters_[o]) \ X /\ Distinct(waiters_'[o])
    /\ readyQ' \in Seq(Workers) /\ ToSet(readyQ') = ToSet(readyQ) \cup (X \cap Workers)
    /\ Distinct(readyQ')
Wakes(o, X) == Moved(o, X) /\ UNCHANGED current_thread /\ OpSame /\ Answered(X)

Suspends(r, o) ==
    /\ call[r].stage # "delegate" /\ UNCHANGED <<current_thread, readyQ, op>>
    /\ waiters_' = [waiters_ EXCEPT ![o] = <<r>> \o @]
    /\ \A q \in Remotes : call'[q].stage = "delegate" <=> call[q].stage = "delegate" \/ q = r

QueueStep ==
    \/ Stays \/ Leaves \/ Comes
    \/ \E k \in BlockingCalls : Waits(k)
    \/ \E o \in Objects : \E X : Wakes(o, X)
    \/ \E r \in Remotes, o \in {"fe", "mutex"} : Suspends(r, o)

\* The names of the constants' assumptions.
LEMMA Names ==
  /\ IsFiniteSet(Workers) /\ NoWorker \notin Workers /\ NoWorker \notin Remotes
  /\ \A w \in Workers : w \notin Remotes
  BY LocalSyncAssumption

\* The object of a call.
LEMMA ObjectOfCall ==
  /\ \A k \in BlockingCalls : ObjectOf(k) \in Objects /\ k # "none"
  /\ ObjectOf("lock") = "mutex" /\ ObjectOf("with_message") = "list"
  /\ ObjectOf("block_until_pop") = "pool" /\ ObjectOf("wait") = "ce"
  /\ \A k \in {"writeEF", "writeFF", "readFF", "readFE"} : ObjectOf(k) = "fe"
  BY DEF BlockingCalls, ObjectOf, Objects

\* The first n of a list are woken.
LEMMA WakeFirst ==
  ASSUME SchedType, Apart, NEW o \in Objects, NEW n \in 0 .. Len(waiters_[o]),
         waiters_' = [waiters_ EXCEPT ![o] = SubSeq(waiters_[o], n + 1, Len(waiters_[o]))],
         readyQ' = readyQ \o WorkersIn(SubSeq(waiters_[o], 1, n))
  PROVE  Moved(o, ToSet(SubSeq(waiters_[o], 1, n)))
  <1> DEFINE s == waiters_[o]
             a == SubSeq(s, 1, n)
             b == SubSeq(s, n + 1, Len(s))
  <1>1. s \in Seq(Workers \cup Remotes) /\ Distinct(s)
    BY DEF SchedType, Apart
  <1>2. /\ a \in Seq(Workers \cup Remotes) /\ b \in Seq(Workers \cup Remotes)
        /\ Distinct(a) /\ Distinct(b) /\ ToSet(b) = ToSet(s) \ ToSet(a) /\ ToSet(a) \subseteq ToSet(s)
    BY <1>1, SplitDistinct
  <1>3. /\ WorkersIn(a) \in Seq(Workers) /\ ToSet(WorkersIn(a)) = ToSet(a) \cap Workers
        /\ Distinct(WorkersIn(a))
    BY <1>2, WorkersInOK
  <1>4. waiters_'[o] = b /\ readyQ' = readyQ \o WorkersIn(a)
    BY DEF SchedType
  <1>5. /\ waiters_' \in [Objects -> Seq(Workers \cup Remotes)]
        /\ \A p \in Objects \ {o} : waiters_'[p] = waiters_[p]
    BY <1>2 DEF SchedType
  <1> HIDE DEF a, b
  <1>6. ToSet(readyQ) \cap ToSet(WorkersIn(a)) = {}
    BY <1>2, <1>3 DEF Apart
  <1>7. readyQ \in Seq(Workers) /\ Distinct(readyQ)
    BY DEF SchedType, Apart
  <1>8. /\ readyQ' \in Seq(Workers) /\ ToSet(readyQ') = ToSet(readyQ) \cup (ToSet(a) \cap Workers)
        /\ Distinct(readyQ')
    <2> DEFINE v == WorkersIn(a)
    <2>1. v \in Seq(Workers) /\ ToSet(v) = ToSet(a) \cap Workers /\ Distinct(v) /\ readyQ' = readyQ \o v
      BY <1>3, <1>4
    <2>2. ToSet(readyQ) \cap ToSet(v) = {}
      BY <1>6
    <2> HIDE DEF v
    <2>3. /\ readyQ \o v \in Seq(Workers) /\ ToSet(readyQ \o v) = ToSet(readyQ) \cup ToSet(v)
          /\ Distinct(readyQ \o v)
      BY <1>7, <2>1, <2>2, ConcatDistinct
    <2>4. QED
      BY <2>1, <2>3
  <1>9. Moved(o, ToSet(a))
    BY <1>2, <1>4, <1>5, <1>8 DEF Moved
  <1>10. QED
    BY <1>9 DEF a

\* Everybody in a list is woken.
LEMMA WakeAll ==
  ASSUME SchedType, Apart, NEW o \in Objects, broadcast(o)
  PROVE  Moved(o, ToSet(waiters_[o])) /\ waiters_'[o] = << >>
  <1> DEFINE s == waiters_[o]
  <1>1. s \in Seq(Workers \cup Remotes) /\ Len(s) \in Nat
    BY DEF SchedType
  <1>2. SubSeq(s, 1, Len(s)) = s /\ SubSeq(s, Len(s) + 1, Len(s)) = << >>
    <2>1. SubSeq(s, 1, Len(s)) = s
      BY <1>1, SubSeqFull
    <2>2. Len(s) < Len(s) + 1 /\ Len(s) + 1 \in Int /\ Len(s) \in Int
      BY <1>1
    <2>3. SubSeq(s, Len(s) + 1, Len(s)) = << >>
      BY <2>2, SubSeqEmpty
    <2>4. QED
      BY <2>1, <2>3
  <1>3. /\ waiters_' = [waiters_ EXCEPT ![o] = SubSeq(s, Len(s) + 1, Len(s))]
        /\ readyQ' = readyQ \o WorkersIn(SubSeq(s, 1, Len(s)))
    BY <1>2 DEF broadcast
  <1>4. Len(s) \in 0 .. Len(s)
    BY <1>1
  <1>5. Moved(o, ToSet(SubSeq(s, 1, Len(s))))
    BY <1>3, <1>4, WakeFirst
  <1>6. waiters_'[o] = << >>
    BY DEF broadcast, SchedType
  <1>7. QED
    BY <1>2, <1>5, <1>6

\* The first of a list of workers is woken, if there is one.
LEMMA WakeOne ==
  ASSUME SchedType, Apart, NEW o \in Objects, signal(o), ToSet(waiters_[o]) \subseteq Workers
  PROVE  \/ waiters_[o] = << >> /\ UNCHANGED <<waiters_, readyQ>> /\ Moved(o, {})
         \/ waiters_[o] # << >> /\ Moved(o, {Head(waiters_[o])})
  <1> DEFINE s == waiters_[o]
  <1>1. s \in Seq(Workers \cup Remotes) /\ Distinct(s) /\ readyQ \in Seq(Workers) /\ Distinct(readyQ)
    BY DEF SchedType, Apart
  <1>2. CASE s = << >>
    BY <1>1, <1>2 DEF signal, Moved, SchedType
  <1>3. CASE s # << >>
    <2>1. /\ waiters_' = [waiters_ EXCEPT ![o] = Tail(@)]
          /\ readyQ' = Append(readyQ, Head(s))
      BY <1>3 DEF signal
    <2>2. /\ Head(s) \in ToSet(s) /\ Tail(s) \in Seq(Workers \cup Remotes)
          /\ ToSet(s) = ToSet(Tail(s)) \cup {Head(s)}
          /\ Distinct(Tail(s)) /\ Head(s) \notin ToSet(Tail(s))
      BY <1>1, <1>3, TailDistinct
    <2>3. Head(s) \in Workers /\ Head(s) \notin ToSet(readyQ)
      BY <2>2 DEF Apart
    <2>4. /\ readyQ' \in Seq(Workers) /\ Distinct(readyQ')
          /\ ToSet(readyQ') = ToSet(readyQ) \cup {Head(s)}
      BY <1>1, <2>1, <2>3, AppendDistinct
    <2>5. /\ waiters_' \in [Objects -> Seq(Workers \cup Remotes)] /\ waiters_'[o] = Tail(s)
          /\ \A p \in Objects \ {o} : waiters_'[p] = waiters_[p]
      BY <2>1, <2>2 DEF SchedType
    <2>6. Moved(o, {Head(s)})
      BY <2>2, <2>3, <2>4, <2>5 DEF Moved
    <2>7. QED
      BY <1>3, <2>6
  <1>4. QED
    BY <1>2, <1>3

(***************************************************************************)
(* A step keeps the queues apart                                           *)
(***************************************************************************)
\* A call that returns is the running worker's.
LEMMA OpSameOK ==
  ASSUME SchedType, OpSame
  PROVE  /\ op' \in [Workers -> BlockingCalls \cup {"none"}]
         /\ \A w \in Workers : w # current_thread => op'[w] = op[w]
         /\ \A w \in Workers : op'[w] = op[w] \/ op'[w] = "none"
  BY DEF SchedType, OpSame

\* Nothing moves.
LEMMA StaysOK ==
  ASSUME SchedType, QueuesOK, Stays
  PROVE  SchedType' /\ QueuesOK'
  <1>1. SchedType'
    BY OpSameOK DEF SchedType, Stays
  <1>2. Apart'
    BY DEF QueuesOK, Apart, Stays
  <1>3. ASSUME NEW w \in Workers PROVE InCall(w)'
    <2>1. InCall(w) /\ (op'[w] = op[w] \/ op'[w] = "none") /\ (w # current_thread => op'[w] = op[w])
      BY OpSameOK DEF QueuesOK, Stays
    <2>2. \A o \in Objects : w \in ToSet(waiters_[o]) => w # current_thread
      BY DEF QueuesOK, Apart
    <2>3. UNCHANGED <<current_thread, readyQ, waiters_>>
      BY DEF Stays
    <2>4. QED
      BY <2>1, <2>2, <2>3 DEF InCall
  <1>4. ASSUME NEW r \in Remotes PROVE DelegateOK(r)'
    <2>1. DelegateOK(r) /\ waiters_' = waiters_ /\ (call'[r].stage = "delegate" <=> call[r].stage = "delegate")
      BY DEF QueuesOK, Stays, Answered
    <2>2. QED
      BY <2>1 DEF DelegateOK, Waiting
  <1>5. QED
    BY <1>1, <1>2, <1>3, <1>4 DEF QueuesOK

\* The running worker goes to readyQ, or ends.
LEMMA LeavesOK ==
  ASSUME SchedType, QueuesOK, Leaves
  PROVE  SchedType' /\ QueuesOK'
  <1> DEFINE w0 == current_thread
  <1>1. /\ w0 \in Workers /\ readyQ \in Seq(Workers) /\ Distinct(readyQ) /\ w0 \notin ToSet(readyQ)
        /\ current_thread' = NoWorker /\ op' = op /\ waiters_' = waiters_
        /\ NoWorker \notin Workers /\ NoWorker \notin Remotes
    BY Names DEF SchedType, QueuesOK, Apart, Leaves
  <1>2. /\ readyQ' \in Seq(Workers) /\ Distinct(readyQ')
        /\ \/ ToSet(readyQ') = ToSet(readyQ) \cup {w0}
           \/ ToSet(readyQ') = ToSet(readyQ) /\ op[w0] = "none"
    <2>1. CASE readyQ' = Append(readyQ, w0)
      BY <1>1, <2>1, AppendDistinct
    <2>2. CASE readyQ' = readyQ /\ op[w0] = "none"
      BY <1>1, <2>2
    <2>3. QED
      BY <2>1, <2>2 DEF Leaves
  <1>3. SchedType'
    BY <1>1, <1>2 DEF SchedType
  <1>4. \A o \in Objects : ToSet(waiters_[o]) \subseteq Workers \cup Remotes
    BY InSeq DEF SchedType
  <1>5. Apart'
    <2>1. Distinct(readyQ') /\ \A o \in Objects : Distinct(waiters_'[o])
      BY <1>1, <1>2 DEF QueuesOK, Apart
    <2>2. \A o \in Objects : w0 \notin ToSet(waiters_[o])
      BY DEF QueuesOK, Apart
    <2>3. \A o \in Objects : ToSet(waiters_[o]) \cap ToSet(readyQ') = {}
      BY <1>2, <2>2 DEF QueuesOK, Apart
    <2>4. \A o, p \in Objects : o # p => ToSet(waiters_[o]) \cap ToSet(waiters_[p]) = {}
      BY DEF QueuesOK, Apart
    <2>5. NoWorker \notin ToSet(readyQ')
      BY <1>1, <1>2, InSeq
    <2>6. \A o \in Objects : NoWorker \notin ToSet(waiters_[o])
      BY <1>1, <1>4
    <2>7. QED
      BY <1>1, <2>1, <2>3, <2>4, <2>5, <2>6 DEF Apart
  <1>6. ASSUME NEW w \in Workers PROVE InCall(w)'
    <2>1. InCall(w)
      BY DEF QueuesOK
    <2>2. QED
      BY <1>1, <1>2, <2>1 DEF InCall
  <1>7. ASSUME NEW r \in Remotes PROVE DelegateOK(r)'
    <2>1. DelegateOK(r) /\ waiters_' = waiters_ /\ (call'[r].stage = "delegate" <=> call[r].stage = "delegate")
      BY DEF QueuesOK, Leaves, Answered
    <2>2. QED
      BY <2>1 DEF DelegateOK, Waiting
  <1>8. QED
    BY <1>3, <1>5, <1>6, <1>7 DEF QueuesOK

\* The first of readyQ runs.
LEMMA ComesOK ==
  ASSUME SchedType, QueuesOK, Comes
  PROVE  SchedType' /\ QueuesOK'
  <1> DEFINE h == Head(readyQ)
  <1>1. /\ readyQ \in Seq(Workers) /\ Distinct(readyQ) /\ readyQ # << >>
        /\ current_thread = NoWorker /\ current_thread' = h /\ readyQ' = Tail(readyQ)
        /\ op' = op /\ waiters_' = waiters_ /\ NoWorker \notin Workers
    BY Names DEF SchedType, QueuesOK, Apart, Comes
  <1>2. /\ h \in Workers /\ h \in ToSet(readyQ) /\ Tail(readyQ) \in Seq(Workers)
        /\ ToSet(readyQ) = ToSet(Tail(readyQ)) \cup {h}
        /\ Distinct(Tail(readyQ)) /\ h \notin ToSet(Tail(readyQ))
    BY <1>1, TailDistinct
  <1> HIDE DEF h
  <1>3. SchedType'
    BY <1>1, <1>2 DEF SchedType
  <1>4. Apart'
    <2>1. Distinct(readyQ') /\ \A o \in Objects : Distinct(waiters_'[o])
      BY <1>1, <1>2 DEF QueuesOK, Apart
    <2>2. \A o \in Objects : ToSet(waiters_[o]) \cap ToSet(readyQ') = {}
      BY <1>1, <1>2 DEF QueuesOK, Apart
    <2>3. \A o, p \in Objects : o # p => ToSet(waiters_[o]) \cap ToSet(waiters_[p]) = {}
      BY DEF QueuesOK, Apart
    <2>4. \A o \in Objects : h \notin ToSet(waiters_[o])
      BY <1>2 DEF QueuesOK, Apart
    <2>5. QED
      BY <1>1, <1>2, <2>1, <2>2, <2>3, <2>4 DEF Apart
  <1>5. ASSUME NEW w \in Workers PROVE InCall(w)'
    <2>1. InCall(w)
      BY DEF QueuesOK
    <2>2. QED
      BY <1>1, <1>2, <2>1 DEF InCall
  <1>6. ASSUME NEW r \in Remotes PROVE DelegateOK(r)'
    <2>1. DelegateOK(r) /\ waiters_' = waiters_ /\ (call'[r].stage = "delegate" <=> call[r].stage = "delegate")
      BY DEF QueuesOK, Comes, Answered
    <2>2. QED
      BY <2>1 DEF DelegateOK, Waiting
  <1>7. QED
    BY <1>3, <1>4, <1>5, <1>6 DEF QueuesOK

\* The head of a list is new.
LEMMA AddedOK ==
  ASSUME SchedType, QueuesOK, NEW o \in Objects, NEW x \in Workers \cup Remotes,
         waiters_' = [waiters_ EXCEPT ![o] = <<x>> \o @],
         \A p \in Objects : x \notin ToSet(waiters_[p])
  PROVE  /\ waiters_' \in [Objects -> Seq(Workers \cup Remotes)]
         /\ \A p \in Objects : Distinct(waiters_'[p])
         /\ ToSet(waiters_'[o]) = ToSet(waiters_[o]) \cup {x} /\ waiters_'[o] # << >>
         /\ \A p \in Objects \ {o} : waiters_'[p] = waiters_[p]
         /\ \A p, q \in Objects : p # q => ToSet(waiters_'[p]) \cap ToSet(waiters_'[q]) = {}
  <1> DEFINE s == waiters_[o]
  <1>1. s \in Seq(Workers \cup Remotes) /\ Distinct(s)
    BY DEF SchedType, QueuesOK, Apart
  <1>2. /\ <<x>> \o s \in Seq(Workers \cup Remotes) /\ ToSet(<<x>> \o s) = ToSet(s) \cup {x}
        /\ <<x>> \o s # << >> /\ Distinct(<<x>> \o s)
    BY <1>1, ConsDistinct
  <1>3. waiters_'[o] = <<x>> \o s /\ \A p \in Objects \ {o} : waiters_'[p] = waiters_[p]
    BY DEF SchedType
  <1>4. waiters_' \in [Objects -> Seq(Workers \cup Remotes)]
    BY <1>2 DEF SchedType
  <1>5. \A p \in Objects : Distinct(waiters_'[p])
    BY <1>2, <1>3 DEF QueuesOK, Apart
  <1>6. ASSUME NEW p \in Objects, NEW q \in Objects, p # q
        PROVE  ToSet(waiters_'[p]) \cap ToSet(waiters_'[q]) = {}
    <2>1. ToSet(waiters_[p]) \cap ToSet(waiters_[q]) = {}
      BY <1>6 DEF QueuesOK, Apart
    <2>2. p = o => ToSet(waiters_'[p]) = ToSet(waiters_[p]) \cup {x} /\ waiters_'[q] = waiters_[q]
      BY <1>2, <1>3, <1>6
    <2>3. q = o => ToSet(waiters_'[q]) = ToSet(waiters_[q]) \cup {x} /\ waiters_'[p] = waiters_[p]
      BY <1>2, <1>3, <1>6
    <2>4. p # o /\ q # o => waiters_'[p] = waiters_[p] /\ waiters_'[q] = waiters_[q]
      BY <1>3
    <2>5. QED
      BY <2>1, <2>2, <2>3, <2>4
  <1>7. QED
    BY <1>2, <1>3, <1>4, <1>5, <1>6

\* The running worker waits.
LEMMA WaitsOK ==
  ASSUME SchedType, QueuesOK, NEW k \in BlockingCalls, Waits(k)
  PROVE  SchedType' /\ QueuesOK'
  <1> DEFINE w0 == current_thread
             o == ObjectOf(k)
  <1>0. o \in Objects /\ k # "none"
    BY ObjectOfCall
  <1>1. /\ w0 \in Workers /\ current_thread' = NoWorker /\ readyQ' = readyQ
        /\ NoWorker \notin Workers /\ NoWorker \notin Remotes /\ w0 \notin Remotes
        /\ \A p \in Objects : w0 \notin ToSet(waiters_[p])
    BY Names DEF SchedType, QueuesOK, Apart, Waits
  <1>2. /\ op' \in [Workers -> BlockingCalls \cup {"none"}] /\ op'[w0] = k
        /\ \A w \in Workers : w # w0 => op'[w] = op[w]
    BY DEF SchedType, Waits
  <1>3. /\ waiters_' \in [Objects -> Seq(Workers \cup Remotes)]
        /\ \A p \in Objects : Distinct(waiters_'[p])
        /\ ToSet(waiters_'[o]) = ToSet(waiters_[o]) \cup {w0}
        /\ \A p \in Objects \ {o} : waiters_'[p] = waiters_[p]
        /\ \A p, q \in Objects : p # q => ToSet(waiters_'[p]) \cap ToSet(waiters_'[q]) = {}
    <2>1. waiters_' = [waiters_ EXCEPT ![o] = <<w0>> \o @]
      BY DEF Waits
    <2> HIDE DEF w0, o
    <2>2. QED
      BY <1>0, <1>1, <2>1, AddedOK
  <1>4. SchedType'
    BY <1>1, <1>2, <1>3 DEF SchedType
  <1> HIDE DEF o
  <1>5. \A p \in Objects : ToSet(waiters_'[p]) = IF p = o THEN ToSet(waiters_[p]) \cup {w0}
                                                          ELSE ToSet(waiters_[p])
    BY <1>3
  <1>6. Apart'
    <2>1. Distinct(readyQ') /\ w0 \notin ToSet(readyQ) /\ readyQ' \in Seq(Workers)
      BY <1>1 DEF SchedType, QueuesOK, Apart
    <2>2. \A p \in Objects : ToSet(waiters_'[p]) \cap ToSet(readyQ') = {}
      BY <1>1, <1>5, <2>1 DEF QueuesOK, Apart
    <2>3. NoWorker \notin ToSet(readyQ')
      BY <1>1, <2>1, InSeq
    <2>4. \A p \in Objects : ToSet(waiters_'[p]) \subseteq Workers \cup Remotes
      BY <1>3, InSeq
    <2>5. \A p \in Objects : NoWorker \notin ToSet(waiters_'[p])
      BY <1>1, <2>4
    <2>6. QED
      BY <1>1, <1>3, <2>1, <2>2, <2>3, <2>5 DEF Apart
  <1>7. ASSUME NEW w \in Workers PROVE InCall(w)'
    <2>1. InCall(w)
      BY DEF QueuesOK
    <2>2. CASE w = w0
      <3>1. \A p \in Objects : w \in ToSet(waiters_'[p]) <=> p = o
        BY <1>0, <1>1, <1>5, <2>2
      <3>2. QED
        BY <1>0, <1>2, <2>2, <3>1 DEF InCall, o
    <2>3. CASE w # w0
      <3>1. \A p \in Objects : w \in ToSet(waiters_'[p]) <=> w \in ToSet(waiters_[p])
        BY <1>5, <2>3
      <3>2. QED
        BY <1>1, <1>2, <2>1, <2>3, <3>1 DEF InCall
    <2>4. QED
      BY <2>2, <2>3
  <1>8. ASSUME NEW r \in Remotes PROVE DelegateOK(r)'
    <2>1. DelegateOK(r) /\ (call'[r].stage = "delegate" <=> call[r].stage = "delegate")
      BY DEF QueuesOK, Waits, Answered
    <2>2. \A p \in Objects : r \in ToSet(waiters_'[p]) <=> r \in ToSet(waiters_[p])
      BY <1>1, <1>5
    <2>3. Waiting(r)' = Waiting(r)
      BY <2>2 DEF Waiting
    <2>4. QED
      BY <2>1, <2>3 DEF DelegateOK
  <1>9. QED
    BY <1>4, <1>6, <1>7, <1>8 DEF QueuesOK

\* Those in X are woken or answered.
LEMMA WakesOK ==
  ASSUME SchedType, QueuesOK, NEW o \in Objects, NEW X, Wakes(o, X)
  PROVE  SchedType' /\ QueuesOK'
  <1>1. /\ X \subseteq ToSet(waiters_[o]) /\ waiters_' \in [Objects -> Seq(Workers \cup Remotes)]
        /\ \A p \in Objects \ {o} : waiters_'[p] = waiters_[p]
        /\ ToSet(waiters_'[o]) = ToSet(waiters_[o]) \ X /\ Distinct(waiters_'[o])
        /\ readyQ' \in Seq(Workers) /\ ToSet(readyQ') = ToSet(readyQ) \cup (X \cap Workers)
        /\ Distinct(readyQ') /\ current_thread' = current_thread /\ OpSame /\ Answered(X)
    BY DEF Wakes, Moved
  <1>2. SchedType'
    BY <1>1, OpSameOK DEF SchedType
  <1>3. \A p \in Objects : ToSet(waiters_'[p]) = IF p = o THEN ToSet(waiters_[p]) \ X
                                                          ELSE ToSet(waiters_[p])
    BY <1>1
  <1>4. Apart'
    <2>1. Distinct(readyQ') /\ \A p \in Objects : Distinct(waiters_'[p])
      BY <1>1 DEF QueuesOK, Apart
    <2>2. ASSUME NEW p \in Objects PROVE ToSet(waiters_'[p]) \cap ToSet(readyQ') = {}
      <3>1. /\ ToSet(waiters_[p]) \cap ToSet(readyQ) = {}
            /\ p # o => ToSet(waiters_[p]) \cap ToSet(waiters_[o]) = {}
        BY DEF QueuesOK, Apart
      <3>2. QED
        BY <1>1, <1>3, <3>1
    <2>3. ASSUME NEW p \in Objects, NEW q \in Objects, p # q
          PROVE  ToSet(waiters_'[p]) \cap ToSet(waiters_'[q]) = {}
      <3>1. ToSet(waiters_[p]) \cap ToSet(waiters_[q]) = {}
        BY <2>3 DEF QueuesOK, Apart
      <3>2. QED
        BY <1>3, <3>1
    <2>4. current_thread \notin ToSet(readyQ') /\ \A p \in Objects : current_thread \notin ToSet(waiters_'[p])
      BY <1>1, <1>3 DEF QueuesOK, Apart
    <2>5. QED
      BY <1>1, <2>1, <2>2, <2>3, <2>4 DEF Apart
  <1>5. ASSUME NEW w \in Workers PROVE InCall(w)'
    <2>1. InCall(w) /\ (op'[w] = op[w] \/ op'[w] = "none") /\ (w # current_thread => op'[w] = op[w])
      BY <1>1, OpSameOK DEF QueuesOK
    <2>2. \A p \in Objects : w \in ToSet(waiters_[p]) => w # current_thread
      BY DEF QueuesOK, Apart
    <2>3. \A p \in Objects : w \in ToSet(waiters_'[p]) => w \in ToSet(waiters_[p])
      BY <1>3
    <2>4. \A p \in Objects : w \in ToSet(waiters_[p]) => w \in ToSet(waiters_'[p]) \/ w \in ToSet(readyQ')
      BY <1>1, <1>3
    <2>5. w \in ToSet(readyQ) => w \in ToSet(readyQ')
      BY <1>1
    <2>6. QED
      BY <1>1, <2>1, <2>2, <2>3, <2>4, <2>5 DEF InCall
  <1>6. ASSUME NEW r \in Remotes PROVE DelegateOK(r)'
    <2>1. DelegateOK(r) /\ (call'[r].stage = "delegate" <=> call[r].stage = "delegate" /\ r \notin X)
      BY <1>1 DEF QueuesOK, Answered
    <2>2. \A p \in Objects : r \in ToSet(waiters_'[p]) <=> r \in ToSet(waiters_[p]) /\ (p = o => r \notin X)
      BY <1>3
    <2>3. CASE r \in X
      <3>1. \A p \in Objects : r \in ToSet(waiters_[p]) => p = o
        BY <1>1, <2>3 DEF QueuesOK, Apart
      <3>2. Waiting(r)' = {}
        BY <2>2, <2>3, <3>1 DEF Waiting
      <3>3. QED
        BY <2>1, <2>3, <3>2 DEF DelegateOK
    <2>4. CASE r \notin X
      <3>1. Waiting(r)' = Waiting(r)
        BY <2>2, <2>4 DEF Waiting
      <3>2. QED
        BY <2>1, <2>4, <3>1 DEF DelegateOK
    <2>5. QED
      BY <2>3, <2>4
  <1>7. QED
    BY <1>2, <1>4, <1>5, <1>6 DEF QueuesOK

\* A handler leaves a delegate.
LEMMA SuspendsOK ==
  ASSUME SchedType, QueuesOK, NEW r \in Remotes, NEW o \in {"fe", "mutex"}, Suspends(r, o)
  PROVE  SchedType' /\ QueuesOK'
  <1>0. o \in Objects
    BY DEF Objects
  <1>1. /\ current_thread' = current_thread /\ readyQ' = readyQ /\ op' = op
        /\ r \notin Workers /\ r # NoWorker /\ \A p \in Objects : r \notin ToSet(waiters_[p])
    BY Names DEF SchedType, QueuesOK, DelegateOK, Waiting, Suspends
  <1>2. /\ waiters_' \in [Objects -> Seq(Workers \cup Remotes)]
        /\ \A p \in Objects : Distinct(waiters_'[p])
        /\ ToSet(waiters_'[o]) = ToSet(waiters_[o]) \cup {r}
        /\ \A p \in Objects \ {o} : waiters_'[p] = waiters_[p]
        /\ \A p, q \in Objects : p # q => ToSet(waiters_'[p]) \cap ToSet(waiters_'[q]) = {}
    <2>1. waiters_' = [waiters_ EXCEPT ![o] = <<r>> \o @]
      BY DEF Suspends
    <2>2. QED
      BY <1>0, <1>1, <2>1, AddedOK
  <1>3. SchedType'
    BY <1>1, <1>2 DEF SchedType
  <1>4. \A p \in Objects : ToSet(waiters_'[p]) = IF p = o THEN ToSet(waiters_[p]) \cup {r}
                                                          ELSE ToSet(waiters_[p])
    BY <1>2
  <1>5. Apart'
    <2>1. Distinct(readyQ') /\ readyQ \in Seq(Workers)
      BY <1>1 DEF SchedType, QueuesOK, Apart
    <2>2. r \notin ToSet(readyQ)
      BY <1>1, <2>1, InSeq
    <2>3. \A p \in Objects : ToSet(waiters_'[p]) \cap ToSet(readyQ') = {}
      BY <1>1, <1>4, <2>2 DEF QueuesOK, Apart
    <2>4. current_thread # r
      BY <1>1 DEF SchedType
    <2>5. \A p \in Objects : current_thread \notin ToSet(waiters_'[p])
      BY <1>4, <2>4 DEF QueuesOK, Apart
    <2>6. current_thread' \notin ToSet(readyQ')
      BY <1>1 DEF QueuesOK, Apart
    <2>7. QED
      BY <1>1, <1>2, <2>1, <2>3, <2>5, <2>6 DEF Apart
  <1>6. ASSUME NEW w \in Workers PROVE InCall(w)'
    <2>1. InCall(w)
      BY DEF QueuesOK
    <2>2. \A p \in Objects : w \in ToSet(waiters_'[p]) <=> w \in ToSet(waiters_[p])
      BY <1>1, <1>4
    <2>3. QED
      BY <1>1, <2>1, <2>2 DEF InCall
  <1>7. ASSUME NEW q \in Remotes PROVE DelegateOK(q)'
    <2>1. DelegateOK(q) /\ (call'[q].stage = "delegate" <=> call[q].stage = "delegate" \/ q = r)
      BY DEF QueuesOK, Suspends
    <2>2. CASE q = r
      <3>1. Waiting(q)' = {o}
        BY <1>0, <1>1, <1>4, <2>2 DEF Waiting
      <3>2. QED
        BY <2>1, <2>2, <3>1 DEF DelegateOK
    <2>3. CASE q # r
      <3>1. \A p \in Objects : q \in ToSet(waiters_'[p]) <=> q \in ToSet(waiters_[p])
        BY <1>4, <2>3
      <3>2. Waiting(q)' = Waiting(q)
        BY <3>1 DEF Waiting
      <3>3. QED
        BY <2>1, <2>3, <3>2 DEF DelegateOK
    <2>4. QED
      BY <2>2, <2>3
  <1>8. QED
    BY <1>3, <1>5, <1>6, <1>7 DEF QueuesOK

\* Every change of the queues keeps them apart.
LEMMA QueuesKept ==
  ASSUME SchedType, QueuesOK, QueueStep
  PROVE  SchedType' /\ QueuesOK'
  BY StaysOK, LeavesOK, ComesOK, WaitsOK, WakesOK, SuspendsOK DEF QueueStep
(***************************************************************************)
(* Every action changes the queues in one of these ways                    *)
(***************************************************************************)
\* Answering the tasks in R answers the delegates in X, which are the ones in R.
LEMMA AnswerOK ==
  ASSUME CallType, NEW R, NEW X, Answer(R), X \cap Remotes \subseteq R,
         \A r \in Remotes : r \in R => r \in X \/ call[r].stage # "delegate"
  PROVE  Answered(X) /\ CallType'
  <1>1. ASSUME NEW r \in Remotes, r \in R PROVE call'[r].kind = call[r].kind /\ call'[r].stage = "reply"
    BY <1>1 DEF Answer, CallType
  <1>2. ASSUME NEW r \in Remotes, r \notin R PROVE call'[r] = call[r]
    BY <1>2 DEF Answer
  <1>3. Answered(X)
    <2>1. SUFFICES ASSUME NEW r \in Remotes
                   PROVE  call'[r].stage = "delegate" <=> call[r].stage = "delegate" /\ r \notin X
      BY DEF Answered
    <2>2. CASE r \in R
      BY <1>1, <2>2
    <2>3. CASE r \notin R
      BY <1>2, <2>3
    <2>4. QED
      BY <2>2, <2>3
  <1>4. CallType'
    <2>1. ASSUME NEW r \in Remotes
          PROVE  (IF r \in R THEN [call[r] EXCEPT !.stage = "reply"] ELSE call[r]) \in
                    [kind : RemoteCalls \cup {"none"},
                     stage : {"none", "request", "delegate", "reply", "done"}]
      BY DEF CallType
    <2>2. QED
      BY <2>1 DEF CallType, Answer
  <1>5. QED
    BY <1>3, <1>4

\* Nobody is answered.
LEMMA CallSame ==
  ASSUME call' = call
  PROVE  Answered({}) /\ (CallType => CallType')
  BY DEF Answered, CallType

\* Only a FullEmpty and a Mutex have delegates.
LEMMA NoDelegates ==
  ASSUME SchedType, QueuesOK, NEW o \in {"list", "pool", "ce"}
  PROVE  o \in Objects /\ ToSet(waiters_[o]) \subseteq Workers
  <1>1. o \in Objects
    BY DEF Objects
  <1>2. ToSet(waiters_[o]) \subseteq Workers \cup Remotes
    BY <1>1, InSeq DEF SchedType
  <1>3. ASSUME NEW r \in Remotes, r \in ToSet(waiters_[o]) PROVE FALSE
    <2>1. o \in Waiting(r) /\ Waiting(r) \subseteq {"fe", "mutex"}
      BY <1>1, <1>3 DEF Waiting, QueuesOK, DelegateOK
    <2>2. QED
      BY <2>1
  <1>4. QED
    BY <1>1, <1>2, <1>3

\* The delegates of a list.
LEMMA DelegatesOf ==
  ASSUME SchedType, QueuesOK, NEW o \in Objects, NEW X, X \subseteq ToSet(waiters_[o])
  PROVE  \A r \in Remotes : r \in X => call[r].stage = "delegate"
  BY DEF QueuesOK, DelegateOK, Waiting

\* Grappa::wait.
LEMMA WaitStep ==
  ASSUME SchedType, NEW w \in Workers, NEW k \in BlockingCalls, current_thread = w, wait(w, k)
  PROVE  Waits(k) /\ QueueStep
  BY CallSame DEF wait, add_waiter, Waits, QueueStep

\* A blocking call that returns at once, or any step that leaves the queues.
LEMMA ReturnStep ==
  ASSUME SchedType, UNCHANGED <<readyQ, waiters_, current_thread>>, OpSame, call' = call
  PROVE  QueueStep
  BY CallSame DEF Stays, QueueStep

\* The call of the running worker returns.
LEMMA ReturnsOK ==
  ASSUME SchedType, NEW w \in Workers, current_thread = w, Returns(w)
  PROVE  OpSame /\ current_thread' = current_thread
  BY DEF Returns, OpSame

\* Everybody who waits for an object without delegates is woken.
LEMMA BroadcastStep ==
  ASSUME SchedType, QueuesOK, NEW o \in {"pool", "ce"}, broadcast(o), OpSame,
         UNCHANGED <<current_thread, call>>
  PROVE  QueueStep
  <1>1. o \in Objects /\ ToSet(waiters_[o]) \subseteq Workers
    BY NoDelegates
  <1>2. Moved(o, ToSet(waiters_[o]))
    BY <1>1, WakeAll DEF QueuesOK
  <1>3. Answered(ToSet(waiters_[o]))
    BY <1>1, CallSame, Names DEF Answered
  <1>4. Wakes(o, ToSet(waiters_[o]))
    BY <1>2, <1>3 DEF Wakes
  <1>5. QED
    BY <1>1, <1>4 DEF QueueStep

\* Everybody who waits for a FullEmpty is woken or answered, with others
\* that have no delegate.
LEMMA BroadcastFE ==
  ASSUME SchedType, CallType, QueuesOK, broadcast("fe"), OpSame, current_thread' = current_thread,
         NEW D, DelegatesIn(waiters_["fe"]) \subseteq D, Answer(D),
         \A r \in D : r \in DelegatesIn(waiters_["fe"]) \/ call[r].stage # "delegate"
  PROVE  QueueStep /\ CallType'
  <1> DEFINE X == ToSet(waiters_["fe"])
  <1>1. "fe" \in Objects
    BY DEF Objects
  <1>2. Moved("fe", X)
    BY <1>1, WakeAll DEF QueuesOK
  <1>3. X \cap Remotes \subseteq D /\ \A r \in Remotes : r \in D => r \in X \/ call[r].stage # "delegate"
    BY DEF DelegatesIn
  <1>4. Answered(X) /\ CallType'
    <2> HIDE DEF X
    <2>1. QED
      BY <1>3, AnswerOK
  <1>5. Wakes("fe", X)
    BY <1>2, <1>4 DEF Wakes
  <1>6. QED
    BY <1>1, <1>4, <1>5 DEF QueueStep

\* Woken takes a prefix; where it leaves somebody, the last one it takes is a
\* worker (a func that locks and unlocks runs until a worker is woken).
LEMMA WokenOK ==
  ASSUME NEW s \in Seq(Workers \cup Remotes)
  PROVE  /\ Woken(s) \in 0 .. Len(s)
         /\ FuncLocks /\ Woken(s) # Len(s) => Woken(s) \in 1 .. Len(s) /\ s[Woken(s)] \in Workers
  <1> DEFINE F == {i \in DOMAIN s : s[i] \in Workers /\ \A j \in 1 .. i - 1 : s[j] \in Remotes}
  <1>1. Len(s) \in Nat /\ DOMAIN s = 1 .. Len(s) /\ (s = << >> <=> Len(s) = 0)
    OBVIOUS
  <1>2. Woken(s) = IF s = << >> THEN 0
                   ELSE IF ~FuncLocks THEN 1
                   ELSE IF F = {} THEN Len(s) ELSE CHOOSE i \in F : TRUE
    BY DEF Woken
  <1>3. F # {} => (CHOOSE i \in F : TRUE) \in F
    <2> HIDE DEF F
    <2>1. QED
      OBVIOUS
  <1>4. \A i \in F : i \in 1 .. Len(s) /\ s[i] \in Workers
    BY <1>1
  <1> HIDE DEF F
  <1> DEFINE c == CHOOSE i \in F : TRUE
  <1>5. F # {} => c \in 1 .. Len(s) /\ s[c] \in Workers
    BY <1>3, <1>4
  <1>6. Woken(s) = IF s = << >> THEN 0 ELSE IF ~FuncLocks THEN 1 ELSE IF F = {} THEN Len(s) ELSE c
    BY <1>2
  <1> HIDE DEF c
  <1>7. QED
    BY <1>1, <1>5, <1>6

\* The first n who wait for the mutex are woken or answered, with others
\* that have no delegate.
LEMMA MutexStep ==
  ASSUME SchedType, CallType, QueuesOK, NEW n \in 0 .. Len(waiters_["mutex"]),
         waiters_' = [waiters_ EXCEPT !["mutex"] =
                        SubSeq(waiters_["mutex"], n + 1, Len(waiters_["mutex"]))],
         readyQ' = readyQ \o WorkersIn(SubSeq(waiters_["mutex"], 1, n)),
         OpSame, current_thread' = current_thread,
         NEW D, DelegatesIn(SubSeq(waiters_["mutex"], 1, n)) \subseteq D, Answer(D),
         \A r \in D : r \in DelegatesIn(SubSeq(waiters_["mutex"], 1, n)) \/ call[r].stage # "delegate"
  PROVE  /\ Wakes("mutex", ToSet(SubSeq(waiters_["mutex"], 1, n)))
         /\ QueueStep /\ CallType'
  <1> DEFINE a == SubSeq(waiters_["mutex"], 1, n)
             X == ToSet(a)
  <1>1. "mutex" \in Objects
    BY DEF Objects
  <1>2. Moved("mutex", X)
    BY <1>1, WakeFirst DEF QueuesOK
  <1>3. X \cap Remotes \subseteq D /\ \A r \in Remotes : r \in D => r \in X \/ call[r].stage # "delegate"
    BY DEF DelegatesIn
  <1>4. Answered(X) /\ CallType'
    <2> HIDE DEF X
    <2>1. QED
      BY <1>3, AnswerOK
  <1>5. Wakes("mutex", X)
    BY <1>2, <1>4 DEF Wakes
  <1>6. QED
    BY <1>1, <1>4, <1>5 DEF QueueStep

\* A suspended handler.
LEMMA SuspendStep ==
  ASSUME SchedType, CallType, QueuesOK, NEW r \in Remotes, NEW o \in {"fe", "mutex"},
         call[r].stage = "request", Suspend(r, o), UNCHANGED <<current_thread, op>>
  PROVE  Suspends(r, o) /\ QueueStep /\ CallType'
  <1>1. call' = [call EXCEPT ![r].stage = "delegate"]
    BY DEF Suspend
  <1>2. CallType'
    BY <1>1 DEF CallType
  <1>3. \A q \in Remotes : call'[q].stage = IF q = r THEN "delegate" ELSE call[q].stage
    BY <1>1 DEF CallType
  <1>4. Suspends(r, o)
    BY <1>3 DEF Suspends, Suspend, add_waiter
  <1>5. QED
    BY <1>2, <1>4 DEF QueueStep
\* The steps of a worker on its scheduler and the mutex.
LEMMA KindOfSched ==
  ASSUME SchedType, CallType, QueuesOK, NEW w \in Workers,
         thread_yield(w) \/ Exit(w) \/ Dispatch \/ lock(w) \/ trylock(w) \/ unlock(w)
  PROVE  QueueStep /\ CallType'
  <1>1. CASE thread_yield(w)
    BY <1>1, CallSame DEF thread_yield, Leaves, QueueStep
  <1>2. CASE Exit(w)
    BY <1>2, CallSame DEF Exit, Leaves, QueueStep
  <1>3. CASE Dispatch
    BY <1>3, CallSame DEF Dispatch, Comes, QueueStep
  <1>4. CASE lock(w)
    <2>1. CASE lock_
      <3>1. "lock" \in BlockingCalls /\ current_thread = w /\ wait(w, "lock") /\ call' = call
        BY <1>4, <2>1 DEF lock, Enters, BlockingCalls, wait
      <3>2. QED
        BY <3>1, WaitStep, CallSame
    <2>2. CASE ~lock_
      <3>1. current_thread = w /\ Returns(w) /\ UNCHANGED <<readyQ, waiters_, call>>
        BY <1>4, <2>2 DEF lock, Enters
      <3>2. QED
        BY <3>1, ReturnsOK, ReturnStep, CallSame
    <2>3. QED
      BY <2>1, <2>2
  <1>5. CASE trylock(w)
    <2>1. OpSame /\ UNCHANGED <<readyQ, waiters_, current_thread, call>>
      BY <1>5 DEF trylock, Calls, OpSame
    <2>2. QED
      BY <2>1, ReturnStep, CallSame
  <1>6. CASE unlock(w)
    <2> DEFINE s == waiters_["mutex"]
    <2>1. OpSame /\ UNCHANGED current_thread /\ signalMutex
      BY <1>6 DEF unlock, GivesBack, OpSame
    <2>2. s \in Seq(Workers \cup Remotes)
      BY DEF SchedType, Objects
    <2>3. Woken(s) \in 0 .. Len(s)
      BY <2>2, WokenOK
    <2>4. /\ waiters_' = [waiters_ EXCEPT !["mutex"] = SubSeq(s, Woken(s) + 1, Len(s))]
          /\ readyQ' = readyQ \o WorkersIn(SubSeq(s, 1, Woken(s)))
          /\ Answer(DelegatesIn(SubSeq(s, 1, Woken(s))))
      BY <2>1 DEF signalMutex
    <2>5. QED
      BY <2>1, <2>3, <2>4, MutexStep
  <1>7. QED
    BY <1>1, <1>2, <1>3, <1>4, <1>5, <1>6

\* The steps of a worker on the list, the pool and the event.
LEMMA KindOfObjects ==
  ASSUME SchedType, CallType, QueuesOK, NEW w \in Workers,
         \/ with_message(w) \/ block_until_pop(w) \/ try_pop(w) \/ push(w)
         \/ reset(w) \/ ceWait(w) \/ enroll(w)
  PROVE  QueueStep /\ CallType'
  <1>0. {"with_message", "block_until_pop", "wait"} \subseteq BlockingCalls
    BY DEF BlockingCalls
  <1>1. CASE with_message(w)
    <2>1. \/ current_thread = w /\ wait(w, "with_message") /\ call' = call
          \/ current_thread = w /\ Returns(w) /\ UNCHANGED <<readyQ, waiters_, call>>
      BY <1>1 DEF with_message, Enters, wait
    <2>2. QED
      BY <1>0, <2>1, WaitStep, ReturnsOK, ReturnStep, CallSame
  <1>2. CASE block_until_pop(w)
    <2>1. \/ current_thread = w /\ wait(w, "block_until_pop") /\ call' = call
          \/ current_thread = w /\ Returns(w) /\ UNCHANGED <<readyQ, waiters_, call>>
      BY <1>2 DEF block_until_pop, Enters, wait
    <2>2. QED
      BY <1>0, <2>1, WaitStep, ReturnsOK, ReturnStep, CallSame
  <1>3. CASE try_pop(w) \/ reset(w) \/ enroll(w)
    <2>1. OpSame /\ UNCHANGED <<readyQ, waiters_, current_thread, call>>
      BY <1>3 DEF try_pop, reset, enroll, Calls, OpSame
    <2>2. QED
      BY <2>1, ReturnStep, CallSame
  <1>4. CASE push(w)
    <2>1. OpSame /\ UNCHANGED <<current_thread, call>> /\ broadcast("pool")
      BY <1>4 DEF push, GivesBack, OpSame
    <2>2. QED
      BY <2>1, BroadcastStep, CallSame
  <1>5. CASE ceWait(w)
    <2>1. \/ current_thread = w /\ wait(w, "wait") /\ call' = call
          \/ current_thread = w /\ Returns(w) /\ UNCHANGED <<readyQ, waiters_, call>>
      BY <1>5 DEF ceWait, Enters, wait
    <2>2. QED
      BY <1>0, <2>1, WaitStep, ReturnsOK, ReturnStep, CallSame
  <1>6. QED
    BY <1>1, <1>2, <1>3, <1>4, <1>5

\* broadcastFE, in the context of a worker.
LEMMA KindOfBroadcastFE ==
  ASSUME SchedType, CallType, QueuesOK, broadcastFE, OpSame, current_thread' = current_thread
  PROVE  QueueStep /\ CallType'
  <1>1. broadcast("fe") /\ Answer(DelegatesIn(waiters_["fe"]))
    BY DEF broadcastFE
  <1>2. QED
    BY <1>1, BroadcastFE

\* The steps of a worker on the FullEmpty.
LEMMA KindOfFE ==
  ASSUME SchedType, CallType, QueuesOK, NEW w \in Workers,
         \/ \E k \in {"writeEF", "writeFF", "readFF", "readFE"} : accessFE(w, k)
         \/ writeXF(w)
  PROVE  QueueStep /\ CallType'
  <1>1. ASSUME NEW k \in {"writeEF", "writeFF", "readFF", "readFE"}, accessFE(w, k)
        PROVE  QueueStep /\ CallType'
    <2>0. k \in BlockingCalls
      BY DEF BlockingCalls
    <2>1. \/ current_thread = w /\ wait(w, k) /\ call' = call
          \/ current_thread = w /\ Returns(w) /\ broadcastFE
      BY <1>1 DEF accessFE, Enters, wait
    <2>2. QED
      BY <2>0, <2>1, WaitStep, ReturnsOK, KindOfBroadcastFE, CallSame
  <1>2. CASE writeXF(w)
    <2>1. OpSame /\ UNCHANGED current_thread /\ broadcastFE
      BY <1>2 DEF writeXF, Calls, OpSame
    <2>2. QED
      BY <2>1, KindOfBroadcastFE
  <1>3. QED
    BY <1>1, <1>2

\* The steps outside the workers.
LEMMA KindOfMessages ==
  ASSUME SchedType, CallType, QueuesOK, (\E m \in Messages : mark_sent(m)) \/ complete
  PROVE  QueueStep /\ CallType'
  <1>1. ASSUME NEW m \in Messages, mark_sent(m) PROVE QueueStep /\ CallType'
    <2>1. signal("list") /\ UNCHANGED <<current_thread, op, call>>
      BY <1>1 DEF mark_sent
    <2>2. "list" \in Objects /\ ToSet(waiters_["list"]) \subseteq Workers
      BY NoDelegates
    <2>3. PICK X : Moved("list", X)
      BY <2>1, <2>2, WakeOne DEF QueuesOK
    <2>4. Answered(X)
      BY <2>1, <2>2, <2>3, Names DEF Answered, Moved
    <2>5. Wakes("list", X)
      BY <2>1, <2>3, <2>4 DEF Wakes, OpSame
    <2>6. QED
      BY <2>1, <2>2, <2>5, CallSame DEF QueueStep
  <1>2. CASE complete
    <2>1. OpSame /\ UNCHANGED <<current_thread, call>>
      BY <1>2 DEF complete, OpSame
    <2>2. broadcast("ce") \/ UNCHANGED <<waiters_, readyQ>>
      BY <1>2 DEF complete
    <2>3. QED
      BY <2>1, <2>2, BroadcastStep, ReturnStep, CallSame
  <1>3. QED
    BY <1>1, <1>2

\* The steps of a remote task and the handlers of its requests.
LEMMA KindOfRemote ==
  ASSUME SchedType, CallType, QueuesOK, NEW r \in Remotes,
         (\E k \in RemoteCalls : RemoteCall(r, k)) \/ Handle(r) \/ RemoteReturn(r)
  PROVE  QueueStep /\ CallType'
  <1>1. ASSUME NEW k \in RemoteCalls, RemoteCall(r, k) PROVE QueueStep /\ CallType'
    <2>1. /\ call[r].stage = "none" /\ call' = [call EXCEPT ![r] = [kind |-> k, stage |-> "request"]]
          /\ UNCHANGED <<current_thread, readyQ, op, waiters_>>
      BY <1>1 DEF RemoteCall
    <2>2. CallType'
      BY <2>1 DEF CallType
    <2>3. Answered({})
      BY <2>1 DEF Answered, CallType
    <2>4. QED
      BY <2>1, <2>2, <2>3 DEF QueueStep, Stays, OpSame
  <1>2. CASE RemoteReturn(r)
    <2>1. /\ call[r].stage = "reply" /\ call' = [call EXCEPT ![r].stage = "done"]
          /\ UNCHANGED <<current_thread, readyQ, op, waiters_>>
      BY <1>2 DEF RemoteReturn
    <2>2. CallType'
      BY <2>1 DEF CallType
    <2>3. Answered({})
      BY <2>1 DEF Answered, CallType
    <2>4. QED
      BY <2>1, <2>2, <2>3 DEF QueueStep, Stays, OpSame
  <1>3. ASSUME NEW k \in RemoteCalls, Handles(r, k)
        PROVE  call[r].stage = "request" /\ OpSame /\ UNCHANGED <<current_thread, op>>
    BY <1>3 DEF Handles, OpSame
  <1>5. CASE HandleReadFF(r)
    <2>1. call[r].stage = "request" /\ OpSame /\ UNCHANGED <<current_thread, op>>
      BY <1>3, <1>5 DEF HandleReadFF, RemoteCalls
    <2>2. \/ broadcast("fe") /\ Answer({r} \cup DelegatesIn(waiters_["fe"]))
          \/ Suspend(r, "fe")
      BY <1>5 DEF HandleReadFF
    <2>3. QED
      BY <2>1, <2>2, BroadcastFE, SuspendStep
  <1>6. CASE HandleWriteXF(r)
    <2>1. call[r].stage = "request" /\ OpSame /\ UNCHANGED <<current_thread, op>>
      BY <1>3, <1>6 DEF HandleWriteXF, RemoteCalls
    <2>2. broadcast("fe") /\ Answer({r} \cup DelegatesIn(waiters_["fe"]))
      BY <1>6 DEF HandleWriteXF
    <2>3. QED
      BY <2>1, <2>2, BroadcastFE
  <1>7. CASE HandleMutexCall(r)
    <2>1. call[r].stage = "request" /\ OpSame /\ UNCHANGED <<current_thread, op>>
      BY <1>3, <1>7 DEF HandleMutexCall, RemoteCalls
    <2>2. CASE lock_
      <3>1. Suspend(r, "mutex")
        BY <1>7, <2>2 DEF HandleMutexCall
      <3>2. QED
        BY <2>1, <3>1, SuspendStep
    <2>3. CASE ~lock_
      <3> DEFINE s == waiters_["mutex"]
                 n == IF FuncLocks THEN Woken(s) ELSE 0
      <3>1. /\ waiters_' = [waiters_ EXCEPT !["mutex"] = SubSeq(s, n + 1, Len(s))]
            /\ readyQ' = readyQ \o WorkersIn(SubSeq(s, 1, n))
            /\ Answer({r} \cup DelegatesIn(SubSeq(s, 1, n)))
        BY <1>7, <2>3 DEF HandleMutexCall
      <3>2. s \in Seq(Workers \cup Remotes) /\ Len(s) \in Nat
        BY DEF SchedType, Objects
      <3>3. n \in 0 .. Len(s)
        BY <3>2, WokenOK
      <3> HIDE DEF n
      <3>4. QED
        BY <2>1, <3>1, <3>3, MutexStep
    <2>4. QED
      BY <2>2, <2>3
  <1>8. QED
    BY <1>1, <1>2, <1>5, <1>6, <1>7 DEF Handle

\* Every action is of one of the kinds.
LEMMA KindOfStep ==
  ASSUME SchedType, CallType, QueuesOK, Next
  PROVE  QueueStep /\ CallType'
  <1>1. ASSUME NEW w \in Workers, WorkerStep(w) PROVE QueueStep /\ CallType'
    BY <1>1, KindOfSched, KindOfObjects, KindOfFE DEF WorkerStep
  <1>2. CASE Dispatch
    <2>1. \E w \in Workers : TRUE
      BY <1>2, TailDistinct DEF Dispatch, SchedType
    <2>2. QED
      BY <1>2, <2>1, KindOfSched
  <1>3. QED
    BY <1>1, <1>2, KindOfMessages, KindOfRemote DEF Next

\* Every step keeps the queues apart.
LEMMA QueuesStep ==
  ASSUME SchedType, CallType, QueuesOK, [Next]_vars
  PROVE  SchedType' /\ QueuesOK' /\ CallType'
  <1>1. CASE UNCHANGED vars
    BY <1>1 DEF vars, SchedType, CallType, QueuesOK, Apart, InCall, DelegateOK, Waiting
  <1>2. CASE Next
    BY <1>2, KindOfStep, QueuesKept
  <1>3. QED
    BY <1>1, <1>2

(***************************************************************************)
(* What a step may do to each object                                       *)
(***************************************************************************)
CallsEffect ==
    /\ used' = used
    /\ calls' = calls \/ (calls < MaxCalls[used] /\ calls' = calls + 1)

MutexEffect ==
    \/ UNCHANGED mutexVars
    \/ \E w \in Workers : ~lock_ /\ lock_' = TRUE /\ inside' = inside \cup {w}
    \/ \E w \in Workers : w \in inside /\ lock_' = FALSE /\ inside' = inside \ {w}

ListEffect ==
    \/ UNCHANGED listVars
    \/ list_ # << >> /\ list_' = Tail(list_) /\ sending' = sending \cup {Head(list_)}
    \/ \E m \in sending : list_' = <<m>> \o list_ /\ sending' = sending \ {m}

PoolEffect ==
    \/ UNCHANGED poolVars
    \/ \E w \in Workers : has[w] = 0 /\ ~(count_ - 1 < 0) /\ Pop(w)
    \/ \E w \in Workers :
         /\ has[w] # 0 /\ ptrs_' = [ptrs_ EXCEPT ![count_] = has[w]]
         /\ count_' = count_ + 1 /\ has' = [has EXCEPT ![w] = 0]

FullEmptyEffect ==
    \/ UNCHANGED feVars
    \/ state_ = "EMPTY" /\ state_' = "FULL" /\ unread' = unread + 1
    \/ state_ = "FULL" /\ state_' = "FULL" /\ unread' = unread
    \/ state_ = "FULL" /\ state_' = "EMPTY" /\ unread' = unread - 1
    \/ state_' = "EMPTY" /\ unread' = 0

EventEffect ==
    \/ count' = count
    \/ count > 0 /\ count' = count + 1 /\ calls' = calls + 1
    \/ count > 0 /\ count' = count - 1 /\ calls' = calls

\* A worker that waits leaves every object as it is.
LEMMA WaitEffect ==
  ASSUME NEW w, NEW k, wait(w, k)
  PROVE  UNCHANGED <<mutexVars, listVars, poolVars, feVars, count>>
  BY DEF wait, objectVars

\* The steps of a worker, object by object.
LEMMA WorkerEffects ==
  ASSUME NEW w \in Workers, WorkerStep(w), state_ \in {"EMPTY", "FULL"}, unread \in Int
  PROVE  CallsEffect /\ MutexEffect /\ ListEffect /\ PoolEffect /\ FullEmptyEffect /\ EventEffect
  <1> USE DEF CallsEffect, MutexEffect, ListEffect, PoolEffect, FullEmptyEffect, EventEffect
  <1>1. CASE thread_yield(w)
    BY <1>1 DEF thread_yield, objectVars
  <1>2. CASE Exit(w)
    BY <1>2 DEF Exit, objectVars
  <1>3. CASE lock(w)
    BY <1>3, WaitEffect DEF lock, Enters
  <1>4. CASE trylock(w)
    BY <1>4 DEF trylock, Calls
  <1>5. CASE unlock(w)
    BY <1>5 DEF unlock, GivesBack
  <1>6. CASE with_message(w)
    BY <1>6, WaitEffect DEF with_message, Enters
  <1>7. CASE block_until_pop(w)
    BY <1>7, WaitEffect DEF block_until_pop, Enters, WouldBlock
  <1>8. CASE try_pop(w)
    BY <1>8 DEF try_pop, Calls
  <1>9. CASE push(w)
    BY <1>9 DEF push, GivesBack
  <1>10. ASSUME NEW k \in {"writeEF", "writeFF", "readFF", "readFE"}, accessFE(w, k)
         PROVE  CallsEffect /\ MutexEffect /\ ListEffect /\ PoolEffect /\ FullEmptyEffect /\ EventEffect
    <2>1. CallsEffect
      BY <1>10 DEF accessFE, Enters
    <2>2. CASE NotYet(k)
      <3>1. wait(w, k)
        BY <1>10, <2>2 DEF accessFE
      <3>2. QED
        BY <2>1, <3>1, WaitEffect
    <2>3. CASE ~NotYet(k)
      <3>1. /\ state_' = IF k = "readFE" THEN "EMPTY" ELSE "FULL"
            /\ unread' = CASE k = "readFE" -> unread - 1
                           [] k = "readFF" -> unread
                           [] OTHER -> unread + StoredBy(k)
            /\ UNCHANGED <<mutexVars, listVars, poolVars, count>>
        BY <1>10, <2>3 DEF accessFE
      <3>2. state_ = IF k = "writeEF" THEN "EMPTY" ELSE "FULL"
        BY <2>3 DEF NotYet, Desired
      <3>3. CASE k = "writeEF"
        BY <2>1, <3>1, <3>2, <3>3 DEF StoredBy
      <3>4. CASE k = "writeFF"
        <4>1. StoredBy(k) = 0 /\ state_' = "FULL" /\ unread' = unread + StoredBy(k) /\ state_ = "FULL"
          BY <3>1, <3>2, <3>4 DEF StoredBy
        <4>2. QED
          BY <2>1, <3>1, <4>1
      <3>5. CASE k = "readFF"
        BY <2>1, <3>1, <3>2, <3>5
      <3>6. CASE k = "readFE"
        BY <2>1, <3>1, <3>2, <3>6
      <3>7. QED
        BY <3>3, <3>4, <3>5, <3>6
    <2>4. QED
      BY <2>2, <2>3
  <1>11. CASE writeXF(w)
    BY <1>11 DEF writeXF, Calls, StoredBy
  <1>12. CASE reset(w)
    BY <1>12 DEF reset, Calls
  <1>13. CASE ceWait(w)
    BY <1>13, WaitEffect DEF ceWait, Enters, objectVars
  <1>14. CASE enroll(w)
    BY <1>14 DEF enroll, Calls
  <1>15. QED
    BY <1>1, <1>2, <1>3, <1>4, <1>5, <1>6, <1>7, <1>8, <1>9, <1>10, <1>11, <1>12, <1>13, <1>14
       DEF WorkerStep

\* Every step, object by object.
LEMMA Effects ==
  ASSUME [Next]_vars, state_ \in {"EMPTY", "FULL"}, unread \in Int
  PROVE  CallsEffect /\ MutexEffect /\ ListEffect /\ PoolEffect /\ FullEmptyEffect /\ EventEffect
  <1> USE DEF CallsEffect, MutexEffect, ListEffect, PoolEffect, FullEmptyEffect, EventEffect
  <1>1. CASE UNCHANGED vars
    BY <1>1 DEF vars, objectVars
  <1>2. CASE Dispatch
    BY <1>2 DEF Dispatch, objectVars
  <1>3. ASSUME NEW m \in Messages, mark_sent(m)
        PROVE  CallsEffect /\ MutexEffect /\ ListEffect /\ PoolEffect /\ FullEmptyEffect /\ EventEffect
    BY <1>3 DEF mark_sent
  <1>4. CASE complete
    BY <1>4 DEF complete
  <1>5. ASSUME NEW r \in Remotes, (\E k \in RemoteCalls : RemoteCall(r, k)) \/ RemoteReturn(r)
        PROVE  CallsEffect /\ MutexEffect /\ ListEffect /\ PoolEffect /\ FullEmptyEffect /\ EventEffect
    BY <1>5 DEF RemoteCall, RemoteReturn, objectVars
  <1>6. ASSUME NEW r \in Remotes, Handle(r)
        PROVE  CallsEffect /\ MutexEffect /\ ListEffect /\ PoolEffect /\ FullEmptyEffect /\ EventEffect
    <2>1. CASE HandleReadFF(r)
      BY <2>1 DEF HandleReadFF, Handles, Suspend
    <2>2. CASE HandleWriteXF(r)
      BY <2>2 DEF HandleWriteXF, Handles, StoredBy
    <2>3. CASE HandleMutexCall(r)
      BY <2>3 DEF HandleMutexCall, Handles, Suspend
    <2>4. QED
      BY <1>6, <2>1, <2>2, <2>3 DEF Handle
  <1>7. QED
    BY <1>1, <1>2, <1>3, <1>4, <1>5, <1>6, WorkerEffects DEF Next

(***************************************************************************)
(* Each object keeps what it promises                                      *)
(***************************************************************************)
\* The bounds.
LEMMA Bounds ==
  /\ NumMessages \in Nat /\ PoolSize \in Nat /\ Enrolled \in Nat /\ FuncLocks \in BOOLEAN
  /\ \A u \in Programs : MaxCalls[u] \in Nat
  BY LocalSyncAssumption

\* The budget of calls and the count of the event.
LEMMA CallsKept ==
  ASSUME CallsOK, EventOK, CallsEffect, EventEffect
  PROVE  CallsOK' /\ EventOK'
  <1>1. MaxCalls[used] \in Nat /\ Enrolled \in Nat
    BY Bounds DEF CallsOK
  <1>2. QED
    BY <1>1 DEF CallsOK, EventOK, CallsEffect, EventEffect

\* The mutex has one holder.
LEMMA MutexKept ==
  ASSUME MutexType, MutexOK, MutexEffect
  PROVE  MutexType' /\ MutexOK'
  <1>1. CASE UNCHANGED mutexVars
    BY <1>1 DEF MutexType, MutexOK, mutexVars
  <1>2. ASSUME NEW w \in Workers, ~lock_, lock_' = TRUE, inside' = inside \cup {w}
        PROVE  MutexType' /\ MutexOK'
    <2>1. inside' = {w}
      BY <1>2 DEF MutexOK
    <2>2. QED
      BY <1>2, <2>1 DEF MutexType, MutexOK
  <1>3. ASSUME NEW w \in Workers, w \in inside, lock_' = FALSE, inside' = inside \ {w}
        PROVE  MutexType' /\ MutexOK'
    <2>1. inside' = {}
      BY <1>3 DEF MutexOK, MutexType
    <2>2. QED
      BY <1>3, <2>1 DEF MutexType, MutexOK
  <1>4. QED
    BY <1>1, <1>2, <1>3 DEF MutexEffect

\* A stored value is taken once.
LEMMA FullEmptyKept ==
  ASSUME FullEmptyOK, FullEmptyEffect
  PROVE  FullEmptyOK'
  BY DEF FullEmptyOK, FullEmptyEffect, feVars
\* A message leaves the list when it goes out and comes back once.
LEMMA ListKept ==
  ASSUME ListType, ListOK, ListFull, ListEffect
  PROVE  ListType' /\ ListOK' /\ ListFull'
  <1>1. IsFiniteSet(sending) /\ Cardinality(sending) \in Nat
    <2>1. IsFiniteSet(Messages)
      BY FS_Interval, Bounds DEF Messages
    <2>2. IsFiniteSet(sending)
      BY <2>1, FS_Subset DEF ListType
    <2>3. QED
      BY <2>2, FS_CardinalityType
  <1>2. CASE UNCHANGED listVars
    BY <1>2 DEF ListType, ListOK, ListFull, listVars
  <1>3. CASE list_ # << >> /\ list_' = Tail(list_) /\ sending' = sending \cup {Head(list_)}
    <2> DEFINE h == Head(list_)
               t == Tail(list_)
    <2>1. /\ h \in Messages /\ h \in ToSet(list_) /\ t \in Seq(Messages)
          /\ Len(t) = Len(list_) - 1 /\ Len(list_) \in Nat \ {0}
          /\ ToSet(list_) = ToSet(t) \cup {h} /\ Distinct(t) /\ h \notin ToSet(t)
      BY <1>3, TailDistinct DEF ListType, ListOK
    <2>2. list_' = t /\ sending' = sending \cup {h} /\ h \notin sending
      BY <1>3, <2>1 DEF ListOK
    <2> HIDE DEF h, t
    <2>3. Cardinality(sending \cup {h}) = Cardinality(sending) + 1
      BY <1>1, <2>2, FS_AddElement
    <2>4. ListType' /\ ListOK'
      BY <2>1, <2>2 DEF ListType, ListOK
    <2>5. ToSet(list_') \cup sending' = Messages
      BY <2>1, <2>2 DEF ListFull
    <2>6. Len(list_') + Cardinality(sending') = NumMessages
      BY <1>1, <2>1, <2>2, <2>3 DEF ListFull
    <2>7. QED
      BY <2>4, <2>5, <2>6 DEF ListFull
  <1>4. ASSUME NEW m \in sending, list_' = <<m>> \o list_, sending' = sending \ {m}
        PROVE  ListType' /\ ListOK' /\ ListFull'
    <2>1. m \in Messages /\ m \notin ToSet(list_) /\ list_ \in Seq(Messages) /\ Len(list_) \in Nat
      BY DEF ListType, ListOK
    <2> DEFINE t == <<m>> \o list_
    <2>2. /\ t \in Seq(Messages) /\ ToSet(t) = ToSet(list_) \cup {m} /\ Len(t) = Len(list_) + 1 /\ Distinct(t)
      BY <2>1, ConsDistinct DEF ListOK
    <2>3. list_' = t
      BY <1>4
    <2> HIDE DEF t
    <2>4. Cardinality(sending \ {m}) = Cardinality(sending) - 1
      BY <1>1, FS_RemoveElement
    <2>5. ListType' /\ ListOK'
      BY <1>4, <2>1, <2>2, <2>3 DEF ListType, ListOK
    <2>6. ToSet(list_') \cup sending' = Messages
      BY <1>4, <2>2, <2>3 DEF ListFull
    <2>7. Len(list_') + Cardinality(sending') = NumMessages
      BY <1>1, <1>4, <2>1, <2>2, <2>3, <2>4 DEF ListFull
    <2>8. QED
      BY <2>5, <2>6, <2>7 DEF ListFull
  <1>5. QED
    BY <1>2, <1>3, <1>4 DEF ListEffect

\* A buffer is taken from the top of the pool and put back there.
LEMMA PoolKept ==
  ASSUME PoolType, PoolFull, PoolEffect
  PROVE  PoolType' /\ PoolFull'
  <1>1. IsFiniteSet(Out) /\ Cardinality(Out) \in Nat /\ PoolSize \in Nat /\ count_ \in Nat
    <2>1. IsFiniteSet(Out)
      BY Names, FS_Subset DEF Out
    <2>2. QED
      BY <2>1, FS_CardinalityType, Bounds DEF PoolType
  <1>2. CASE UNCHANGED poolVars
    BY <1>2 DEF PoolType, PoolFull, poolVars, Out
  <1>3. ASSUME NEW w \in Workers, has[w] = 0, ~(count_ - 1 < 0), Pop(w)
        PROVE  PoolType' /\ PoolFull'
    <2> DEFINE b == ptrs_[count_ - 1]
    <2>1. /\ count_' = count_ - 1 /\ has' = [has EXCEPT ![w] = b] /\ ptrs_' = ptrs_
      BY <1>3 DEF Pop
    <2>2. count_ - 1 \in 0 .. PoolSize - 1
      BY <1>1, <1>3 DEF PoolType
    <2>3. b \in Buffers /\ b # 0
      <3>1. b \in Buffers
        BY <2>2 DEF PoolType
      <3>2. QED
        BY <3>1 DEF Buffers
    <2> HIDE DEF b
    <2>4. PoolType'
      <3>1. has' \in [Workers -> Buffers \cup {0}]
        BY <2>1, <2>3 DEF PoolType
      <3>2. count_' \in 0 .. PoolSize
        BY <1>1, <2>1, <2>2
      <3>3. QED
        BY <2>1, <3>1, <3>2 DEF PoolType
    <2>5. \A v \in Workers : has'[v] = IF v = w THEN b ELSE has[v]
      BY <2>1 DEF PoolType
    <2>6. Out' = Out \cup {w} /\ w \notin Out
      BY <1>3, <2>3, <2>5 DEF Out
    <2>7. Cardinality(Out') = Cardinality(Out) + 1
      BY <1>1, <2>6, FS_AddElement
    <2>8. count_' + Cardinality(Out') = PoolSize
      BY <1>1, <2>1, <2>7 DEF PoolFull
    <2>9. {ptrs_'[i] : i \in 0 .. count_' - 1} \cup {has'[v] : v \in Out'} = Buffers
      <3> DEFINE I == 0 .. count_ - 1
                 I1 == 0 .. count_' - 1
      <3>1. I = I1 \cup {count_ - 1}
        BY <1>1, <2>1, <2>2
      <3> HIDE DEF I, I1
      <3>2. {ptrs_[i] : i \in I} \cup {has[v] : v \in Out} = Buffers
        BY DEF PoolFull, I
      <3>3. {ptrs_[i] : i \in I} = {ptrs_[i] : i \in I1} \cup {b}
        BY <3>1 DEF b
      <3>4. {has'[v] : v \in Out'} = {has[v] : v \in Out} \cup {b}
        <4>1. \A v \in Out : v \in Workers /\ v # w
          BY <2>6 DEF Out
        <4>2. QED
          BY <2>5, <2>6, <4>1
      <3>5. {ptrs_'[i] : i \in I1} \cup {has'[v] : v \in Out'} = Buffers
        BY <2>1, <3>2, <3>3, <3>4
      <3>6. QED
        BY <3>5 DEF I1
    <2>10. QED
      BY <2>4, <2>8, <2>9 DEF PoolFull
  <1>4. ASSUME NEW w \in Workers, has[w] # 0, ptrs_' = [ptrs_ EXCEPT ![count_] = has[w]],
               count_' = count_ + 1, has' = [has EXCEPT ![w] = 0]
        PROVE  PoolType' /\ PoolFull'
    <2>1. w \in Out /\ has[w] \in Buffers
      BY <1>4 DEF Out, PoolType
    <2>2. \A v \in Workers : has'[v] = IF v = w THEN 0 ELSE has[v]
      BY <1>4 DEF PoolType
    <2>3. Out' = Out \ {w}
      BY <2>2 DEF Out
    <2>4. Cardinality(Out') = Cardinality(Out) - 1 /\ Cardinality(Out') \in Nat
      <3>1. IsFiniteSet(Out')
        BY <1>1, <2>3, FS_Subset
      <3>2. QED
        BY <1>1, <2>1, <2>3, <3>1, FS_RemoveElement, FS_CardinalityType
    <2>5. count_' + Cardinality(Out') = PoolSize /\ count_ \in 0 .. PoolSize - 1
      BY <1>1, <1>4, <2>4 DEF PoolFull
    <2>6. PoolType'
      <3>1. has' \in [Workers -> Buffers \cup {0}]
        BY <1>4 DEF PoolType
      <3>2. ptrs_' \in [0 .. PoolSize - 1 -> Buffers]
        BY <1>4, <2>1 DEF PoolType
      <3>3. count_' \in 0 .. PoolSize
        BY <1>1, <1>4, <2>5
      <3>4. QED
        BY <3>1, <3>2, <3>3 DEF PoolType
    <2>7. \A i \in 0 .. PoolSize - 1 : ptrs_'[i] = IF i = count_ THEN has[w] ELSE ptrs_[i]
      BY <1>4 DEF PoolType
    <2>8. {ptrs_'[i] : i \in 0 .. count_' - 1} \cup {has'[v] : v \in Out'} = Buffers
      <3> DEFINE I == 0 .. count_ - 1
                 I1 == 0 .. count_' - 1
      <3>1. /\ I1 = I \cup {count_} /\ count_ \notin I
            /\ \A i \in I1 : i \in 0 .. PoolSize - 1
        BY <1>1, <1>4, <2>5
      <3> HIDE DEF I, I1
      <3>2. {ptrs_[i] : i \in I} \cup {has[v] : v \in Out} = Buffers
        BY DEF PoolFull, I
      <3>3. {ptrs_'[i] : i \in I1} = {ptrs_[i] : i \in I} \cup {has[w]}
        <4>1. \A i \in I : ptrs_'[i] = ptrs_[i]
          BY <2>7, <3>1
        <4>2. ptrs_'[count_] = has[w]
          BY <2>7, <3>1
        <4>3. QED
          BY <3>1, <4>1, <4>2
      <3>4. {has[v] : v \in Out} = {has'[v] : v \in Out'} \cup {has[w]}
        <4>1. \A v \in Out' : v \in Workers /\ v # w
          BY <2>3 DEF Out
        <4>2. QED
          BY <2>1, <2>2, <2>3, <4>1
      <3>5. {ptrs_'[i] : i \in I1} \cup {has'[v] : v \in Out'} = Buffers
        BY <3>2, <3>3, <3>4
      <3>6. QED
        BY <3>5 DEF I1
    <2>9. QED
      BY <2>5, <2>6, <2>8 DEF PoolFull
  <1>5. QED
    BY <1>2, <1>3, <1>4 DEF PoolEffect
(***************************************************************************)
(* The invariant                                                           *)
(***************************************************************************)
\* The workers are all ready when the program starts, each once.
LEMMA SpawnedOK ==
  SetToSeq(Workers) \in Seq(Workers) /\ Distinct(SetToSeq(Workers))
  <1> DEFINE n == Cardinality(Workers)
  <1>1. n \in Nat /\ ExistsBijection(1 .. n, Workers)
    BY Names, FS_CardinalityType
  <1>2. \E f \in [1 .. n -> Workers] : IsInjective(f)
    BY <1>1 DEF ExistsBijection, Bijection, Injection
  <1>3. SetToSeq(Workers) \in [1 .. n -> Workers] /\ IsInjective(SetToSeq(Workers))
    BY <1>2 DEF SetToSeq
  <1> HIDE DEF n
  <1>4. SetToSeq(Workers) \in Seq(Workers)
    BY <1>1, <1>3
  <1>5. QED
    BY <1>3, <1>4 DEF Distinct, IsInjective

\* The queues when the program starts.
LEMMA InitQueues ==
  ASSUME Init
  PROVE  SchedType /\ QueuesOK /\ CallType
  <1>1. << >> \in Seq(Workers \cup Remotes) /\ Len(<< >>) = 0
    OBVIOUS
  <1>2. ToSet(<< >>) = {} /\ Distinct(<< >>)
    BY <1>1, InSeq, DistinctSeq
  <1>3. \A o \in Objects : waiters_[o] = << >>
    BY DEF Init
  <1>4. readyQ \in Seq(Workers) /\ Distinct(readyQ)
    BY SpawnedOK DEF Init
  <1>5. SchedType
    BY <1>1, <1>4 DEF Init, SchedType
  <1>6. CallType
    BY DEF Init, CallType
  <1>7. Apart
    <2>1. current_thread \notin ToSet(readyQ)
      BY <1>4, InSeq, Names DEF Init
    <2>2. \A o \in Objects : ToSet(waiters_[o]) = {} /\ Distinct(waiters_[o])
      BY <1>2, <1>3
    <2>3. QED
      BY <1>4, <2>1, <2>2 DEF Apart
  <1>8. \A w \in Workers : InCall(w)
    BY <1>2, <1>3 DEF InCall, Init
  <1>9. \A r \in Remotes : DelegateOK(r)
    BY <1>2, <1>3 DEF DelegateOK, Waiting, Init
  <1>10. QED
    BY <1>5, <1>6, <1>7, <1>8, <1>9 DEF QueuesOK

\* The objects when the program starts.
LEMMA InitObjects ==
  ASSUME Init
  PROVE  /\ CallsOK /\ MutexType /\ MutexOK /\ ListType /\ ListOK /\ ListFull
         /\ PoolType /\ PoolFull /\ FullEmptyOK /\ EventOK
  <1>1. CallsOK /\ EventOK
    <2>1. used \in Programs /\ MaxCalls[used] \in Nat /\ Enrolled \in Nat
      BY Bounds DEF Init
    <2>2. QED
      BY <2>1 DEF Init, CallsOK, EventOK
  <1>2. MutexType /\ MutexOK
    BY DEF Init, MutexType, MutexOK
  <1>3. ListType /\ ListOK /\ ListFull
    <2> DEFINE N == NumMessages
    <2>1. N \in Nat /\ list_ = [i \in 1 .. N |-> N + 1 - i] /\ sending = {}
      BY Bounds DEF Init, Messages
    <2>2. \A i \in 1 .. N : N + 1 - i \in 1 .. N /\ N + 1 - (N + 1 - i) = i
      BY <2>1
    <2>3. list_ \in [1 .. N -> 1 .. N]
      BY <2>1, <2>2
    <2>4. list_ \in Seq(Messages) /\ Len(list_) = N
      BY <2>1, <2>3 DEF Messages
    <2>5. \A j \in 1 .. N : list_[j] = N + 1 - j
      BY <2>1
    <2>6. Distinct(list_)
      <3>1. \A j, k \in 1 .. N : N + 1 - j = N + 1 - k => j = k
        BY <2>1
      <3>2. QED
        BY <2>4, <2>5, <3>1, DistinctSeq
    <2>7. ToSet(list_) = Messages
      <3>1. ASSUME NEW m \in Messages PROVE m \in ToSet(list_)
        <4>1. N + 1 - m \in 1 .. N /\ list_[N + 1 - m] = m
          BY <2>2, <2>5 DEF Messages
        <4>2. QED
          BY <2>4, <4>1, InSeq
      <3>2. QED
        BY <2>4, <3>1, InSeq
    <2>8. Cardinality(sending) = 0
      BY <2>1, FS_EmptySet
    <2>9. QED
      BY <2>1, <2>4, <2>6, <2>7, <2>8 DEF ListType, ListOK, ListFull
  <1>4. PoolType /\ PoolFull
    <2> DEFINE N == PoolSize
    <2>1. N \in Nat /\ count_ = N /\ ptrs_ = [i \in 0 .. N - 1 |-> i + 1] /\ has = [w \in Workers |-> 0]
      BY Bounds DEF Init
    <2>2. \A i \in 0 .. N - 1 : i + 1 \in Buffers
      BY <2>1 DEF Buffers
    <2>3. PoolType
      BY <2>1, <2>2 DEF PoolType
    <2>4. Out = {}
      BY <2>1 DEF Out
    <2>5. Cardinality(Out) = 0
      BY <2>4, FS_EmptySet
    <2>6. {ptrs_[i] : i \in 0 .. N - 1} = Buffers
      <3>1. ASSUME NEW b \in Buffers PROVE b - 1 \in 0 .. N - 1 /\ ptrs_[b - 1] = b
        BY <2>1 DEF Buffers
      <3>2. \A i \in 0 .. N - 1 : ptrs_[i] \in Buffers
        BY <2>1, <2>2
      <3>3. QED
        BY <3>1, <3>2
    <2>7. PoolFull
      BY <2>1, <2>4, <2>5, <2>6 DEF PoolFull
    <2>8. QED
      BY <2>3, <2>7
  <1>5. FullEmptyOK
    BY DEF Init, FullEmptyOK
  <1>6. QED
    BY <1>1, <1>2, <1>3, <1>4, <1>5

\* IInv is inductive.
LEMMA StepKeeps ==
  ASSUME IInv, [Next]_vars
  PROVE  IInv'
  <1>1. SchedType' /\ QueuesOK' /\ CallType'
    BY QueuesStep DEF IInv
  <1>2. CallsEffect /\ MutexEffect /\ ListEffect /\ PoolEffect /\ FullEmptyEffect /\ EventEffect
    BY Effects DEF IInv, FullEmptyOK
  <1>3. CallsOK' /\ EventOK'
    BY <1>2, CallsKept DEF IInv
  <1>4. MutexType' /\ MutexOK'
    BY <1>2, MutexKept DEF IInv
  <1>5. ListType' /\ ListOK' /\ ListFull'
    BY <1>2, ListKept DEF IInv
  <1>6. PoolType' /\ PoolFull'
    BY <1>2, PoolKept DEF IInv
  <1>7. FullEmptyOK'
    BY <1>2, FullEmptyKept DEF IInv
  <1>8. QED
    BY <1>1, <1>3, <1>4, <1>5, <1>6, <1>7 DEF IInv

\* The inductive invariant holds in every reachable state: nobody is in two
\* queues, whatever the workers, the handlers and the delegates do.
THEOREM SyncInvariant == Spec => []IInv
  <1>1. Init => IInv
    BY InitQueues, InitObjects DEF IInv
  <1>2. IInv /\ [Next]_vars => IInv'
    BY StepKeeps
  <1>3. QED
    BY <1>1, <1>2, PTL DEF Spec

\* The objects keep their types; in particular no delegate ever reaches readyQ
\* (the test of SuspendedDelegate in broadcast and signal) and the counts stay
\* in their bounds.
THEOREM TypeCorrect == Spec => []TypeOK
  <1>1. IInv => TypeOK
    <2> SUFFICES ASSUME IInv PROVE TypeOK
      OBVIOUS
    <2>2. QED
      BY DEF IInv, TypeOK, SchedType, CallType, CallsOK, MutexType, ListType, PoolType,
             FullEmptyOK, EventOK
  <1>2. QED
    BY <1>1, SyncInvariant, PTL

\* The mutex has one holder, every message and every buffer one place, and a
\* stored value is taken once.
THEOREM ObjectsExclusive == Spec => []Exclusive
  <1>1. IInv => Exclusive
    <2> SUFFICES ASSUME IInv PROVE Exclusive
      OBVIOUS
    <2>2. Cardinality(inside) = IF lock_ THEN 1 ELSE 0
      <3>1. CASE lock_
        BY <3>1, FS_Singleton DEF IInv, MutexOK
      <3>2. CASE ~lock_
        BY <3>2, FS_EmptySet DEF IInv, MutexOK
      <3>3. QED
        BY <3>1, <3>2
    <2>3. QED
      BY <2>2 DEF IInv, Exclusive, ListFull, PoolFull, Out, FullEmptyOK
  <1>2. QED
    BY <1>1, SyncInvariant, PTL

\* In a queue without repetitions nobody is more than once.
LEMMA OnceIn ==
  ASSUME NEW S, NEW s \in Seq(S), Distinct(s), NEW x
  PROVE  Cardinality({j \in DOMAIN s : s[j] = x}) = IF x \in ToSet(s) THEN 1 ELSE 0
  <1> DEFINE A == {j \in DOMAIN s : s[j] = x}
  <1>1. CASE x \in ToSet(s)
    <2>1. PICK j \in DOMAIN s : s[j] = x
      BY <1>1, InSeq
    <2>2. A = {j}
      BY <2>1 DEF Distinct
    <2>3. QED
      BY <1>1, <2>2, FS_Singleton
  <1>2. CASE x \notin ToSet(s)
    <2>1. A = {}
      BY <1>2, InSeq
    <2>2. QED
      BY <1>2, <2>1, FS_EmptySet
  <1>3. QED
    BY <1>1, <1>2

\* In how many wait lists x is.
LEMMA OnceWaiting ==
  ASSUME SchedType, Apart, NEW x
  PROVE  Cardinality(UNION {{<<o, j>> : j \in {k \in DOMAIN waiters_[o] : waiters_[o][k] = x}} :
                              o \in Objects})
           = IF \E o \in Objects : x \in ToSet(waiters_[o]) THEN 1 ELSE 0
  <1> DEFINE At(o) == {k \in DOMAIN waiters_[o] : waiters_[o][k] = x}
             B == UNION {{<<o, j>> : j \in At(o)} : o \in Objects}
  <1>1. \A p : p \in B <=> \E o \in Objects : \E j \in At(o) : p = <<o, j>>
    OBVIOUS
  <1>2. \A o \in Objects : At(o) # {} <=> x \in ToSet(waiters_[o])
    BY InSeq DEF SchedType
  <1>3. CASE \E o \in Objects : x \in ToSet(waiters_[o])
    <2>1. PICK o \in Objects : x \in ToSet(waiters_[o])
      BY <1>3
    <2>2. PICK j : j \in At(o)
      BY <1>2, <2>1
    <2>3. \A i \in At(o) : i = j
      BY <2>2 DEF Apart, Distinct
    <2>4. \A p \in Objects : p # o => x \notin ToSet(waiters_[p])
      BY <2>1 DEF Apart
    <2>5. \A p \in Objects : p # o => At(p) = {}
      BY <1>2, <2>4
    <2> HIDE DEF At
    <2>6. B = {<<o, j>>}
      BY <1>1, <2>2, <2>3, <2>5
    <2> HIDE DEF B
    <2>7. Cardinality(B) = 1
      BY <2>6, FS_Singleton
    <2>8. QED
      BY <1>3, <2>7 DEF B, At
  <1>4. CASE ~ \E o \in Objects : x \in ToSet(waiters_[o])
    <2>1. B = {}
      BY <1>1, <1>2, <1>4
    <2>2. Cardinality(B) = 0
      BY <2>1, FS_EmptySet
    <2>3. QED
      BY <1>4, <2>2
  <1>5. QED
    BY <1>3, <1>4

\* In how many places x is.
LEMMA PlacesOf ==
  ASSUME SchedType, Apart, NEW x
  PROVE  Places(x) = (IF x \in ToSet(readyQ) THEN 1 ELSE 0)
                     + (IF \E o \in Objects : x \in ToSet(waiters_[o]) THEN 1 ELSE 0)
  <1>1. Cardinality({j \in DOMAIN readyQ : readyQ[j] = x}) = IF x \in ToSet(readyQ) THEN 1 ELSE 0
    BY OnceIn DEF SchedType, Apart
  <1>2. QED
    BY <1>1, OnceWaiting DEF Places

\* A worker is in one queue or runs, a delegate is in a list exactly while its
\* caller has no reply: thread_wake's CHECK never fails.
THEOREM QueuedOnce == Spec => []OnePlace
  <1>1. IInv => OnePlace
    <2> SUFFICES ASSUME IInv PROVE OnePlace
      OBVIOUS
    <2>2. SchedType /\ Apart /\ QueuesOK
      BY DEF IInv, QueuesOK
    <2>3. ASSUME NEW w \in Workers
          PROVE  /\ Places(w) + (IF current_thread = w THEN 1 ELSE 0) <= 1
                 /\ op[w] # "none" => Places(w) = 1 \/ current_thread = w
      <3> DEFINE ready == w \in ToSet(readyQ)
                 waits == \E o \in Objects : w \in ToSet(waiters_[o])
      <3>1. Places(w) = (IF ready THEN 1 ELSE 0) + (IF waits THEN 1 ELSE 0)
        BY <2>2, PlacesOf
      <3>2. ~(ready /\ waits) /\ (current_thread = w => ~ready /\ ~waits)
        BY <2>2 DEF Apart
      <3>3. op[w] # "none" => current_thread = w \/ ready \/ waits
        BY <2>2 DEF QueuesOK, InCall
      <3> HIDE DEF ready, waits
      <3>4. QED
        BY <3>1, <3>2, <3>3
    <2>4. ASSUME NEW r \in Remotes
          PROVE  Places(r) = IF call[r].stage = "delegate" THEN 1 ELSE 0
      <3> DEFINE waits == \E o \in Objects : r \in ToSet(waiters_[o])
      <3>1. r \notin ToSet(readyQ)
        BY <2>2, Names, InSeq DEF SchedType
      <3>2. waits <=> call[r].stage = "delegate"
        BY <2>2 DEF QueuesOK, DelegateOK, Waiting
      <3>3. Places(r) = 0 + (IF waits THEN 1 ELSE 0)
        BY <2>2, <3>1, PlacesOf
      <3> HIDE DEF waits
      <3>4. QED
        BY <3>2, <3>3
    <2>5. QED
      BY <2>3, <2>4 DEF OnePlace
  <1>2. QED
    BY <1>1, SyncInvariant, PTL
(***************************************************************************)
(* No wake-up is lost                                                      *)
(***************************************************************************)
\* The step concerns object o only: the running worker, if any, is between two
\* calls or in a call on o.
Only(o) ==
    /\ \A p \in Objects \ {o} : waiters_'[p] = waiters_[p]
    /\ current_thread \in Workers =>
         op[current_thread] = "none" \/ ObjectOf(op[current_thread]) = o
    /\ o # "mutex" => UNCHANGED mutexVars
    /\ o # "list" => UNCHANGED listVars
    /\ o # "pool" => UNCHANGED poolVars
    /\ o # "fe" => UNCHANGED feVars
    /\ o # "ce" => UNCHANGED count

\* The step concerns no object.
Nothing ==
    /\ UNCHANGED <<waiters_, objectVars>>
    /\ \/ UNCHANGED <<op, current_thread, readyQ>>
       \/ current_thread \in Workers => op[current_thread] = "none"

MutexAct ==
    \/ \E w \in Workers : lock(w) \/ trylock(w) \/ unlock(w)
    \/ \E r \in Remotes : HandleMutexCall(r)
ListAct == (\E w \in Workers : with_message(w)) \/ (\E m \in Messages : mark_sent(m))
PoolAct == \E w \in Workers : block_until_pop(w) \/ try_pop(w) \/ push(w)
FullEmptyAct ==
    \/ \E w \in Workers : \/ \E k \in {"writeEF", "writeFF", "readFF", "readFE"} : accessFE(w, k)
                          \/ writeXF(w) \/ reset(w)
    \/ \E r \in Remotes : HandleReadFF(r) \/ HandleWriteXF(r)
EventAct == (\E w \in Workers : ceWait(w) \/ enroll(w)) \/ complete

\* A list that is changed by EXCEPT is the only one that changes.
LEMMA OnlyList ==
  ASSUME SchedType, NEW o \in Objects, NEW s, waiters_' = [waiters_ EXCEPT ![o] = s]
  PROVE  waiters_'[o] = s /\ \A p \in Objects \ {o} : waiters_'[p] = waiters_[p]
  BY DEF SchedType

\* The worker that enters a blocking call is in no other, and what wait changes.
LEMMA EntersOnly ==
  ASSUME SchedType, NEW w \in Workers, NEW k \in BlockingCalls, Enters(w, k)
  PROVE  /\ current_thread \in Workers =>
              op[current_thread] = "none" \/ ObjectOf(op[current_thread]) = ObjectOf(k)
         /\ wait(w, k) => /\ \A p \in Objects \ {ObjectOf(k)} : waiters_'[p] = waiters_[p]
                          /\ waiters_'[ObjectOf(k)] = <<w>> \o waiters_[ObjectOf(k)]
                          /\ UNCHANGED <<mutexVars, listVars, poolVars, feVars, count>>
                          /\ op' = [op EXCEPT ![w] = k]
  <1>1. current_thread = w /\ (op[w] = "none" \/ op[w] = k)
    BY DEF Enters
  <1>2. ASSUME wait(w, k)
        PROVE  /\ \A p \in Objects \ {ObjectOf(k)} : waiters_'[p] = waiters_[p]
               /\ waiters_'[ObjectOf(k)] = <<w>> \o waiters_[ObjectOf(k)]
               /\ op' = [op EXCEPT ![w] = k]
    <2>1. /\ ObjectOf(k) \in Objects /\ op' = [op EXCEPT ![w] = k]
          /\ waiters_' = [waiters_ EXCEPT ![ObjectOf(k)] = <<w>> \o waiters_[ObjectOf(k)]]
      BY <1>2, ObjectOfCall DEF wait, add_waiter
    <2>2. QED
      BY <2>1, OnlyList
  <1>3. QED
    BY <1>1, <1>2, WaitEffect

\* What broadcast and signal change.
LEMMA BroadcastOnly ==
  ASSUME SchedType, NEW o \in Objects, broadcast(o) \/ signal(o)
  PROVE  \A p \in Objects \ {o} : waiters_'[p] = waiters_[p]
  BY DEF SchedType, broadcast, signal

\* The actions of each object concern that object only.
LEMMA MutexOnly ==
  ASSUME SchedType, MutexAct
  PROVE  Only("mutex")
  <1>0. "mutex" \in Objects /\ "lock" \in BlockingCalls /\ ObjectOf("lock") = "mutex"
    BY ObjectOfCall DEF Objects, BlockingCalls
  <1>1. ASSUME NEW w \in Workers, lock(w) PROVE Only("mutex")
    BY <1>0, <1>1, EntersOnly DEF lock, Only
  <1>2. ASSUME NEW w \in Workers, trylock(w) PROVE Only("mutex")
    BY <1>2 DEF trylock, Calls, Only
  <1>3. ASSUME NEW w \in Workers, unlock(w) PROVE Only("mutex")
    <2>1. \A p \in Objects \ {"mutex"} : waiters_'[p] = waiters_[p]
      BY <1>0, <1>3, OnlyList DEF unlock, signalMutex
    <2>2. QED
      BY <1>3, <2>1 DEF unlock, GivesBack, Only
  <1>4. ASSUME NEW r \in Remotes, HandleMutexCall(r) PROVE Only("mutex")
    <2>1. \A p \in Objects \ {"mutex"} : waiters_'[p] = waiters_[p]
      BY <1>0, <1>4 DEF SchedType, HandleMutexCall, Suspend, add_waiter
    <2>2. QED
      BY <1>4, <2>1, Names DEF HandleMutexCall, Handles, Suspend, Only
  <1>5. QED
    BY <1>1, <1>2, <1>3, <1>4 DEF MutexAct

\* The list.
LEMMA ListOnly ==
  ASSUME SchedType, ListAct
  PROVE  Only("list")
  <1>0. /\ "list" \in Objects /\ "with_message" \in BlockingCalls
        /\ ObjectOf("with_message") = "list"
    BY ObjectOfCall DEF Objects, BlockingCalls
  <1>1. ASSUME NEW w \in Workers, with_message(w) PROVE Only("list")
    BY <1>0, <1>1, EntersOnly DEF with_message, Only
  <1>2. ASSUME NEW m \in Messages, mark_sent(m) PROVE Only("list")
    <2>1. \A p \in Objects \ {"list"} : waiters_'[p] = waiters_[p]
      BY <1>0, <1>2, BroadcastOnly DEF mark_sent
    <2>2. QED
      BY <1>2, <2>1, Names DEF mark_sent, Only
  <1>3. QED
    BY <1>1, <1>2 DEF ListAct

\* The pool.
LEMMA PoolOnly ==
  ASSUME SchedType, PoolAct
  PROVE  Only("pool")
  <1>0. /\ "pool" \in Objects /\ "block_until_pop" \in BlockingCalls
        /\ ObjectOf("block_until_pop") = "pool"
    BY ObjectOfCall DEF Objects, BlockingCalls
  <1>1. ASSUME NEW w \in Workers, block_until_pop(w) PROVE Only("pool")
    BY <1>0, <1>1, EntersOnly DEF block_until_pop, Only
  <1>2. ASSUME NEW w \in Workers, try_pop(w) PROVE Only("pool")
    BY <1>2 DEF try_pop, Calls, Only
  <1>3. ASSUME NEW w \in Workers, push(w) PROVE Only("pool")
    BY <1>0, <1>3, BroadcastOnly DEF push, GivesBack, Only
  <1>4. QED
    BY <1>1, <1>2, <1>3 DEF PoolAct

\* The FullEmpty.
LEMMA FullEmptyOnly ==
  ASSUME SchedType, FullEmptyAct
  PROVE  Only("fe")
  <1>0. "fe" \in Objects
    BY DEF Objects
  <1>1. ASSUME NEW w \in Workers, NEW k \in {"writeEF", "writeFF", "readFF", "readFE"}, accessFE(w, k)
        PROVE  Only("fe")
    <2>0. k \in BlockingCalls /\ ObjectOf(k) = "fe"
      BY ObjectOfCall DEF BlockingCalls
    <2>1. /\ Enters(w, k)
          /\ wait(w, k) \/ (broadcast("fe") /\ UNCHANGED <<mutexVars, listVars, poolVars, count>>)
      BY <1>1 DEF accessFE, broadcastFE
    <2>2. QED
      BY <1>0, <2>0, <2>1, EntersOnly, BroadcastOnly DEF Only
  <1>2. ASSUME NEW w \in Workers, writeXF(w) \/ reset(w) PROVE Only("fe")
    BY <1>0, <1>2, BroadcastOnly DEF writeXF, reset, broadcastFE, Calls, Only
  <1>3. ASSUME NEW r \in Remotes, HandleReadFF(r) \/ HandleWriteXF(r) PROVE Only("fe")
    <2>1. CASE broadcast("fe")
      BY <1>0, <1>3, <2>1, BroadcastOnly, Names DEF HandleReadFF, HandleWriteXF, Handles, Suspend, Only
    <2>2. CASE Suspend(r, "fe")
      BY <1>0, <1>3, <2>2, OnlyList, Names DEF HandleReadFF, HandleWriteXF, Handles, Suspend, add_waiter, Only
    <2>3. QED
      BY <1>3, <2>1, <2>2 DEF HandleReadFF, HandleWriteXF
  <1>4. QED
    BY <1>1, <1>2, <1>3 DEF FullEmptyAct

\* The event.
LEMMA EventOnly ==
  ASSUME SchedType, EventAct
  PROVE  Only("ce")
  <1>0. "ce" \in Objects /\ "wait" \in BlockingCalls /\ ObjectOf("wait") = "ce"
    BY ObjectOfCall DEF Objects, BlockingCalls
  <1>1. ASSUME NEW w \in Workers, ceWait(w) PROVE Only("ce")
    BY <1>0, <1>1, EntersOnly DEF ceWait, objectVars, Only
  <1>2. ASSUME NEW w \in Workers, enroll(w) PROVE Only("ce")
    BY <1>2 DEF enroll, Calls, Only
  <1>3. CASE complete
    BY <1>0, <1>3, BroadcastOnly, Names DEF complete, Only
  <1>4. QED
    BY <1>1, <1>2, <1>3 DEF EventAct

\* Every step concerns at most one object.
LEMMA StepTouches ==
  ASSUME SchedType, [Next]_vars
  PROVE  \/ Nothing
         \/ MutexAct /\ Only("mutex")
         \/ ListAct /\ Only("list")
         \/ PoolAct /\ Only("pool")
         \/ FullEmptyAct /\ Only("fe")
         \/ EventAct /\ Only("ce")
  <1>1. CASE UNCHANGED vars
    BY <1>1 DEF vars, Nothing
  <1>2. CASE Dispatch
    BY <1>2, Names DEF Dispatch, Nothing
  <1>3. ASSUME NEW w \in Workers, thread_yield(w) \/ Exit(w) PROVE Nothing
    BY <1>3 DEF thread_yield, Exit, Nothing
  <1>4. ASSUME NEW r \in Remotes, (\E k \in RemoteCalls : RemoteCall(r, k)) \/ RemoteReturn(r) PROVE Nothing
    BY <1>4 DEF RemoteCall, RemoteReturn, Nothing
  <1>5. Next => \/ Nothing \/ MutexAct \/ ListAct \/ PoolAct \/ FullEmptyAct \/ EventAct
    BY <1>2, <1>3, <1>4 DEF Next, WorkerStep, Handle, MutexAct, ListAct, PoolAct, FullEmptyAct, EventAct
  <1>6. QED
    BY <1>1, <1>5, MutexOnly, ListOnly, PoolOnly, FullEmptyOnly, EventOnly

\* Only the running worker's op changes.
LEMMA OpOthers ==
  ASSUME SchedType, QueueStep
  PROVE  \A w \in Workers : w # current_thread => op'[w] = op[w]
  BY OpSameOK DEF SchedType, QueueStep, Stays, Leaves, Comes, Waits, Wakes, Suspends

\* Who is ready stays so, or runs.
LEMMA ReadyStays ==
  ASSUME SchedType, QueueStep
  PROVE  \A w \in ToSet(readyQ) : w \in ToSet(readyQ') \/ current_thread' = w
  <1>1. readyQ \in Seq(Workers)
    BY DEF SchedType
  <1>2. CASE Stays \/ (\E k \in BlockingCalls : Waits(k))
             \/ \E r \in Remotes, o \in {"fe", "mutex"} : Suspends(r, o)
    BY <1>2 DEF Stays, Waits, Suspends
  <1>3. CASE Leaves
    <2>1. current_thread \in Workers /\ (readyQ' = readyQ \/ readyQ' = Append(readyQ, current_thread))
      BY <1>3 DEF Leaves
    <2>2. ToSet(Append(readyQ, current_thread)) = ToSet(readyQ) \cup {current_thread}
      BY <1>1, <2>1, AppendDistinct
    <2>3. QED
      BY <2>1, <2>2
  <1>4. CASE Comes
    BY <1>1, <1>4, TailDistinct DEF Comes
  <1>5. ASSUME NEW o \in Objects, NEW X, Wakes(o, X)
        PROVE  \A w \in ToSet(readyQ) : w \in ToSet(readyQ')
    BY <1>5 DEF Wakes, Moved
  <1>6. QED
    BY <1>2, <1>3, <1>4, <1>5 DEF QueueStep

\* Who was woken in a call stays so while nobody in that call runs.
LEMMA WokenStays ==
  ASSUME SchedType, QueueStep, NEW k \in BlockingCalls,
         current_thread \in Workers => op[current_thread] # k
  PROVE  WokenIn(k) \subseteq WokenIn(k)'
  <1>1. SUFFICES ASSUME NEW w \in Workers, op[w] = k, current_thread = w \/ w \in ToSet(readyQ)
                 PROVE  w \in WokenIn(k)'
    BY DEF WokenIn
  <1>2. w # current_thread /\ w \in ToSet(readyQ)
    BY <1>1
  <1>3. op'[w] = k
    BY <1>1, <1>2, OpOthers
  <1>4. w \in ToSet(readyQ') \/ current_thread' = w
    BY <1>2, ReadyStays
  <1>5. QED
    BY <1>3, <1>4 DEF WokenIn
\* The pool wakes everybody when a buffer comes back.
LEMMA PoolWakesKept ==
  ASSUME SchedType, PoolType, PoolWakes, [Next]_vars
  PROVE  PoolWakes'
  <1>1. count_ \in Nat
    BY Bounds DEF PoolType
  <1>2. CASE Nothing
    BY <1>2 DEF Nothing, objectVars, poolVars, PoolWakes
  <1>3. ASSUME NEW o \in Objects \ {"pool"}, Only(o) PROVE PoolWakes'
    BY <1>3 DEF Only, poolVars, PoolWakes, Objects
  <1>4. ASSUME PoolAct PROVE PoolWakes'
    <2>1. ASSUME NEW w \in Workers, block_until_pop(w) PROVE PoolWakes'
      <3>1. CASE WouldBlock
        <4>1. count_' = count_
          BY <2>1, <3>1 DEF block_until_pop, wait, objectVars, poolVars
        <4>2. QED
          BY <1>1, <3>1, <4>1 DEF WouldBlock, PoolWakes
      <3>2. CASE ~WouldBlock
        BY <1>1, <2>1, <3>2 DEF block_until_pop, WouldBlock, Pop, PoolWakes
      <3>3. QED
        BY <3>1, <3>2
    <2>2. ASSUME NEW w \in Workers, try_pop(w) PROVE PoolWakes'
      BY <1>1, <2>2 DEF try_pop, Pop, poolVars, PoolWakes
    <2>3. ASSUME NEW w \in Workers, push(w) PROVE PoolWakes'
      BY <2>3 DEF push, broadcast, SchedType, Objects, PoolWakes
    <2>4. QED
      BY <1>4, <2>1, <2>2, <2>3 DEF PoolAct
  <1>5. QED
    BY <1>2, <1>3, <1>4, StepTouches DEF Objects

\* The event wakes everybody when the last completion comes.
LEMMA EventWakesKept ==
  ASSUME SchedType, EventWakes, count \in Nat, [Next]_vars
  PROVE  EventWakes'
  <1>1. CASE Nothing
    BY <1>1 DEF Nothing, objectVars, EventWakes
  <1>2. ASSUME NEW o \in Objects \ {"ce"}, Only(o) PROVE EventWakes'
    BY <1>2 DEF Only, EventWakes, Objects
  <1>3. ASSUME EventAct PROVE EventWakes'
    <2>1. ASSUME NEW w \in Workers, ceWait(w) PROVE EventWakes'
      BY <2>1 DEF ceWait, wait, objectVars, EventWakes
    <2>2. ASSUME NEW w \in Workers, enroll(w) PROVE EventWakes'
      BY <2>2 DEF enroll, EventWakes
    <2>3. CASE complete
      <3>1. CASE count = 1
        BY <2>3, <3>1 DEF complete, broadcast, SchedType, Objects, EventWakes
      <3>2. CASE count # 1
        BY <2>3, <3>2 DEF complete, EventWakes
      <3>3. QED
        BY <3>1, <3>2
    <2>4. QED
      BY <1>3, <2>1, <2>2, <2>3 DEF EventAct
  <1>4. QED
    BY <1>1, <1>2, <1>3, StepTouches DEF Objects

\* What somebody in the list of the FullEmpty waits for.
Want(x) == IF x \in Workers THEN Desired(op[x]) ELSE "FULL"

\* The list and the state may change in these ways.
FullEmptyQueue ==
    \/ waiters_'["fe"] = waiters_["fe"] /\ state_' = state_
    \/ waiters_'["fe"] = << >>
    \/ \E w \in Workers : /\ waiters_'["fe"] = <<w>> \o waiters_["fe"]
                          /\ state_' = state_ /\ state_ # Desired(op'[w])
    \/ \E r \in Remotes : /\ waiters_'["fe"] = <<r>> \o waiters_["fe"]
                          /\ state_' = state_ /\ state_ # "FULL"

\* Every step is of one of these kinds.
LEMMA FullEmptyQueueOK ==
  ASSUME SchedType, FullEmptyOK, [Next]_vars
  PROVE  FullEmptyQueue
  <1>0. "fe" \in Objects
    BY DEF Objects
  <1>1. CASE Nothing
    BY <1>1 DEF Nothing, objectVars, feVars, FullEmptyQueue
  <1>2. ASSUME NEW o \in Objects \ {"fe"}, Only(o) PROVE FullEmptyQueue
    BY <1>2 DEF Only, feVars, FullEmptyQueue, Objects
  <1>3. ASSUME FullEmptyAct PROVE FullEmptyQueue
    <2>1. ASSUME broadcast("fe") PROVE FullEmptyQueue
      BY <1>0, <2>1 DEF broadcast, SchedType, FullEmptyQueue
    <2>2. ASSUME NEW w \in Workers, NEW k \in {"writeEF", "writeFF", "readFF", "readFE"}, accessFE(w, k)
          PROVE  FullEmptyQueue
      <3>0. k \in BlockingCalls /\ ObjectOf(k) = "fe"
        BY ObjectOfCall DEF BlockingCalls
      <3>1. CASE NotYet(k)
        <4>1. Enters(w, k) /\ wait(w, k)
          BY <2>2, <3>1 DEF accessFE
        <4>2. waiters_'["fe"] = <<w>> \o waiters_["fe"] /\ UNCHANGED feVars /\ op' = [op EXCEPT ![w] = k]
          BY <3>0, <4>1, EntersOnly
        <4>3. op'[w] = k
          BY <4>2 DEF SchedType
        <4>4. QED
          BY <3>1, <4>2, <4>3 DEF NotYet, feVars, FullEmptyQueue
      <3>2. CASE ~NotYet(k)
        BY <2>1, <2>2, <3>2 DEF accessFE, broadcastFE
      <3>3. QED
        BY <3>1, <3>2
    <2>3. ASSUME NEW w \in Workers, writeXF(w) PROVE FullEmptyQueue
      BY <2>1, <2>3 DEF writeXF, broadcastFE
    <2>4. ASSUME NEW w \in Workers, reset(w) PROVE FullEmptyQueue
      BY <2>4 DEF reset, FullEmptyQueue
    <2>5. ASSUME NEW r \in Remotes, HandleReadFF(r) PROVE FullEmptyQueue
      <3>1. CASE state_ = "FULL"
        BY <2>1, <2>5, <3>1 DEF HandleReadFF
      <3>2. CASE state_ # "FULL"
        <4>1. /\ waiters_' = [waiters_ EXCEPT !["fe"] = <<r>> \o waiters_["fe"]]
              /\ UNCHANGED feVars
          BY <2>5, <3>2 DEF HandleReadFF, Suspend, add_waiter
        <4>2. waiters_'["fe"] = <<r>> \o waiters_["fe"]
          BY <1>0, <4>1, OnlyList
        <4>3. QED
          BY <3>2, <4>1, <4>2 DEF feVars, FullEmptyQueue
      <3>3. QED
        BY <3>1, <3>2
    <2>6. ASSUME NEW r \in Remotes, HandleWriteXF(r) PROVE FullEmptyQueue
      BY <2>1, <2>6 DEF HandleWriteXF
    <2>7. QED
      BY <1>3, <2>2, <2>3, <2>4, <2>5, <2>6 DEF FullEmptyAct
  <1>4. QED
    BY <1>1, <1>2, <1>3, StepTouches DEF Objects

\* Nobody waits for the state that the FullEmpty has.
LEMMA FullEmptyWakesKept ==
  ASSUME SchedType, CallType, QueuesOK, FullEmptyOK, FullEmptyWakes, [Next]_vars
  PROVE  FullEmptyWakes'
  <1> DEFINE s == waiters_["fe"]
  <1>0. "fe" \in Objects
    BY DEF Objects
  <1>1. s \in Seq(Workers \cup Remotes)
    BY <1>0 DEF SchedType
  <1>2. \A x \in ToSet(s) : state_ # Want(x)
    BY DEF FullEmptyWakes, Want
  <1>3. \A w \in Workers : w # current_thread => op'[w] = op[w]
    <2>1. CASE UNCHANGED vars
      BY <2>1 DEF vars
    <2>2. CASE Next
      BY <2>2, KindOfStep, OpOthers
    <2>3. QED
      BY <2>1, <2>2
  <1>4. \A x \in ToSet(s) : x # current_thread
    BY <1>0 DEF QueuesOK, Apart
  <1>5. SUFFICES ASSUME NEW x \in ToSet(waiters_'["fe"])
                 PROVE  state_' # IF x \in Workers THEN Desired(op'[x]) ELSE "FULL"
    BY DEF FullEmptyWakes, Desired
  <1>6. ASSUME x \in ToSet(s), state_' = state_
        PROVE  state_' # IF x \in Workers THEN Desired(op'[x]) ELSE "FULL"
    <2>1. x \in Workers => op'[x] = op[x]
      BY <1>3, <1>4, <1>6
    <2>2. QED
      BY <1>2, <1>6, <2>1 DEF Want
  <1>7. CASE waiters_'["fe"] = s /\ state_' = state_
    BY <1>5, <1>6, <1>7
  <1>8. CASE waiters_'["fe"] = << >>
    <2>1. << >> \in Seq(Workers)
      OBVIOUS
    <2>2. ToSet(<< >>) = {}
      BY <2>1, InSeq
    <2>3. QED
      BY <1>5, <1>8, <2>2
  <1>9. ASSUME NEW w \in Workers, waiters_'["fe"] = <<w>> \o s, state_' = state_, state_ # Desired(op'[w])
        PROVE  state_' # IF x \in Workers THEN Desired(op'[x]) ELSE "FULL"
    <2>1. ToSet(<<w>> \o s) = ToSet(s) \cup {w}
      BY <1>1, ConsDistinct
    <2>2. QED
      BY <1>5, <1>6, <1>9, <2>1
  <1>10. ASSUME NEW r \in Remotes, waiters_'["fe"] = <<r>> \o s, state_' = state_, state_ # "FULL"
        PROVE  state_' # IF x \in Workers THEN Desired(op'[x]) ELSE "FULL"
    <2>1. ToSet(<<r>> \o s) = ToSet(s) \cup {r}
      BY <1>1, ConsDistinct
    <2>2. r \notin Workers
      BY Names
    <2>3. QED
      BY <1>5, <1>6, <1>10, <2>1, <2>2
  <1>11. QED
    BY <1>7, <1>8, <1>9, <1>10, FullEmptyQueueOK DEF FullEmptyQueue
\* The calls that wait for the mutex and for the list.
LEMMA CallOfObject ==
  /\ \A k \in BlockingCalls : ObjectOf(k) = "mutex" => k = "lock"
  /\ \A k \in BlockingCalls : ObjectOf(k) = "list" => k = "with_message"
  BY DEF BlockingCalls, ObjectOf

\* A step on another object leaves those who were woken.
LEMMA WokenKept ==
  ASSUME SchedType, CallType, QueuesOK, [Next]_vars, NEW k \in BlockingCalls,
         Nothing \/ \E o \in Objects : o # ObjectOf(k) /\ Only(o)
  PROVE  WokenIn(k) \subseteq WokenIn(k)'
  <1>1. CASE UNCHANGED <<op, current_thread, readyQ>>
    BY <1>1 DEF WokenIn
  <1>2. CASE Next /\ ~UNCHANGED <<op, current_thread, readyQ>>
    <2>1. current_thread \in Workers => op[current_thread] # k
      BY <1>2, ObjectOfCall DEF Nothing, Only
    <2>2. QED
      BY <1>2, <2>1, KindOfStep, WokenStays
  <1>3. QED
    BY <1>1, <1>2 DEF vars

\* The woken workers are finitely many.
LEMMA WokenFinite ==
  ASSUME NEW k
  PROVE  /\ IsFiniteSet(WokenIn(k)) /\ Cardinality(WokenIn(k)) \in Nat
         /\ IsFiniteSet(WokenIn(k)') /\ Cardinality(WokenIn(k)') \in Nat
  <1>1. WokenIn(k) \subseteq Workers /\ WokenIn(k)' \subseteq Workers
    BY DEF WokenIn
  <1>2. IsFiniteSet(WokenIn(k)) /\ IsFiniteSet(WokenIn(k)')
    BY <1>1, Names, FS_Subset
  <1>3. QED
    BY <1>2, FS_CardinalityType

\* As many of the list's waiters are woken as there are messages, or nobody
\* is left waiting.
LEMMA ListWakesKept ==
  ASSUME SchedType, CallType, QueuesOK, ListType, ListWakes, [Next]_vars
  PROVE  ListWakes'
  <1> DEFINE k == "with_message"
             W == WokenIn(k)
             V == WokenIn(k)'
  <1>0. /\ "list" \in Objects /\ k \in BlockingCalls /\ ObjectOf(k) = "list"
    BY ObjectOfCall DEF Objects, BlockingCalls
  <1>1. IsFiniteSet(W) /\ Cardinality(W) \in Nat /\ IsFiniteSet(V) /\ Cardinality(V) \in Nat
    BY WokenFinite
  <1>2. Len(list_) \in Nat /\ (waiters_["list"] # << >> => Len(list_) <= Cardinality(W))
    BY DEF ListType, ListWakes
  <1>3. SUFFICES waiters_'["list"] # << >> => Len(list_') <= Cardinality(V)
    BY DEF ListWakes
  <1>4. ASSUME Nothing \/ \E o \in Objects : o # "list" /\ Only(o)
        PROVE  waiters_'["list"] # << >> => Len(list_') <= Cardinality(V)
    <2>1. W \subseteq V
      BY <1>0, <1>4, WokenKept
    <2>2. waiters_'["list"] = waiters_["list"] /\ list_' = list_
      BY <1>0, <1>4 DEF Nothing, Only, objectVars, listVars
    <2> HIDE DEF W, V
    <2>3. Cardinality(W) <= Cardinality(V)
      BY <1>1, <2>1, FS_Subset
    <2>4. QED
      BY <1>1, <1>2, <2>2, <2>3
  <1>5. ASSUME NEW w \in Workers, with_message(w)
        PROVE  waiters_'["list"] # << >> => Len(list_') <= Cardinality(V)
    <2>1. CASE list_ = << >>
      <3>1. list_' = << >>
        BY <1>5, <2>1 DEF with_message, wait, objectVars, listVars
      <3>2. Len(list_') = 0
        BY <3>1
      <3>3. QED
        BY <1>1, <3>2
    <2>2. CASE list_ # << >>
      <3>1. list_' = Tail(list_) /\ Returns(w) /\ UNCHANGED <<readyQ, waiters_>>
        BY <1>5, <2>2 DEF with_message
      <3>2. Len(list_') = Len(list_) - 1
        BY <2>2, <3>1, TailDistinct DEF ListType
      <3>3. W \ {w} \subseteq V
        BY <3>1 DEF Returns, WokenIn, SchedType
      <3> HIDE DEF W, V
      <3>4. IsFiniteSet(W \ {w}) /\ Cardinality(W \ {w}) \in Nat /\ Cardinality(W) - 1 <= Cardinality(W \ {w})
        <4>1. CASE w \in W
          <5>1. IsFiniteSet(W \ {w}) /\ Cardinality(W \ {w}) = Cardinality(W) - 1
            BY <1>1, <4>1, FS_RemoveElement
          <5>2. QED
            BY <1>1, <5>1, FS_CardinalityType
        <4>2. CASE w \notin W
          <5>1. W \ {w} = W
            BY <4>2
          <5>2. QED
            BY <1>1, <5>1
        <4>3. QED
          BY <4>1, <4>2
      <3>5. Cardinality(W \ {w}) <= Cardinality(V)
        BY <1>1, <3>3, FS_Subset
      <3>6. QED
        BY <1>1, <1>2, <3>1, <3>2, <3>4, <3>5
    <2>3. QED
      BY <2>1, <2>2
  <1>6. ASSUME NEW m \in Messages, mark_sent(m)
        PROVE  waiters_'["list"] # << >> => Len(list_') <= Cardinality(V)
    <2> DEFINE s == waiters_["list"]
               h == Head(s)
    <2>1. list_' = <<m>> \o list_ /\ signal("list") /\ UNCHANGED <<op, current_thread>>
      BY <1>6 DEF mark_sent
    <2>2. Len(list_') = Len(list_) + 1
      BY <2>1, ConsDistinct DEF ListType
    <2>3. CASE s = << >>
      BY <2>1, <2>3 DEF signal
    <2>4. CASE s # << >>
      <3>1. s \in Seq(Workers \cup Remotes) /\ ToSet(s) \subseteq Workers
        BY <1>0, NoDelegates DEF SchedType
      <3>2. h \in ToSet(s) /\ h \in Workers
        BY <2>4, <3>1, TailDistinct
      <3>3. op[h] = k
        <4>1. op[h] \in BlockingCalls /\ ObjectOf(op[h]) = "list"
          BY <1>0, <3>2 DEF QueuesOK, InCall, SchedType
        <4>2. QED
          BY <4>1, CallOfObject
      <3>4. h \notin W
        BY <1>0, <3>2 DEF WokenIn, QueuesOK, Apart
      <3>5. ToSet(readyQ') = ToSet(readyQ) \cup {h}
        <4>1. readyQ' = Append(readyQ, h) /\ readyQ \in Seq(Workers)
          BY <2>1, <2>4 DEF signal, SchedType
        <4>2. QED
          BY <3>2, <4>1, AppendDistinct
      <3>6. W \cup {h} \subseteq V
        BY <2>1, <3>2, <3>3, <3>5 DEF WokenIn
      <3> HIDE DEF W, V, h
      <3>7. IsFiniteSet(W \cup {h}) /\ Cardinality(W \cup {h}) = Cardinality(W) + 1
        BY <1>1, <3>4, FS_AddElement
      <3>8. Cardinality(W \cup {h}) <= Cardinality(V)
        BY <1>1, <3>6, FS_Subset
      <3>9. QED
        BY <1>1, <1>2, <2>2, <2>4, <3>7, <3>8
    <2>5. QED
      BY <2>3, <2>4
  <1>7. QED
    BY <1>0, <1>4, <1>5, <1>6, StepTouches DEF ListAct, Objects

\* The first n who wait for the mutex are taken from its list, where n stops
\* at a worker: if anybody is left, a worker in lock has been woken.
LEMMA MutexWoken ==
  ASSUME SchedType, QueuesOK, FuncLocks, NEW n, n = Woken(waiters_["mutex"]), op' = op,
         waiters_' = [waiters_ EXCEPT !["mutex"] =
                        SubSeq(waiters_["mutex"], n + 1, Len(waiters_["mutex"]))],
         readyQ' = readyQ \o WorkersIn(SubSeq(waiters_["mutex"], 1, n)),
         waiters_'["mutex"] # << >>
  PROVE  WokenIn("lock")' # {}
  <1> DEFINE s == waiters_["mutex"]
             a == SubSeq(s, 1, n)
  <1>0. "mutex" \in Objects
    BY DEF Objects
  <1>1. s \in Seq(Workers \cup Remotes) /\ Len(s) \in Nat
    BY <1>0 DEF SchedType
  <1>2. n \in 0 .. Len(s)
    BY <1>1, WokenOK
  <1>3. n # Len(s)
    <2>1. SUFFICES ASSUME n = Len(s) PROVE FALSE
      OBVIOUS
    <2>2. Len(s) < Len(s) + 1 /\ Len(s) + 1 \in Int /\ Len(s) \in Int
      BY <1>1
    <2>3. SubSeq(s, n + 1, Len(s)) = << >>
      BY <2>1, <2>2, SubSeqEmpty
    <2>4. QED
      BY <1>0, <2>3 DEF SchedType
  <1>4. n \in 1 .. Len(s) /\ s[n] \in Workers
    BY <1>1, <1>3, WokenOK
  <1> DEFINE w == s[n]
  <1>5. w \in ToSet(s)
    BY <1>1, <1>4, InSeq
  <1>6. w \in ToSet(a)
    <2>1. n \in 1 .. n
      BY <1>4
    <2>2. QED
      BY <1>1, <1>2, <2>1, SplitDistinct
  <1>7. Moved("mutex", ToSet(a))
    BY <1>0, <1>2, WakeFirst DEF QueuesOK
  <1>8. w \in ToSet(readyQ')
    BY <1>4, <1>6, <1>7 DEF Moved
  <1>9. op[w] = "lock"
    <2>1. op[w] \in BlockingCalls /\ ObjectOf(op[w]) = "mutex"
      BY <1>0, <1>4, <1>5 DEF QueuesOK, InCall, SchedType
    <2>2. QED
      BY <2>1, CallOfObject
  <1> HIDE DEF w
  <1>10. w \in Workers
    BY <1>4 DEF w
  <1>11. QED
    BY <1>8, <1>9, <1>10 DEF WokenIn

\* Whoever waits for a free mutex has somebody woken before him.
LEMMA MutexWakesKept ==
  ASSUME SchedType, CallType, QueuesOK, MutexType, MutexWakes, FuncLocks, [Next]_vars
  PROVE  MutexWakes'
  <1>0. /\ "mutex" \in Objects /\ "lock" \in BlockingCalls /\ ObjectOf("lock") = "mutex"
    BY ObjectOfCall DEF Objects, BlockingCalls
  <1>1. ASSUME Nothing \/ \E o \in Objects : o # "mutex" /\ Only(o) PROVE MutexWakes'
    <2>1. WokenIn("lock") \subseteq WokenIn("lock")'
      BY <1>0, <1>1, WokenKept
    <2>2. waiters_'["mutex"] = waiters_["mutex"] /\ lock_' = lock_
      BY <1>0, <1>1 DEF Nothing, Only, objectVars, mutexVars
    <2>3. QED
      BY <2>1, <2>2 DEF MutexWakes
  <1>2. ASSUME NEW w \in Workers, lock(w) PROVE MutexWakes'
    BY <1>2 DEF lock, wait, objectVars, mutexVars, MutexWakes, MutexType
  <1>3. ASSUME NEW w \in Workers, trylock(w) PROVE MutexWakes'
    BY <1>3 DEF trylock, mutexVars, MutexWakes, MutexType
  <1>4. ASSUME NEW w \in Workers, unlock(w) PROVE MutexWakes'
    <2> DEFINE s == waiters_["mutex"]
               n == Woken(s)
    <2>1. /\ waiters_' = [waiters_ EXCEPT !["mutex"] = SubSeq(s, n + 1, Len(s))]
          /\ readyQ' = readyQ \o WorkersIn(SubSeq(s, 1, n)) /\ op' = op
      BY <1>4 DEF unlock, GivesBack, signalMutex
    <2>2. waiters_'["mutex"] # << >> => WokenIn("lock")' # {}
      BY <2>1, MutexWoken
    <2>3. QED
      BY <2>2 DEF MutexWakes
  <1>5. ASSUME NEW r \in Remotes, HandleMutexCall(r) PROVE MutexWakes'
    <2>1. CASE lock_
      BY <1>5, <2>1 DEF HandleMutexCall, Suspend, mutexVars, MutexWakes
    <2>2. CASE ~lock_
      <3> DEFINE s == waiters_["mutex"]
                 n == Woken(s)
      <3>1. /\ waiters_' = [waiters_ EXCEPT !["mutex"] = SubSeq(s, n + 1, Len(s))]
            /\ readyQ' = readyQ \o WorkersIn(SubSeq(s, 1, n)) /\ op' = op
        BY <1>5, <2>2 DEF HandleMutexCall, Handles
      <3>2. waiters_'["mutex"] # << >> => WokenIn("lock")' # {}
        BY <3>1, MutexWoken
      <3>3. QED
        BY <3>2 DEF MutexWakes
    <2>3. QED
      BY <2>1, <2>2
  <1>6. QED
    BY <1>0, <1>1, <1>2, <1>3, <1>4, <1>5, StepTouches DEF MutexAct, Objects

\* What holds of the wake-ups whatever func does; NoLostWakeup when it locks.
Wakeups ==
    /\ FuncLocks => MutexWakes
    /\ ListWakes /\ PoolWakes /\ FullEmptyWakes /\ EventWakes

\* Nobody sleeps on a condition that holds unless a wake-up is under way, for
\* any program, in spite of barging and spurious wake-ups; for the mutex this
\* rests on func, which must lock and unlock it.
THEOREM WakeupsHold == Spec => []Wakeups
  <1>1. Init => Wakeups
    <2> SUFFICES ASSUME Init PROVE Wakeups
      OBVIOUS
    <2>1. \A o \in Objects : waiters_[o] = << >>
      BY DEF Init
    <2>2. << >> \in Seq(Workers)
      OBVIOUS
    <2>3. ToSet(<< >>) = {}
      BY <2>2, InSeq
    <2>4. QED
      BY <2>1, <2>3 DEF Wakeups, MutexWakes, ListWakes, PoolWakes, FullEmptyWakes, EventWakes, Objects
  <1>2. IInv /\ Wakeups /\ [Next]_vars => Wakeups'
    <2> SUFFICES ASSUME IInv, Wakeups, [Next]_vars PROVE Wakeups'
      OBVIOUS
    <2>1. ASSUME FuncLocks PROVE MutexWakes'
      BY <2>1, MutexWakesKept DEF IInv, Wakeups
    <2>2. ListWakes'
      BY ListWakesKept DEF IInv, Wakeups
    <2>3. PoolWakes'
      BY PoolWakesKept DEF IInv, Wakeups
    <2>4. FullEmptyWakes'
      BY FullEmptyWakesKept DEF IInv, Wakeups
    <2>5. EventWakes'
      <3>1. count \in Nat
        BY Bounds DEF IInv, EventOK, CallsOK
      <3>2. QED
        BY <3>1, EventWakesKept DEF IInv, Wakeups
    <2>6. QED
      BY <2>1, <2>2, <2>3, <2>4, <2>5 DEF Wakeups
  <1>3. QED
    BY <1>1, <1>2, SyncInvariant, PTL DEF Spec

\* With such a func no wake-up is lost at all.
THEOREM WakeupsNeverLost ==
  ASSUME FuncLocks
  PROVE  Spec => []NoLostWakeup
  <1>1. Wakeups => NoLostWakeup
    BY DEF Wakeups, NoLostWakeup
  <1>2. QED
    BY <1>1, WakeupsHold, PTL

=========================================================================

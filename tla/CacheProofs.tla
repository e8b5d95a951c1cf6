-------------------------- MODULE CacheProofs --------------------------
(***************************************************************************)
(* Proofs about Cache, for every size of a block and of an element, every  *)
(* memory and every set of ranges.                                         *)
(***************************************************************************)
EXTENDS Cache, FiniteSetTheorems, TLAPS

(***************************************************************************)
(* The inductive invariant                                                 *)
(***************************************************************************)
\* Of the messages M, those of one side; the bytes that a message stands for.
OutOf(M, side) == {m \in M : m.side = side}
Part(m) == m.offset .. m.offset + m.bytes - 1

\* What is due to a side of a cache of range r is among the messages M, or has
\* been counted.
SideInv(M, r, side, s) ==
    /\ SideOK(s) /\ s.num = NumMessages(r) /\ s.resp <= s.num
    /\ s.done => s.started
    /\ ~s.started => s.resp = 0
    /\ IsFiniteSet(OutOf(M, side))
    /\ s.started /\ ~s.done => Cardinality(OutOf(M, side)) + s.resp = s.num
    /\ s.done \/ ~s.started => OutOf(M, side) = {}

\* A message is one of those that the loop sends for the present range, and no
\* other one of its side has its offset.
MsgOK(m, r) ==
    /\ m.side \in {"acquire", "release"} /\ m.stage \in {"request", "reply"}
    /\ m.offset \in Offsets(r)
    /\ m = [side |-> m.side, stage |-> m.stage, offset |-> m.offset,
            bytes |-> request_bytes(r, m.offset)]
MsgsOK(M, r) ==
    /\ \A m \in M : MsgOK(m, r)
    /\ \A m, n \in M : m.side = n.side /\ m.offset = n.offset => m = n

\* The task's side: what it has begun and what it may have done by then.
ControlType ==
    /\ kind \in Kinds /\ range \in Ranges /\ target \in Ranges
    /\ thread_ \in {"none", "acquire", "release"}
    /\ goal \in {"none", "reset", "destroy", "destroyed"} /\ resets \in 0 .. MaxResets
    /\ wrote \in BOOLEAN
ControlOK ==
    /\ goal = "reset" => range \in ResetRanges /\ target \in ResetRanges /\ resets < MaxResets
    /\ kind = "RO" => ~wrote /\ (rel.started => rel.done)
    /\ kind = "WO" => acq.done
    /\ wrote => acq.done
    /\ rel.started /\ ~rel.done => acq.done /\ (kind = "WO" => wrote \/ range.count = 0)
    /\ ShortCircuit(range) => acq.done /\ (kind # "RO" => rel.done)

IInv ==
    /\ ControlType /\ ControlOK /\ MsgsOK(msgs, range)
    /\ SideInv(msgs, range, "acquire", acq) /\ SideInv(msgs, range, "release", rel)

\* A cache is only reset from and to ranges that have elements, are not objects
\* of this core and fit in the buffer it was created with: reset leaves pointer_
\* where it was, and makes no larger buffer.
ResetsFit == ~MayGrow /\ \A r \in ResetRanges : r.count > 0 /\ ~ShortCircuit(r)

DataType ==
    /\ storage \in [0 .. MemSize - 1 -> Int]
    /\ mem \in [Cells -> Int] /\ intended \in [Cells -> Int]

PointerOK == pointer_ = AfterReset(kind, range, [to |-> "storage"])

\* The k-th byte of the range.
Cell(k) == <<range.address.core, range.address.at + k>>

\* Once the acquire has started, a byte is in the storage or under way to it.
AcquireOK ==
    kind # "WO" /\ ~wrote /\ acq.started /\ ~ShortCircuit(range) =>
        \A k \in 0 .. Bytes(range) - 1 :
            \/ \E m \in msgs : m.side = "acquire" /\ k \in Part(m)
            \/ storage[k] = mem[Cell(k)]

\* What has been written is in the storage; once the release has started, it is
\* in memory or under way to it.
WriteOK ==
    wrote /\ ~ShortCircuit(range) =>
        \A k \in 0 .. Bytes(range) - 1 :
            /\ storage[k] = intended[Cell(k)]
            /\ rel.started =>
                 \/ \E m \in msgs : m.side = "release" /\ m.stage = "request" /\ k \in Part(m)
                 \/ storage[k] = mem[Cell(k)]

\* Nothing else is hit.
ElsewhereOK ==
    \A c \in Cells :
        c \notin CellsOf(range) \/ ~wrote \/ ShortCircuit(range) => mem[c] = intended[c]

\* The range fits in the buffer, and the one that a reset goes to; what lies
\* behind the buffer is as its owners left it.
BufferOK ==
    /\ allocated \in Nat /\ Bytes(range) <= allocated
    /\ goal = "reset" => Bytes(target) <= allocated
    /\ BufferKept

Data == DataType /\ PointerOK /\ AcquireOK /\ WriteOK /\ ElsewhereOK

(***************************************************************************)
(* Arithmetic of blocks                                                    *)
(***************************************************************************)
\* A number is a multiple of the block size and a remainder.
LEMMA DivMod ==
  ASSUME NEW b \in Nat, NEW s \in Nat \ {0}
  PROVE  b = s * (b \div s) + (b % s) /\ b % s \in 0 .. s - 1 /\ b \div s \in Nat
  OBVIOUS

\* Blocks do not overlap.
LEMMA NextBlock ==
  ASSUME NEW q \in Int, NEW p \in Int, NEW s \in Nat \ {0}, q < p
  PROVE  s * q + s <= s * p
  OBVIOUS

\* A block is at least as long as its number of bytes.
LEMMA Grows ==
  ASSUME NEW x \in Nat, NEW s \in Nat \ {0}
  PROVE  x <= s * x
  OBVIOUS

\* A product grows by the block size, and distributes.
LEMMA Products ==
  ASSUME NEW q \in Int, NEW p \in Int, NEW s \in Int
  PROVE  s * q \in Int /\ s * (q + 1) = s * q + s /\ s * (q - p) = s * q - s * p
  OBVIOUS

\* Division undoes multiplication.
LEMMA Quotient ==
  ASSUME NEW q \in Int, NEW s \in Nat \ {0}
  PROVE  (s * q) \div s = q
  OBVIOUS

\* The block of a byte is the one whose bounds it lies between.
LEMMA BlockOf ==
  ASSUME NEW b \in Nat, NEW s \in Nat \ {0}, NEW q \in Int, s * q <= b, b < s * q + s
  PROVE  b \div s = q /\ b % s = b - s * q
  <1> DEFINE p == b \div s
  <1>1. b = s * p + (b % s) /\ b % s \in 0 .. s - 1 /\ p \in Nat
    BY DivMod
  <1>2. s * p \in Int /\ s * q \in Int
    BY <1>1
  <1> HIDE DEF p
  <1>3. CASE p < q
    <2>1. s * p + s <= s * q
      BY <1>1, <1>3, NextBlock
    <2>2. QED
      BY <1>1, <1>2, <2>1
  <1>4. CASE p > q
    <2>1. s * q + s <= s * p
      BY <1>1, <1>4, NextBlock
    <2>2. QED
      BY <1>1, <1>2, <2>1
  <1>5. CASE p = q
    BY <1>1, <1>2, <1>5 DEF p
  <1>6. QED
    BY <1>1, <1>3, <1>4, <1>5

\* The bounds of a byte's block.
LEMMA Bounds ==
  ASSUME NEW b \in Nat
  PROVE  /\ block_size \in Nat \ {0} /\ b \div block_size \in Nat
         /\ block_size * (b \div block_size) \in Int
         /\ block_min(b) = block_size * (b \div block_size)
         /\ block_max(b) = block_size * (b \div block_size) + block_size
         /\ block_min(b) <= b /\ b < block_max(b)
  <1> DEFINE s == block_size
             q == b \div s
  <1>1. s \in Nat \ {0}
    BY CacheAssumption
  <1>2. b = s * q + (b % s) /\ b % s \in 0 .. s - 1 /\ q \in Nat
    BY <1>1, DivMod
  <1>3. s * q \in Int
    BY <1>1, <1>2
  <1> DEFINE t == s * q
             u == b % s
  <1>4. block_min(b) = b - u /\ block_max(b) = b + 1 + s - (u + 1)
    BY DEF block_min, block_max
  <1>5. t \in Int /\ b = t + u /\ u \in 0 .. s - 1
    BY <1>2, <1>3
  <1> HIDE DEF t, u
  <1>6. block_min(b) = t /\ block_max(b) = t + s /\ t <= b /\ b < t + s
    BY <1>1, <1>4, <1>5
  <1>7. QED
    BY <1>1, <1>2, <1>3, <1>6 DEF t

\* The bytes up to the end of a byte's block are in the same block.
LEMMA SameBlock ==
  ASSUME NEW b \in Nat, NEW c \in Nat, b <= c, c < block_max(b)
  PROVE  block_min(c) = block_min(b)
  <1> DEFINE q == b \div block_size
  <1>1. /\ block_size \in Nat \ {0} /\ q \in Nat /\ block_size * q \in Int
        /\ block_min(b) = block_size * q /\ block_max(b) = block_size * q + block_size
        /\ block_min(b) <= b
    BY Bounds
  <1> HIDE DEF q
  <1>2. block_size * q <= c /\ c < block_size * q + block_size
    BY <1>1
  <1>3. c \div block_size = q
    <2>1. q \in Int /\ block_size \in Nat \ {0}
      BY <1>1
    <2>2. QED
      BY <1>2, <2>1, BlockOf
  <1>4. QED
    BY <1>1, <1>3, Bounds

(***************************************************************************)
(* The loop of do_acquire and do_release                                   *)
(***************************************************************************)
\* The parts of a range.
LEMMA RangeOK ==
  ASSUME NEW r \in Ranges
  PROVE  /\ r.address.at \in 0 .. MemSize - 1 /\ r.address.core \in Cores \cup {Linear}
         /\ r.count \in Nat /\ Bytes(r) \in Nat /\ (Bytes(r) = 0 <=> r.count = 0)
         /\ r.address.at + Bytes(r) <= MemSize /\ MemSize \in Nat \ {0}
         /\ r.address \in Addresses
  <1>1. r \in [address : Addresses, count : Nat] /\ MemSize \in Nat \ {0}
    BY CacheAssumption
  <1>2. r.address \in Addresses /\ r.count \in Nat
    BY <1>1
  <1>3. r.address.at \in 0 .. MemSize - 1 /\ r.address.core \in Cores \cup {Linear}
    BY <1>2 DEF Addresses
  <1>4. r.address.at + Bytes(r) <= MemSize
    BY CacheAssumption
  <1>5. Bytes(r) \in Nat /\ (Bytes(r) = 0 <=> r.count = 0)
    <2>1. SizeT \in Nat \ {0}
      BY CacheAssumption
    <2>2. \A x \in Nat, y \in Nat \ {0} : x * y \in Nat /\ (x * y = 0 <=> x = 0)
      OBVIOUS
    <2>3. QED
      BY <1>2, <2>1, <2>2 DEF Bytes
  <1>6. QED
    BY <1>1, <1>2, <1>3, <1>4, <1>5

\* A message asks for at least a byte and stays within the range; of linear
\* memory it asks up to the end of the block, or of the range.
LEMMA RequestOK ==
  ASSUME NEW r \in Ranges, NEW x \in 0 .. Bytes(r) - 1
  PROVE  /\ request_bytes(r, x) \in Nat \ {0} /\ x + request_bytes(r, x) <= Bytes(r)
         /\ is_2D(r.address) => x + request_bytes(r, x) = Bytes(r)
         /\ ~is_2D(r.address) =>
              LET e == block_max(r.address.at + x) - r.address.at IN
              /\ x + request_bytes(r, x) = IF e < Bytes(r) THEN e ELSE Bytes(r)
              /\ r.address.at + x + request_bytes(r, x) <= block_max(r.address.at + x)
  <1> DEFINE a == r.address.at
             B == Bytes(r)
             M == block_max(a + x)
  <1>1. a \in Nat /\ B \in Nat /\ x \in Nat /\ x < B
    BY RangeOK
  <1>2. a + x \in Nat
    BY <1>1
  <1>3. M \in Int /\ a + x < M
    <2> DEFINE b == a + x
    <2>1. b \in Nat
      BY <1>2
    <2> HIDE DEF b
    <2>2. /\ block_size \in Nat \ {0} /\ block_size * (b \div block_size) \in Int
          /\ block_max(b) = block_size * (b \div block_size) + block_size /\ b < block_max(b)
      BY <2>1, Bounds
    <2>3. block_max(b) \in Int /\ b < block_max(b)
      BY <2>2
    <2>4. QED
      BY <2>3 DEF b
  <1>4. request_bytes(r, x) = IF is_2D(r.address) \/ M - (a + x) > B - x THEN B - x ELSE M - (a + x)
    BY DEF request_bytes
  <1> HIDE DEF a, B, M
  <1>5. /\ request_bytes(r, x) \in Nat \ {0} /\ x + request_bytes(r, x) <= B
        /\ is_2D(r.address) => x + request_bytes(r, x) = B
        /\ ~is_2D(r.address) =>
              /\ x + request_bytes(r, x) = IF M - a < B THEN M - a ELSE B
              /\ a + x + request_bytes(r, x) <= M
    BY <1>1, <1>3, <1>4
  <1>6. QED
    BY <1>5 DEF a, B, M

\* The end of the k-th block, counted from the one that a range begins in, and
\* where the loop is after k messages.
EndOf(r, k) == block_size * ((r.address.at \div block_size) + k) - r.address.at
Turn(r, k) ==
    IF k = 0 THEN 0
    ELSE IF is_2D(r.address) \/ EndOf(r, k) >= Bytes(r) THEN Bytes(r) ELSE EndOf(r, k)

\* The ends of the blocks are a block size apart; the first is after the
\* beginning of the range.
LEMMA EndOK ==
  ASSUME NEW r \in Ranges, NEW k \in Nat
  PROVE  /\ EndOf(r, k) \in Int /\ (k > 0 => EndOf(r, k) > 0) /\ (k = 0 => EndOf(r, k) <= 0)
         /\ EndOf(r, k + 1) = EndOf(r, k) + block_size /\ block_size \in Nat \ {0}
  <1> DEFINE a == r.address.at
             q == a \div block_size
             t == block_size * q
  <1>1. a \in Nat
    BY RangeOK
  <1>2. /\ block_size \in Nat \ {0} /\ q \in Nat /\ t \in Int
        /\ t <= a /\ a < t + block_size
    <2>1. /\ block_size \in Nat \ {0} /\ q \in Nat /\ t \in Int
          /\ block_min(a) = t /\ block_max(a) = t + block_size
          /\ block_min(a) <= a /\ a < block_max(a)
      BY <1>1, Bounds
    <2>2. QED
      BY <2>1
  <1>3. EndOf(r, k) = block_size * (q + k) - a /\ EndOf(r, k + 1) = block_size * (q + (k + 1)) - a
    BY DEF EndOf
  <1> HIDE DEF a, q
  <1>4. q + (k + 1) = (q + k) + 1 /\ q + k \in Int /\ block_size \in Int
    BY <1>2
  <1>5. block_size * (q + k) \in Int /\ block_size * (q + (k + 1)) = block_size * (q + k) + block_size
    BY <1>4, Products
  <1>6. k = 0 => block_size * (q + k) = t
    BY <1>2
  <1>7. k > 0 => t + block_size <= block_size * (q + k)
    BY <1>2, <1>4, NextBlock
  <1> HIDE DEF t
  <1>8. QED
    BY <1>1, <1>2, <1>3, <1>5, <1>6, <1>7

\* The loop's turns, without the abbreviations.
LEMMA TurnIs ==
  ASSUME NEW r \in Ranges, NEW k \in Nat
  PROVE  /\ Turn(r, k) \in 0 .. Bytes(r)
         /\ k = 0 => Turn(r, k) = 0
         /\ k > 0 /\ is_2D(r.address) => Turn(r, k) = Bytes(r)
         /\ k > 0 /\ ~is_2D(r.address) =>
               Turn(r, k) = IF EndOf(r, k) < Bytes(r) THEN EndOf(r, k) ELSE Bytes(r)
  <1>1. Bytes(r) \in Nat /\ EndOf(r, k) \in Int /\ (k > 0 => EndOf(r, k) > 0)
    BY RangeOK, EndOK
  <1>2. Turn(r, k) = IF k = 0 THEN 0
                     ELSE IF is_2D(r.address) \/ EndOf(r, k) >= Bytes(r) THEN Bytes(r)
                     ELSE EndOf(r, k)
    BY DEF Turn
  <1>3. QED
    BY <1>1, <1>2

\* The loop's k-th turn sends a message for the k-th block.
LEMMA TurnBlock ==
  ASSUME NEW r \in Ranges, NEW k \in Nat, ~is_2D(r.address), Turn(r, k) < Bytes(r)
  PROVE  block_max(r.address.at + Turn(r, k)) = EndOf(r, k + 1) + r.address.at
  <1> DEFINE a == r.address.at
             q == a \div block_size
             b == a + Turn(r, k)
  <1>1. a \in Nat /\ Bytes(r) \in Nat /\ Turn(r, k) \in Nat /\ b \in Nat
    BY RangeOK, TurnIs
  <1>2. block_size \in Nat \ {0} /\ q \in Nat
    BY <1>1, Bounds
  <1>3. EndOf(r, k + 1) = block_size * (q + (k + 1)) - a
    BY DEF EndOf
  <1> DEFINE p == q + k
  <1>4. p \in Int /\ block_size * p \in Int /\ block_size * (q + (k + 1)) = block_size * p + block_size
    <2>1. p \in Int /\ q + (k + 1) = p + 1
      BY <1>2
    <2> HIDE DEF p
    <2>2. QED
      BY <1>2, <2>1, Products
  <1>5. block_size * p <= b /\ b < block_size * p + block_size
    <2>1. CASE k = 0
      <3>1. b = a /\ p = q
        BY <1>1, <1>2, <2>1, TurnIs
      <3>2. block_min(a) = block_size * q /\ block_max(a) = block_size * q + block_size
            /\ block_min(a) <= a /\ a < block_max(a)
        BY <1>1, Bounds
      <3>3. QED
        BY <3>1, <3>2
    <2>2. CASE k > 0
      <3>1. Turn(r, k) = EndOf(r, k)
        BY <1>1, <2>2, TurnIs, EndOK
      <3>2. EndOf(r, k) = block_size * p - a
        BY DEF EndOf
      <3>3. QED
        BY <1>1, <1>2, <1>4, <3>1, <3>2
    <2>3. QED
      BY <2>1, <2>2
  <1>6. b \div block_size = p
    <2> HIDE DEF b, p
    <2>1. QED
      BY <1>1, <1>2, <1>4, <1>5, BlockOf
  <1>7. block_max(b) = block_size * p + block_size
    <2> HIDE DEF b, p
    <2>1. QED
      BY <1>1, <1>6, Bounds
  <1>8. QED
    <2> DEFINE t == block_size * p
               u == block_size * (q + (k + 1))
    <2>1. EndOf(r, k + 1) = u - a /\ t \in Int /\ u = t + block_size /\ block_max(b) = t + block_size
      BY <1>3, <1>4, <1>7
    <2> HIDE DEF t, u
    <2>2. QED
      BY <1>1, <1>2, <2>1

\* Turn takes the steps of the loop.
LEMMA TurnNext ==
  ASSUME NEW r \in Ranges, NEW k \in Nat
  PROVE  Turn(r, k + 1) = IF Turn(r, k) < Bytes(r) THEN Turn(r, k) + request_bytes(r, Turn(r, k))
                          ELSE Turn(r, k)
  <1> DEFINE x == Turn(r, k)
             B == Bytes(r)
  <1>1. B \in Nat /\ x \in 0 .. B /\ k + 1 \in Nat /\ k + 1 > 0 /\ k + 1 # 0
    BY RangeOK, TurnIs
  <1>2. CASE is_2D(r.address)
    <2>1. Turn(r, k + 1) = B
      BY <1>1, <1>2, TurnIs
    <2>2. x < B => x \in 0 .. Bytes(r) - 1
      BY <1>1
    <2>3. x < B => x + request_bytes(r, x) = B
      BY <1>2, <2>2, RequestOK
    <2>4. QED
      BY <1>1, <2>1, <2>3
  <1>3. CASE ~is_2D(r.address) /\ x < B
    <2>1. x \in 0 .. Bytes(r) - 1
      BY <1>1, <1>3
    <2>2. x + request_bytes(r, x) = IF block_max(r.address.at + x) - r.address.at < B
                                    THEN block_max(r.address.at + x) - r.address.at ELSE B
      BY <1>3, <2>1, RequestOK
    <2>3. block_max(r.address.at + x) = EndOf(r, k + 1) + r.address.at
      BY <1>3, TurnBlock
    <2>4. EndOf(r, k + 1) \in Int /\ r.address.at \in Int
      BY <1>1, RangeOK, EndOK
    <2>5. Turn(r, k + 1) = IF EndOf(r, k + 1) < B THEN EndOf(r, k + 1) ELSE B
      BY <1>1, <1>3, TurnIs
    <2>6. QED
      BY <1>1, <1>3, <2>2, <2>3, <2>4, <2>5
  <1>4. CASE ~is_2D(r.address) /\ x = B
    <2>1. /\ EndOf(r, k) \in Int /\ EndOf(r, k + 1) = EndOf(r, k) + block_size
          /\ block_size \in Nat \ {0} /\ EndOf(r, k + 1) > 0
      BY <1>1, EndOK
    <2>2. Turn(r, k + 1) = IF EndOf(r, k + 1) < B THEN EndOf(r, k + 1) ELSE B
      BY <1>1, <1>4, TurnIs
    <2>3. k = 0 => B = 0
      BY <1>1, <1>4, TurnIs
    <2>4. k > 0 => EndOf(r, k) >= B
      BY <1>1, <1>4, <2>1, TurnIs
    <2>5. QED
      BY <1>1, <1>4, <2>1, <2>2, <2>3, <2>4
  <1>5. QED
    BY <1>1, <1>2, <1>3, <1>4

\* A set of natural numbers has a least element.
LEMMA NatMin ==
  ASSUME NEW T, T \subseteq Nat, T # {}
  PROVE  \E x \in T : \A y \in T : x <= y
  <1> DEFINE R == OpToRel(<, Nat)
  <1>1. IsWellFoundedOn(R, Nat)
    BY NatLessThanWellFounded
  <1>2. \A y, x \in Nat : <<y, x>> \in R <=> y < x
    BY DEF OpToRel
  <1> HIDE DEF R
  <1>3. PICK x \in T : \A y \in T : ~ (<<y, x>> \in R)
    BY <1>1, WFMin
  <1>4. ASSUME NEW y \in T PROVE x <= y
    <2>1. x \in Nat /\ y \in Nat
      OBVIOUS
    <2>2. ~(y < x)
      BY <1>2, <1>3, <2>1
    <2>3. QED
      BY <2>1, <2>2
  <1>5. QED
    BY <1>4

\* The offsets that the loop comes through are those of Turn.
LEMMA OffsetsAre ==
  ASSUME NEW r \in Ranges
  PROVE  Offsets(r) = {Turn(r, k) : k \in 0 .. Bytes(r)} \ {Bytes(r)}
  <1> DEFINE B == Bytes(r)
             Loop(f) == [k \in 0 .. B |->
                           IF k = 0 THEN 0
                           ELSE IF f[k - 1] < B THEN f[k - 1] + request_bytes(r, f[k - 1])
                           ELSE f[k - 1]]
             turn == CHOOSE f : f = Loop(f)
             g == [k \in 0 .. B |-> Turn(r, k)]
  <1>1. B \in Nat
    BY RangeOK
  <1>2. g = Loop(g)
    <2>1. ASSUME NEW k \in 0 .. B PROVE g[k] = Loop(g)[k]
      <3>1. CASE k = 0
        BY <1>1, <3>1, TurnIs
      <3>2. CASE k # 0
        <4>1. k - 1 \in Nat /\ k - 1 \in 0 .. B /\ (k - 1) + 1 = k
          BY <1>1, <3>2
        <4>2. g[k] = Turn(r, k) /\ g[k - 1] = Turn(r, k - 1)
          BY <4>1
        <4>3. Turn(r, (k - 1) + 1) = IF Turn(r, k - 1) < B
                                     THEN Turn(r, k - 1) + request_bytes(r, Turn(r, k - 1))
                                     ELSE Turn(r, k - 1)
          BY <4>1, TurnNext
        <4> HIDE DEF g
        <4>4. Loop(g)[k] = IF g[k - 1] < B THEN g[k - 1] + request_bytes(r, g[k - 1]) ELSE g[k - 1]
          BY <3>2
        <4>5. QED
          BY <4>1, <4>2, <4>3, <4>4
      <3>3. QED
        BY <3>1, <3>2
    <2>2. DOMAIN g = 0 .. B /\ DOMAIN Loop(g) = 0 .. B
      OBVIOUS
    <2>3. g = [k \in 0 .. B |-> g[k]] /\ Loop(g) = [k \in 0 .. B |-> Loop(g)[k]]
      OBVIOUS
    <2> HIDE DEF g, Loop
    <2>4. QED
      BY <2>1, <2>3
  <1>3. turn = Loop(turn)
    <2> HIDE DEF g, Loop
    <2>1. \E f : f = Loop(f)
      BY <1>2
    <2>2. QED
      BY <2>1
  <1>4. Offsets(r) = {turn[k] : k \in 0 .. B} \ {B}
    BY DEF Offsets
  <1> HIDE DEF turn
  <1>5. \A k \in 0 .. B : turn[k] = IF k = 0 THEN 0
                           ELSE IF turn[k - 1] < B THEN turn[k - 1] + request_bytes(r, turn[k - 1])
                           ELSE turn[k - 1]
    <2>1. \A k \in 0 .. B : turn[k] = Loop(turn)[k]
      BY <1>3
    <2>2. QED
      BY <2>1
  <1> DEFINE Bad == {k \in 0 .. B : turn[k] # Turn(r, k)}
  <1>6. Bad = {}
    <2> SUFFICES ASSUME Bad # {} PROVE FALSE
      OBVIOUS
    <2>1. Bad \subseteq Nat
      BY <1>1
    <2>2. PICK k \in Bad : \A y \in Bad : k <= y
      <3> HIDE DEF Bad
      <3>1. QED
        BY <2>1, NatMin
    <2>3. k # 0
      BY <1>1, <1>5, TurnIs
    <2>4. k \in 0 .. B /\ k - 1 \in Nat /\ k - 1 \in 0 .. B /\ (k - 1) + 1 = k /\ ~(k <= k - 1)
      BY <1>1, <2>3
    <2>5. turn[k - 1] = Turn(r, k - 1)
      BY <2>2, <2>4
    <2>6. Turn(r, (k - 1) + 1) = IF Turn(r, k - 1) < B
                                 THEN Turn(r, k - 1) + request_bytes(r, Turn(r, k - 1))
                                 ELSE Turn(r, k - 1)
      BY <2>4, TurnNext
    <2>7. turn[k] = IF turn[k - 1] < B THEN turn[k - 1] + request_bytes(r, turn[k - 1])
                    ELSE turn[k - 1]
      BY <1>5, <2>3, <2>4
    <2>8. QED
      BY <2>4, <2>5, <2>6, <2>7
  <1>7. QED
    BY <1>4, <1>6

\* The loop takes as many turns as reset computes from the addresses.
LEMMA LinearTurns ==
  ASSUME NEW r \in Ranges, ~is_2D(r.address), Bytes(r) > 0
  PROVE  /\ NumMessages(r) \in 1 .. Bytes(r)
         /\ \A k \in Nat : k > 0 => (EndOf(r, k) < Bytes(r) <=> k < NumMessages(r))
  <1> DEFINE a == r.address.at
             B == Bytes(r)
             s == block_size
             z == a + B - 1
             q == a \div s
             p == z \div s
             N == (p - q) + 1
             sp == s * p
             sq == s * q
  <1>1. /\ a \in Nat /\ B \in Nat /\ B > 0 /\ z \in Nat /\ z >= a /\ s \in Nat \ {0}
        /\ z = a + B - 1 /\ r.count # 0
    BY RangeOK, CacheAssumption
  <1>2. q \in Nat /\ sq \in Int /\ block_min(a) = sq /\ sq <= a /\ a < sq + s
    <2>1. /\ s \in Nat \ {0} /\ q \in Nat /\ sq \in Int
          /\ block_min(a) = sq /\ block_max(a) = sq + s
          /\ block_min(a) <= a /\ a < block_max(a)
      BY <1>1, Bounds
    <2>2. QED
      BY <2>1
  <1>3. p \in Nat /\ sp \in Int /\ block_max(z) = sp + s /\ sp <= z /\ z < sp + s
    <2> HIDE DEF z
    <2>1. /\ s \in Nat \ {0} /\ p \in Nat /\ sp \in Int
          /\ block_min(z) = sp /\ block_max(z) = sp + s
          /\ block_min(z) <= z /\ z < block_max(z)
      BY <1>1, Bounds
    <2>2. QED
      BY <2>1
  <1>4. NumMessages(r) = (block_max(z) - block_min(a)) \div s
    BY <1>1 DEF NumMessages
  <1>5. \A k : EndOf(r, k) = s * (q + k) - a
    BY DEF EndOf
  <1> HIDE DEF a, B, s, z, q, p
  <1>6. q <= p
    <2> SUFFICES ASSUME p < q PROVE FALSE
      BY <1>2, <1>3
    <2>1. sp + s <= sq
      BY <1>1, <1>2, <1>3, NextBlock
    <2> HIDE DEF sp, sq
    <2>2. QED
      BY <1>1, <1>2, <1>3, <2>1
  <1>7. s * (p - q) = sp - sq /\ s * N = (sp - sq) + s
    <2>1. p - q \in Int /\ s \in Int /\ p \in Int /\ q \in Int
      BY <1>1, <1>2, <1>3
    <2>2. s * (p - q) = sp - sq
      BY <2>1, Products
    <2>3. s * ((p - q) + 1) = s * (p - q) + s
      BY <2>1, Products
    <2>4. QED
      BY <2>2, <2>3
  <1>8. NumMessages(r) = N
    <2>1. block_max(z) - block_min(a) = (sp - sq) + s
      <3> HIDE DEF sp, sq
      <3>1. QED
        BY <1>1, <1>2, <1>3
    <2>2. N \in Int
      BY <1>2, <1>3
    <2> HIDE DEF N, sp, sq
    <2>3. NumMessages(r) = (s * N) \div s
      BY <1>4, <1>7, <2>1
    <2>4. QED
      BY <1>1, <2>2, <2>3, Quotient
  <1>9. N <= B
    <2> DEFINE d == p - q
    <2>0. d \in Nat /\ B \in Nat
      BY <1>1, <1>2, <1>3, <1>6
    <2> SUFFICES ASSUME d >= B PROVE FALSE
      BY <2>0, <1>1
    <2>1. s * d = sp - sq
      BY <1>7
    <2> HIDE DEF d, sp, sq
    <2>2. d - 1 \in Nat /\ d - 1 >= B - 1 /\ (d - 1) + 1 = d /\ s \in Int
      BY <1>1, <2>0
    <2>3. s * ((d - 1) + 1) = s * (d - 1) + s /\ s * (d - 1) \in Int
      BY <2>2, Products
    <2>4. d - 1 <= s * (d - 1)
      BY <1>1, <2>2, Grows
    <2> DEFINE t == s * (d - 1)
               u == s * d
    <2>5. t \in Int /\ u = t + s /\ d - 1 <= t /\ u = sp - sq
      BY <2>1, <2>2, <2>3, <2>4
    <2> HIDE DEF t, u
    <2>6. QED
      BY <1>1, <1>2, <1>3, <2>0, <2>2, <2>5
  <1>10. ASSUME NEW k \in Nat PROVE EndOf(r, k) < B <=> k < N
    <2> DEFINE t == s * (q + k)
    <2>1. q + k \in Int /\ t \in Int /\ EndOf(r, k) = t - a
      BY <1>1, <1>2, <1>5
    <2>2. q + k < p => t + s <= sp
      BY <1>1, <1>3, <2>1, NextBlock
    <2>3. p < q + k => sp + s <= t
      BY <1>1, <1>3, <2>1, NextBlock
    <2>4. q + k = p => t = sp
      OBVIOUS
    <2> HIDE DEF t, sp, sq
    <2>5. QED
      BY <1>1, <1>2, <1>3, <2>1, <2>2, <2>3, <2>4
  <1>11. N \in 1 .. B
    BY <1>1, <1>2, <1>3, <1>6, <1>9
  <1>12. QED
    <2> HIDE DEF N
    <2>1. QED
      BY <1>8, <1>10, <1>11 DEF B

\* The same for both kinds of address; the turns go up.
LEMMA Turns ==
  ASSUME NEW r \in Ranges, Bytes(r) > 0
  PROVE  /\ NumMessages(r) \in 1 .. Bytes(r)
         /\ \A k \in Nat : Turn(r, k) < Bytes(r) <=> k < NumMessages(r)
         /\ \A j, k \in Nat : j < k /\ k < NumMessages(r) => Turn(r, j) < Turn(r, k)
  <1>1. Bytes(r) \in Nat /\ r.count # 0
    BY RangeOK
  <1>2. CASE is_2D(r.address)
    <2>1. NumMessages(r) = 1
      BY <1>1, <1>2 DEF NumMessages
    <2>2. \A k \in Nat : Turn(r, k) < Bytes(r) <=> k < 1
      BY <1>1, <1>2, TurnIs
    <2>3. QED
      BY <1>1, <2>1, <2>2
  <1>3. CASE ~is_2D(r.address)
    <2>1. /\ NumMessages(r) \in 1 .. Bytes(r)
          /\ \A k \in Nat : k > 0 => (EndOf(r, k) < Bytes(r) <=> k < NumMessages(r))
      BY <1>3, LinearTurns
    <2>2. ASSUME NEW k \in Nat PROVE Turn(r, k) < Bytes(r) <=> k < NumMessages(r)
      <3>1. EndOf(r, k) \in Int
        BY EndOK
      <3>2. CASE k = 0
        BY <1>1, <2>1, <3>2, TurnIs
      <3>3. CASE k > 0
        BY <1>1, <1>3, <2>1, <3>1, <3>3, TurnIs
      <3>4. QED
        BY <3>2, <3>3
    <2>3. ASSUME NEW j \in Nat, NEW k \in Nat, j < k, k < NumMessages(r)
          PROVE  Turn(r, j) < Turn(r, k)
      <3>1. k > 0 /\ j < NumMessages(r) /\ NumMessages(r) \in Nat
        BY <1>1, <2>1, <2>3
      <3>2. EndOf(r, k) \in Int /\ EndOf(r, j) \in Int /\ EndOf(r, k) > 0
        BY <3>1, EndOK
      <3>3. Turn(r, k) = EndOf(r, k)
        BY <1>1, <1>3, <2>1, <2>3, <3>1, TurnIs
      <3>4. CASE j = 0
        BY <3>2, <3>3, <3>4, TurnIs
      <3>5. CASE j > 0
        <4>1. Turn(r, j) = EndOf(r, j)
          BY <1>1, <1>3, <2>1, <3>1, <3>5, TurnIs
        <4> DEFINE s == block_size
                   q == r.address.at \div s
                   a == r.address.at
        <4>2. EndOf(r, j) = s * (q + j) - a /\ EndOf(r, k) = s * (q + k) - a /\ a \in Nat
          BY RangeOK DEF EndOf
        <4>3. s \in Nat \ {0} /\ q \in Nat
          BY <4>2, Bounds
        <4> HIDE DEF s, q, a
        <4>4. q + j \in Int /\ q + k \in Int /\ q + j < q + k
          BY <2>3, <4>3
        <4>5. s * (q + j) + s <= s * (q + k) /\ s * (q + j) \in Int /\ s * (q + k) \in Int
          BY <4>3, <4>4, NextBlock
        <4> DEFINE t == s * (q + j)
                   u == s * (q + k)
        <4>6. t \in Int /\ u \in Int /\ t + s <= u /\ EndOf(r, j) = t - a /\ EndOf(r, k) = u - a
          BY <4>2, <4>5
        <4> HIDE DEF t, u
        <4>7. EndOf(r, j) < EndOf(r, k)
          BY <4>2, <4>3, <4>6
        <4>8. QED
          BY <3>3, <4>1, <4>7
      <3>6. QED
        BY <3>4, <3>5
    <2>4. QED
      BY <2>1, <2>2, <2>3
  <1>4. QED
    BY <1>2, <1>3

\* An offset is one of the turns below the number of messages.
LEMMA OffsetTurn ==
  ASSUME NEW r \in Ranges
  PROVE  /\ Bytes(r) = 0 => Offsets(r) = {} /\ NumMessages(r) = 0
         /\ Bytes(r) > 0 => Offsets(r) = {Turn(r, k) : k \in 0 .. NumMessages(r) - 1}
         /\ Offsets(r) \subseteq 0 .. Bytes(r) - 1
  <1>1. Bytes(r) \in Nat /\ (Bytes(r) = 0 <=> r.count = 0)
    BY RangeOK
  <1>2. Offsets(r) = {Turn(r, k) : k \in 0 .. Bytes(r)} \ {Bytes(r)}
    BY OffsetsAre
  <1>3. \A k \in 0 .. Bytes(r) : k \in Nat /\ Turn(r, k) \in 0 .. Bytes(r)
    BY <1>1, TurnIs
  <1>4. CASE Bytes(r) = 0
    BY <1>1, <1>2, <1>3, <1>4 DEF NumMessages
  <1>5. CASE Bytes(r) > 0
    <2>1. /\ NumMessages(r) \in 1 .. Bytes(r)
          /\ \A k \in Nat : Turn(r, k) < Bytes(r) <=> k < NumMessages(r)
      BY <1>5, Turns
    <2>2. \A k \in 0 .. Bytes(r) : Turn(r, k) # Bytes(r) <=> k \in 0 .. NumMessages(r) - 1
      BY <1>1, <1>3, <2>1
    <2>3. 0 .. NumMessages(r) - 1 \subseteq 0 .. Bytes(r)
      BY <1>1, <2>1
    <2>4. Offsets(r) = {Turn(r, k) : k \in 0 .. NumMessages(r) - 1}
      BY <1>2, <2>2, <2>3
    <2>5. Offsets(r) \subseteq 0 .. Bytes(r) - 1
      BY <1>1, <1>2, <1>3
    <2>6. QED
      BY <1>5, <2>4, <2>5
  <1>6. QED
    BY <1>1, <1>4, <1>5

\* There are as many offsets as messages are counted on.
LEMMA CountOffsets ==
  ASSUME NEW r \in Ranges
  PROVE  /\ IsFiniteSet(Offsets(r)) /\ Cardinality(Offsets(r)) = NumMessages(r)
         /\ NumMessages(r) \in Nat
  <1>1. Bytes(r) \in Nat
    BY RangeOK
  <1>2. CASE Bytes(r) = 0
    BY <1>2, OffsetTurn, FS_EmptySet
  <1>3. CASE Bytes(r) > 0
    <2> DEFINE N == NumMessages(r)
               f == [k \in 0 .. N - 1 |-> Turn(r, k)]
    <2>1. N \in 1 .. Bytes(r) /\ N \in Nat
      BY <1>1, <1>3, Turns
    <2>2. Offsets(r) = {Turn(r, k) : k \in 0 .. N - 1}
      BY <1>3, OffsetTurn
    <2>3. \A j, k \in Nat : j < k /\ k < N => Turn(r, j) < Turn(r, k)
      BY <1>3, Turns
    <2>4. \A k \in Nat : Turn(r, k) \in Int
      BY <1>1, TurnIs
    <2> HIDE DEF N
    <2>5. ASSUME NEW j \in 0 .. N - 1, NEW k \in 0 .. N - 1, Turn(r, j) = Turn(r, k) PROVE j = k
      <3>1. j \in Nat /\ k \in Nat /\ j < N /\ k < N
        BY <2>1
      <3>2. Turn(r, j) \in Int /\ ~(Turn(r, j) < Turn(r, k)) /\ ~(Turn(r, k) < Turn(r, j))
        BY <2>4, <2>5, <3>1
      <3>3. ~(j < k) /\ ~(k < j)
        BY <2>3, <3>1, <3>2
      <3>4. QED
        BY <3>1, <3>3
    <2>6. f \in Bijection(0 .. N - 1, Offsets(r))
      <3>1. f \in [0 .. N - 1 -> Offsets(r)]
        BY <2>2
      <3>2. \A x, y \in 0 .. N - 1 : f[x] = f[y] => x = y
        BY <2>5
      <3>3. \A y \in Offsets(r) : \E x \in 0 .. N - 1 : f[x] = y
        BY <2>2
      <3> HIDE DEF f
      <3>4. QED
        BY <3>1, <3>2, <3>3 DEF Bijection, Injection, Surjection, IsInjective
    <2>7. IsFiniteSet(0 .. N - 1) /\ Cardinality(0 .. N - 1) = N
      <3>1. 0 \in Int /\ N - 1 \in Int
        BY <2>1
      <3>2. IsFiniteSet(0 .. N - 1) /\ Cardinality(0 .. N - 1) = IF 0 > N - 1 THEN 0 ELSE (N - 1) - 0 + 1
        BY <3>1, FS_Interval
      <3>3. QED
        BY <2>1, <3>2
    <2>8. ExistsBijection(0 .. N - 1, Offsets(r))
      BY <2>6 DEF ExistsBijection
    <2>9. QED
      BY <2>1, <2>7, <2>8, FS_Bijection DEF N
  <1>4. QED
    BY <1>1, <1>2, <1>3

\* Every byte of a range is asked for.
LEMMA Covered ==
  ASSUME NEW r \in Ranges, NEW x \in 0 .. Bytes(r) - 1
  PROVE  \E o \in Offsets(r) : x \in o .. o + request_bytes(r, o) - 1
  <1> DEFINE B == Bytes(r)
             N == NumMessages(r)
             Past == {k \in Nat : x < Turn(r, k + 1)}
  <1>1. B \in Nat /\ B > 0 /\ x \in Nat /\ x < B
    BY RangeOK
  <1>2. /\ N \in 1 .. B
        /\ \A k \in Nat : Turn(r, k) < B <=> k < N
    BY <1>1, Turns
  <1>3. \A k \in Nat : k + 1 \in Nat /\ Turn(r, k) \in 0 .. B
    BY TurnIs
  <1> HIDE DEF B, N
  <1>4. N - 1 \in Past
    <2>1. N - 1 \in Nat /\ (N - 1) + 1 = N /\ N \in Nat /\ ~(N < N)
      BY <1>1, <1>2
    <2>2. Turn(r, N) = B
      BY <1>1, <1>2, <1>3, <2>1
    <2>3. QED
      BY <1>1, <2>1, <2>2
  <1>5. PICK k \in Past : \A y \in Past : k <= y
    <2>1. Past \subseteq Nat /\ Past # {}
      BY <1>4
    <2> HIDE DEF Past
    <2>2. QED
      BY <2>1, NatMin
  <1>6. k \in Nat /\ k \in 0 .. N - 1 /\ k < N /\ x < Turn(r, k + 1)
    BY <1>1, <1>2, <1>4, <1>5
  <1>7. Turn(r, k) <= x
    <2>1. CASE k = 0
      BY <1>1, <2>1, TurnIs
    <2>2. CASE k > 0
      <3>1. k - 1 \in Nat /\ (k - 1) + 1 = k /\ ~(k <= k - 1)
        BY <1>6, <2>2
      <3>2. k - 1 \notin Past
        BY <1>5, <3>1
      <3>3. ~(x < Turn(r, k))
        BY <3>1, <3>2
      <3>4. QED
        BY <1>1, <1>3, <1>6, <3>3
    <2>3. QED
      BY <1>6, <2>1, <2>2
  <1>8. Turn(r, k + 1) = Turn(r, k) + request_bytes(r, Turn(r, k))
    BY <1>2, <1>6, TurnNext DEF B
  <1>9. Turn(r, k) \in Offsets(r)
    BY <1>1, <1>6, OffsetTurn DEF B, N
  <1>10. Turn(r, k) \in Nat /\ request_bytes(r, Turn(r, k)) \in Nat
    <2>1. Turn(r, k) \in 0 .. Bytes(r) - 1
      BY <1>9, OffsetTurn
    <2>2. QED
      BY <2>1, RequestOK
  <1>11. x \in Turn(r, k) .. Turn(r, k) + request_bytes(r, Turn(r, k)) - 1
    BY <1>1, <1>6, <1>7, <1>8, <1>10
  <1>12. QED
    BY <1>9, <1>11

(***************************************************************************)
(* Messages                                                                *)
(***************************************************************************)
\* What a start sends: well-formed messages, as many as are counted on, one for
\* each offset, which together ask for the whole range.
LEMMA RequestsOK ==
  ASSUME NEW r \in Ranges, NEW side
  PROVE  /\ IsFiniteSet(Requests(side, r)) /\ Cardinality(Requests(side, r)) = NumMessages(r)
         /\ \A m \in Requests(side, r) :
              /\ m.side = side /\ m.stage = "request" /\ m.offset \in Offsets(r)
              /\ m = [side |-> m.side, stage |-> m.stage, offset |-> m.offset,
                      bytes |-> request_bytes(r, m.offset)]
         /\ \A m, n \in Requests(side, r) : m.offset = n.offset => m = n
         /\ \A x \in 0 .. Bytes(r) - 1 : \E m \in Requests(side, r) : x \in Part(m)
  <1> DEFINE M(o) == [side |-> side, stage |-> "request", offset |-> o, bytes |-> request_bytes(r, o)]
             f == [o \in Offsets(r) |-> M(o)]
  <1>1. Requests(side, r) = {M(o) : o \in Offsets(r)}
    BY DEF Requests
  <1>2. \A o : M(o).side = side /\ M(o).stage = "request" /\ M(o).offset = o
               /\ M(o).bytes = request_bytes(r, o)
    OBVIOUS
  <1>3. \A m \in Requests(side, r) :
              /\ m.side = side /\ m.stage = "request" /\ m.offset \in Offsets(r)
              /\ m = M(m.offset) /\ m.bytes = request_bytes(r, m.offset)
    BY <1>1, <1>2
  <1>4. \A m, n \in Requests(side, r) : m.offset = n.offset => m = n
    BY <1>3
  <1>5. f \in Bijection(Offsets(r), Requests(side, r))
    <2>1. f \in [Offsets(r) -> Requests(side, r)]
      BY <1>1
    <2>2. \A x, y \in Offsets(r) : f[x] = f[y] => x = y
      BY <1>2
    <2>3. \A y \in Requests(side, r) : \E x \in Offsets(r) : f[x] = y
      BY <1>1
    <2> HIDE DEF f
    <2>4. QED
      BY <2>1, <2>2, <2>3 DEF Bijection, Injection, Surjection, IsInjective
  <1>6. IsFiniteSet(Requests(side, r)) /\ Cardinality(Requests(side, r)) = NumMessages(r)
    <2>1. ExistsBijection(Offsets(r), Requests(side, r))
      BY <1>5 DEF ExistsBijection
    <2>2. QED
      BY <2>1, CountOffsets, FS_Bijection
  <1>7. ASSUME NEW x \in 0 .. Bytes(r) - 1 PROVE \E m \in Requests(side, r) : x \in Part(m)
    <2>1. PICK o \in Offsets(r) : x \in o .. o + request_bytes(r, o) - 1
      BY Covered
    <2>2. M(o) \in Requests(side, r)
      BY <1>1
    <2>3. x \in Part(M(o))
      BY <1>2, <2>1 DEF Part
    <2>4. QED
      BY <2>2, <2>3
  <1>8. QED
    BY <1>3, <1>4, <1>6, <1>7

\* A message's bytes are in the range, and of linear memory in one block.
LEMMA PartOK ==
  ASSUME NEW r \in Ranges, NEW o \in Offsets(r), NEW k \in o .. o + request_bytes(r, o) - 1
  PROVE  /\ k \in 0 .. Bytes(r) - 1 /\ o \in Nat
         /\ ~is_2D(r.address) => block_min(r.address.at + k) = block_min(r.address.at + o)
  <1>1. Bytes(r) \in Nat /\ r.address.at \in Nat
    BY RangeOK
  <1>2. o \in 0 .. Bytes(r) - 1
    BY OffsetTurn
  <1>3. /\ request_bytes(r, o) \in Nat /\ o + request_bytes(r, o) <= Bytes(r)
        /\ ~is_2D(r.address) => r.address.at + o + request_bytes(r, o) <= block_max(r.address.at + o)
    BY <1>2, RequestOK
  <1>4. k \in 0 .. Bytes(r) - 1 /\ o \in Nat /\ k \in Nat /\ o <= k /\ k < o + request_bytes(r, o)
    BY <1>1, <1>2, <1>3
  <1>5. ASSUME ~is_2D(r.address) PROVE block_min(r.address.at + k) = block_min(r.address.at + o)
    <2> DEFINE b == r.address.at + o
               c == r.address.at + k
    <2>1. b \in Nat /\ c \in Nat /\ b <= c
      BY <1>1, <1>4
    <2>2. block_max(b) \in Int
      <3> HIDE DEF b
      <3>1. /\ block_size \in Nat \ {0} /\ block_size * (b \div block_size) \in Int
            /\ block_max(b) = block_size * (b \div block_size) + block_size
        BY <2>1, Bounds
      <3>2. QED
        BY <3>1
    <2>3. c < block_max(b)
      BY <1>1, <1>3, <1>4, <1>5, <2>2
    <2> HIDE DEF b, c
    <2>4. block_min(c) = block_min(b)
      BY <2>1, <2>3, SameBlock
    <2>5. QED
      BY <2>4 DEF b, c
  <1>6. QED
    BY <1>4, <1>5

\* The sides of a cache.
LEMMA SideFields ==
  ASSUME NEW s, SideOK(s)
  PROVE  /\ s.started \in BOOLEAN /\ s.done \in BOOLEAN /\ s.num \in Nat /\ s.resp \in Nat
         /\ LET t == [s EXCEPT !.started = TRUE] IN
              SideOK(t) /\ t.started = TRUE /\ t.done = s.done /\ t.num = s.num /\ t.resp = s.resp
         /\ LET t == Counted(s) IN
              /\ SideOK(t) /\ t.started = s.started /\ (t.done <=> s.done \/ s.resp + 1 = s.num)
              /\ t.num = s.num /\ t.resp = s.resp + 1
  <1>1. s.started \in BOOLEAN /\ s.done \in BOOLEAN /\ s.num \in Nat /\ s.resp \in Nat
    BY DEF SideOK
  <1>2. LET t == [s EXCEPT !.started = TRUE] IN
          SideOK(t) /\ t.started = TRUE /\ t.done = s.done /\ t.num = s.num /\ t.resp = s.resp
    BY DEF SideOK
  <1> DEFINE d == s.done \/ s.resp + 1 = s.num
             t == Counted(s)
  <1>3. d \in BOOLEAN /\ s.resp + 1 \in Nat
    BY <1>1
  <1>4. t = [s EXCEPT !.resp = s.resp + 1, !.done = d]
    BY DEF Counted
  <1> HIDE DEF d, t
  <1>5. SideOK(t) /\ t.started = s.started /\ t.done = d /\ t.num = s.num /\ t.resp = s.resp + 1
    BY <1>3, <1>4 DEF SideOK
  <1>6. QED
    BY <1>1, <1>2, <1>5 DEF d, t

\* A start keeps the other messages and sends its own.
LEMMA StartKeeps ==
  ASSUME NEW r \in Ranges, NEW M, MsgsOK(M, r), NEW side \in {"acquire", "release"}, NEW s,
         SideInv(M, r, side, s), ~s.started
  PROVE  LET M2 == M \cup Requests(side, r) IN
         /\ MsgsOK(M2, r) /\ SideInv(M2, r, side, [s EXCEPT !.started = TRUE])
         /\ \A other : other # side => OutOf(M2, other) = OutOf(M, other)
  <1> DEFINE R == Requests(side, r)
             M2 == M \cup R
             t == [s EXCEPT !.started = TRUE]
  <1>1. /\ IsFiniteSet(R) /\ Cardinality(R) = NumMessages(r)
        /\ \A m \in R : m.side = side /\ m.stage = "request" /\ MsgOK(m, r)
        /\ \A m, n \in R : m.offset = n.offset => m = n
    BY RequestsOK DEF MsgOK
  <1>2. /\ SideOK(s) /\ OutOf(M, side) = {} /\ ~s.done /\ s.resp = 0 /\ s.num = NumMessages(r)
    BY DEF SideInv
  <1>3. SideOK(t) /\ t.started = TRUE /\ t.done = s.done /\ t.num = s.num /\ t.resp = s.resp
    BY <1>2, SideFields
  <1> HIDE DEF R, t
  <1>4. OutOf(M2, side) = R
    BY <1>1, <1>2 DEF OutOf
  <1>5. \A m \in M : m.side # side
    BY <1>2 DEF OutOf
  <1>6. MsgsOK(M2, r)
    BY <1>1, <1>5 DEF MsgsOK
  <1>7. \A other : other # side => OutOf(M2, other) = OutOf(M, other)
    BY <1>1 DEF OutOf
  <1>8. NumMessages(r) \in Nat
    BY CountOffsets
  <1>9. SideInv(M2, r, side, t)
    <2>1. Cardinality(OutOf(M2, side)) + t.resp = t.num /\ IsFiniteSet(OutOf(M2, side)) /\ t.resp <= t.num
      BY <1>1, <1>2, <1>3, <1>4, <1>8
    <2>2. QED
      BY <1>2, <1>3, <2>1 DEF SideInv
  <1>10. QED
    BY <1>6, <1>7, <1>9 DEF R, t

\* Handling a request replaces it by its reply.
LEMMA HandleKeeps ==
  ASSUME NEW r \in Ranges, NEW M, MsgsOK(M, r), NEW m \in M, m.stage = "request"
  PROVE  LET n == [m EXCEPT !.stage = "reply"]
             M2 == (M \ {m}) \cup {n}
         IN /\ MsgsOK(M2, r) /\ n.side = m.side /\ n.stage = "reply" /\ Part(n) = Part(m)
            /\ \A side, s : SideInv(M, r, side, s) => SideInv(M2, r, side, s)
  <1> DEFINE n == [m EXCEPT !.stage = "reply"]
             M2 == (M \ {m}) \cup {n}
  <1>1. MsgOK(m, r)
    BY DEF MsgsOK
  <1>2. m = [side |-> m.side, stage |-> m.stage, offset |-> m.offset,
             bytes |-> request_bytes(r, m.offset)]
    BY <1>1 DEF MsgOK
  <1>3. /\ n.side = m.side /\ n.stage = "reply" /\ n.offset = m.offset /\ n.bytes = m.bytes
        /\ n = [side |-> n.side, stage |-> n.stage, offset |-> n.offset,
                bytes |-> request_bytes(r, n.offset)]
    BY <1>2
  <1> HIDE DEF n
  <1>4. MsgOK(n, r) /\ Part(n) = Part(m)
    BY <1>1, <1>3 DEF MsgOK, Part
  <1>5. MsgsOK(M2, r)
    BY <1>3, <1>4 DEF MsgsOK
  <1>6. n \notin M
    BY <1>3 DEF MsgsOK
  <1>7. ASSUME NEW side, NEW s, SideInv(M, r, side, s) PROVE SideInv(M2, r, side, s)
    <2>1. CASE m.side # side
      <3>1. OutOf(M2, side) = OutOf(M, side)
        BY <1>3, <2>1 DEF OutOf
      <3>2. QED
        BY <1>7, <3>1 DEF SideInv
    <2>2. CASE m.side = side
      <3> DEFINE O == OutOf(M, side)
      <3>1. OutOf(M2, side) = (O \ {m}) \cup {n} /\ m \in O /\ n \notin O \ {m}
        BY <1>3, <1>6, <2>2 DEF OutOf
      <3>2. IsFiniteSet(O)
        BY <1>7 DEF SideInv
      <3>3. IsFiniteSet(O \ {m}) /\ Cardinality(O \ {m}) = Cardinality(O) - 1 /\ Cardinality(O) \in Nat
        BY <3>1, <3>2, FS_RemoveElement, FS_CardinalityType
      <3>4. /\ IsFiniteSet((O \ {m}) \cup {n})
            /\ Cardinality((O \ {m}) \cup {n}) = Cardinality(O \ {m}) + 1
        BY <3>1, <3>3, FS_AddElement
      <3>5. IsFiniteSet(OutOf(M2, side)) /\ Cardinality(OutOf(M2, side)) = Cardinality(OutOf(M, side))
        <4> DEFINE c == Cardinality(O)
                   d == Cardinality(O \ {m})
                   e == Cardinality((O \ {m}) \cup {n})
        <4>1. c \in Nat /\ d = c - 1 /\ e = d + 1
          BY <3>3, <3>4
        <4> HIDE DEF c, d, e
        <4>2. e = c
          BY <4>1
        <4>3. Cardinality((O \ {m}) \cup {n}) = Cardinality(O)
          BY <4>2 DEF c, e
        <4>4. QED
          BY <3>1, <3>4, <4>3
      <3>6. ~(s.done \/ ~s.started)
        BY <1>7, <3>1 DEF SideInv
      <3>7. QED
        BY <1>7, <3>5, <3>6 DEF SideInv
    <2>3. QED
      BY <2>1, <2>2
  <1>8. QED
    BY <1>3, <1>4, <1>5, <1>7 DEF n

\* A reply is counted; with the last one the operation is done.
LEMMA ReplyKeeps ==
  ASSUME NEW r \in Ranges, NEW M, MsgsOK(M, r), NEW m \in M, NEW s, SideInv(M, r, m.side, s)
  PROVE  LET M2 == M \ {m} IN
         /\ MsgsOK(M2, r) /\ SideInv(M2, r, m.side, Counted(s))
         /\ s.started /\ ~s.done
         /\ \A other : other # m.side => OutOf(M2, other) = OutOf(M, other)
  <1> DEFINE O == OutOf(M, m.side)
             M2 == M \ {m}
             t == Counted(s)
  <1>1. MsgsOK(M2, r)
    BY DEF MsgsOK
  <1>2. \A other : other # m.side => OutOf(M2, other) = OutOf(M, other)
    BY DEF OutOf
  <1>3. m \in O /\ OutOf(M2, m.side) = O \ {m}
    BY DEF OutOf
  <1>4. SideOK(s) /\ s.started /\ ~s.done /\ IsFiniteSet(O) /\ Cardinality(O) + s.resp = s.num
        /\ s.num = NumMessages(r)
    BY <1>3 DEF SideInv
  <1>5. /\ SideOK(t) /\ t.started = s.started /\ (t.done <=> s.done \/ s.resp + 1 = s.num)
        /\ t.num = s.num /\ t.resp = s.resp + 1 /\ s.num \in Nat /\ s.resp \in Nat
    BY <1>4, SideFields
  <1> HIDE DEF t
  <1>6. IsFiniteSet(O \ {m}) /\ Cardinality(O \ {m}) = Cardinality(O) - 1 /\ Cardinality(O) \in Nat
        /\ Cardinality(O \ {m}) \in Nat
    BY <1>3, <1>4, FS_RemoveElement, FS_CardinalityType
  <1>7. Cardinality(O \ {m}) + t.resp = t.num /\ t.resp <= t.num
    BY <1>4, <1>5, <1>6
  <1>8. t.done => O \ {m} = {}
    <2> DEFINE c == Cardinality(O \ {m})
    <2>1. c \in Nat /\ c + t.resp = t.num
      BY <1>6, <1>7
    <2>2. t.done => t.resp = t.num
      BY <1>4, <1>5
    <2> HIDE DEF c
    <2>3. t.done => c = 0
      BY <1>5, <2>1, <2>2
    <2>4. QED
      BY <1>6, <2>3, FS_EmptySet DEF c
  <1>9. SideInv(M2, r, m.side, t)
    BY <1>3, <1>4, <1>5, <1>6, <1>7, <1>8 DEF SideInv
  <1>10. QED
    BY <1>1, <1>2, <1>4, <1>9 DEF t

\* A side depends on the messages of its own.
LEMMA SideSame ==
  ASSUME NEW M, NEW M2, NEW r, NEW side, NEW s, SideInv(M, r, side, s), OutOf(M2, side) = OutOf(M, side)
  PROVE  SideInv(M2, r, side, s)
  BY DEF SideInv

\* A side that has nothing to do, or has not started, when nothing is under way.
LEMMA SideFresh ==
  ASSUME NEW r \in Ranges, NEW side, NEW M, OutOf(M, side) = {}
  PROVE  SideInv(M, r, side, Fresh(r)) /\ SideInv(M, r, side, AtOnce(r))
  <1>1. NumMessages(r) \in Nat
    BY CountOffsets
  <1>2. /\ SideOK(Fresh(r)) /\ Fresh(r).num = NumMessages(r) /\ Fresh(r).resp = 0
        /\ ~Fresh(r).started /\ ~Fresh(r).done
    BY <1>1 DEF SideOK, Fresh
  <1>3. /\ SideOK(AtOnce(r)) /\ AtOnce(r).num = NumMessages(r) /\ AtOnce(r).resp = 0
        /\ AtOnce(r).started /\ AtOnce(r).done
    BY <1>1 DEF SideOK, Fresh, AtOnce
  <1>4. QED
    BY <1>1, <1>2, <1>3, FS_EmptySet DEF SideInv

(***************************************************************************)
(* The steps                                                               *)
(***************************************************************************)
\* The names of the kinds of cache.
LEMMA KindNames == kind \in Kinds => kind \in {"RO", "RW", "WO"}
  BY CacheAssumption

\* A fresh side has started only if there is nothing for it to do.
LEMMA ResetIs ==
  ASSUME NEW r \in Ranges, NEW k
  PROVE  /\ ~Fresh(r).started /\ ~Fresh(r).done /\ AtOnce(r).started /\ AtOnce(r).done
         /\ AcquirerFor(k, r) \in {Fresh(r), AtOnce(r)} /\ ReleaserFor(k, r) \in {Fresh(r), AtOnce(r)}
         /\ k = "WO" => AcquirerFor(k, r) = AtOnce(r)
         /\ k = "RO" => ReleaserFor(k, r) = Fresh(r)
         /\ k # "WO" => (AcquirerFor(k, r) = AtOnce(r) <=> r.count = 0 \/ ShortCircuit(r))
         /\ k # "RO" => (ReleaserFor(k, r) = AtOnce(r) <=> r.count = 0 \/ ShortCircuit(r))
  <1>1. ~Fresh(r).started /\ ~Fresh(r).done /\ AtOnce(r).started /\ AtOnce(r).done
    BY DEF Fresh, AtOnce
  <1>2. Fresh(r) # AtOnce(r)
    BY <1>1
  <1>3. QED
    BY <1>1, <1>2 DEF AcquirerFor, ReleaserFor, Reset

\* So a cache that is new to its range is in order.
LEMMA NewSides ==
  ASSUME NEW r \in Ranges, NEW k \in {"RO", "RW", "WO"}
  PROVE  LET a == AcquirerFor(k, r)
             b == ReleaserFor(k, r)
         IN /\ SideInv({}, r, "acquire", a) /\ SideInv({}, r, "release", b) /\ MsgsOK({}, r)
            /\ k = "RO" => (b.started => b.done)
            /\ k = "WO" => a.done
            /\ ~(b.started /\ ~b.done)
            /\ ShortCircuit(r) => a.done /\ (k # "RO" => b.done)
  <1> DEFINE a == AcquirerFor(k, r)
             b == ReleaserFor(k, r)
  <1>1. \A side : OutOf({}, side) = {}
    BY DEF OutOf
  <1>2. \A side : SideInv({}, r, side, Fresh(r)) /\ SideInv({}, r, side, AtOnce(r))
    BY <1>1, SideFresh
  <1>3. a \in {Fresh(r), AtOnce(r)} /\ b \in {Fresh(r), AtOnce(r)}
    BY ResetIs
  <1>4. SideInv({}, r, "acquire", a) /\ SideInv({}, r, "release", b)
    BY <1>2, <1>3
  <1>5. MsgsOK({}, r)
    BY DEF MsgsOK
  <1>6. QED
    BY <1>3, <1>4, <1>5, ResetIs

\* A new cache is in order.
LEMMA InitIInv == Init => IInv
  <1> SUFFICES ASSUME Init PROVE IInv
    OBVIOUS
  <1>1. kind \in Kinds /\ kind \in {"RO", "RW", "WO"} /\ range \in Ranges
    BY CacheAssumption DEF Init
  <1>2. acq = AcquirerFor(kind, range) /\ rel = ReleaserFor(kind, range) /\ msgs = {} /\ wrote = FALSE
        /\ goal = "none"
    BY DEF Init
  <1>3. ControlType
    <2>1. 0 \in 0 .. MaxResets
      BY CacheAssumption
    <2>2. QED
      BY <2>1 DEF Init, ControlType
  <1>4. ControlOK /\ SideInv(msgs, range, "acquire", acq) /\ SideInv(msgs, range, "release", rel)
        /\ MsgsOK(msgs, range)
    BY <1>1, <1>2, NewSides DEF ControlOK
  <1>5. QED
    BY <1>3, <1>4 DEF IInv

\* A step of the task that starts an acquire.
LEMMA AcquireStarts ==
  ASSUME IInv, ~acq.started, acq' = [acq EXCEPT !.started = TRUE], rel' = rel,
         msgs' = msgs \cup Requests("acquire", range), range' = range
  PROVE  /\ MsgsOK(msgs', range') /\ SideInv(msgs', range', "acquire", acq')
         /\ SideInv(msgs', range', "release", rel')
         /\ acq'.started /\ acq'.done = acq.done
  <1>1. range \in Ranges /\ MsgsOK(msgs, range) /\ SideInv(msgs, range, "acquire", acq)
        /\ SideInv(msgs, range, "release", rel) /\ SideOK(acq)
    BY DEF IInv, ControlType, SideInv
  <1>2. /\ MsgsOK(msgs', range) /\ SideInv(msgs', range, "acquire", acq')
        /\ \A other : other # "acquire" => OutOf(msgs', other) = OutOf(msgs, other)
    <2> DEFINE M2 == msgs \cup Requests("acquire", range)
               t == [acq EXCEPT !.started = TRUE]
    <2>1. "acquire" \in {"acquire", "release"}
      OBVIOUS
    <2>2. /\ MsgsOK(M2, range) /\ SideInv(M2, range, "acquire", t)
          /\ \A other : other # "acquire" => OutOf(M2, other) = OutOf(msgs, other)
      BY <1>1, <2>1, StartKeeps, ZenonT(30)
    <2>3. msgs' = M2 /\ acq' = t
      OBVIOUS
    <2> HIDE DEF M2, t
    <2>4. QED
      BY <2>2, <2>3
  <1>3. SideInv(msgs', range, "release", rel)
    BY <1>1, <1>2, SideSame
  <1>4. acq'.started /\ acq'.done = acq.done
    BY <1>1, SideFields
  <1>5. QED
    BY <1>2, <1>3, <1>4

\* A step of the task that starts a release.
LEMMA ReleaseStarts ==
  ASSUME IInv, ~rel.started, rel' = [rel EXCEPT !.started = TRUE], acq' = acq,
         msgs' = msgs \cup Requests("release", range), range' = range
  PROVE  /\ MsgsOK(msgs', range') /\ SideInv(msgs', range', "acquire", acq')
         /\ SideInv(msgs', range', "release", rel')
         /\ rel'.started /\ rel'.done = rel.done
  <1>1. range \in Ranges /\ MsgsOK(msgs, range) /\ SideInv(msgs, range, "acquire", acq)
        /\ SideInv(msgs, range, "release", rel) /\ SideOK(rel)
    BY DEF IInv, ControlType, SideInv
  <1>2. /\ MsgsOK(msgs', range) /\ SideInv(msgs', range, "release", rel')
        /\ \A other : other # "release" => OutOf(msgs', other) = OutOf(msgs, other)
    <2> DEFINE M2 == msgs \cup Requests("release", range)
               t == [rel EXCEPT !.started = TRUE]
    <2>1. "release" \in {"acquire", "release"}
      OBVIOUS
    <2>2. /\ MsgsOK(M2, range) /\ SideInv(M2, range, "release", t)
          /\ \A other : other # "release" => OutOf(M2, other) = OutOf(msgs, other)
      BY <1>1, <2>1, StartKeeps, ZenonT(30)
    <2>3. msgs' = M2 /\ rel' = t
      OBVIOUS
    <2> HIDE DEF M2, t
    <2>4. QED
      BY <2>2, <2>3
  <1>3. SideInv(msgs', range, "acquire", acq)
    BY <1>1, <1>2, SideSame
  <1>4. rel'.started /\ rel'.done = rel.done
    BY <1>1, SideFields
  <1>5. QED
    BY <1>2, <1>3, <1>4

\* Beginning what has been begun changes nothing.
LEMMA BegunAlready ==
  ASSUME NEW s, SideOK(s), s.started
  PROVE  [s EXCEPT !.started = TRUE] = s
  BY DEF SideOK

\* The conjuncts of the invariant that concern messages and sides.
Sides ==
    /\ MsgsOK(msgs, range)
    /\ SideInv(msgs, range, "acquire", acq) /\ SideInv(msgs, range, "release", rel)

\* A task's step towards acquiring, whether or not it is the first.
LEMMA AcquireStep ==
  ASSUME IInv, start_acquire \/ block_until_acquired
  PROVE  /\ Sides' /\ acq'.started /\ acq'.done = acq.done /\ rel' = rel /\ ~acq.done
         /\ UNCHANGED <<kind, range, pointer_, storage, mem, goal, target, resets, wrote, intended>>
         /\ thread_' \in {thread_, "acquire"} /\ kind # "WO"
         /\ msgs' = IF acq.started THEN msgs ELSE msgs \cup Requests("acquire", range)
  <1>1. SideOK(acq) /\ (~acq.started => ~acq.done) /\ Sides
    BY DEF IInv, SideInv, Sides
  <1>2. /\ acq' = [acq EXCEPT !.started = TRUE] /\ rel' = rel /\ ~acq.done
        /\ UNCHANGED <<kind, range, pointer_, storage, mem, goal, target, resets, wrote, intended>>
        /\ thread_' \in {thread_, "acquire"}
        /\ msgs' = IF acq.started THEN msgs ELSE msgs \cup Requests("acquire", range)
    BY <1>1 DEF start_acquire, block_until_acquired, Begin
  <1>3. kind # "WO"
    BY <1>2 DEF IInv, ControlOK
  <1>4. CASE acq.started
    <2>1. acq' = acq /\ msgs' = msgs /\ range' = range
      BY <1>1, <1>2, <1>4, BegunAlready
    <2>2. QED
      BY <1>1, <1>2, <1>3, <1>4, <2>1 DEF Sides
  <1>5. CASE ~acq.started
    BY <1>2, <1>3, <1>5, AcquireStarts DEF Sides
  <1>6. QED
    BY <1>4, <1>5

\* A release by a cache that has one.
LEMMA ReleaseStep ==
  ASSUME IInv, kind # "RO", start_release \/ block_until_released
  PROVE  /\ Sides' /\ rel'.started /\ rel'.done = rel.done /\ acq' = acq /\ ~rel.done /\ MayRelease
         /\ UNCHANGED <<kind, range, pointer_, storage, mem, goal, target, resets, wrote, intended>>
         /\ thread_' \in {thread_, "release"}
         /\ msgs' = IF rel.started THEN msgs ELSE msgs \cup Requests("release", range)
  <1>1. SideOK(rel) /\ (~rel.started => ~rel.done) /\ Sides
    BY DEF IInv, SideInv, Sides
  <1>2. /\ rel' = [rel EXCEPT !.started = TRUE] /\ acq' = acq /\ ~rel.done /\ MayRelease
        /\ UNCHANGED <<kind, range, pointer_, storage, mem, goal, target, resets, wrote, intended>>
        /\ thread_' \in {thread_, "release"}
        /\ msgs' = IF rel.started THEN msgs ELSE msgs \cup Requests("release", range)
    BY <1>1 DEF start_release, block_until_released, Begin
  <1>4. CASE rel.started
    <2>1. rel' = rel /\ msgs' = msgs /\ range' = range
      BY <1>1, <1>2, <1>4, BegunAlready
    <2>2. QED
      BY <1>1, <1>2, <1>4, <2>1 DEF Sides
  <1>5. CASE ~rel.started
    BY <1>2, <1>5, ReleaseStarts DEF Sides
  <1>6. QED
    BY <1>4, <1>5

\* NullReleaser.
LEMMA NullRelease ==
  ASSUME IInv, kind = "RO", start_release \/ block_until_released
  PROVE  /\ Sides' /\ rel'.started /\ rel'.done /\ acq' = acq /\ msgs' = msgs
         /\ UNCHANGED <<kind, range, pointer_, storage, mem, goal, target, resets, wrote, intended,
                        thread_>>
  <1>1. /\ rel' = AtOnce(range) /\ acq' = acq /\ msgs' = msgs
        /\ UNCHANGED <<kind, range, pointer_, storage, mem, goal, target, resets, wrote, intended,
                       thread_>>
    BY DEF start_release, block_until_released
  <1>2. Sides /\ range \in Ranges
    BY DEF IInv, Sides, ControlType
  <1>3. OutOf(msgs, "release") = {}
    BY DEF IInv, ControlOK, SideInv
  <1>4. SideInv(msgs, range, "release", AtOnce(range))
    BY <1>2, <1>3, SideFresh
  <1>5. rel'.started /\ rel'.done
    BY <1>1, <1>2, ResetIs
  <1>6. QED
    BY <1>1, <1>2, <1>4, <1>5 DEF Sides

\* The end of a reset: both sides are done, so nothing is under way.
LEMMA MoveStep ==
  ASSUME IInv, FinishReset
  PROVE  IInv' /\ msgs = {} /\ msgs' = {} /\ acq' = AcquirerFor(kind, target)
         /\ rel' = ReleaserFor(kind, target) /\ range \in ResetRanges /\ target \in ResetRanges
  <1>1. acq.done /\ rel.done /\ goal = "reset" /\ range' = target /\ msgs' = msgs /\ kind' = kind
        /\ acq' = AcquirerFor(kind, target) /\ rel' = ReleaserFor(kind, target) /\ wrote' = FALSE
        /\ goal' = "none" /\ thread_' = thread_ /\ target' = target /\ resets' = resets + 1
    BY DEF FinishReset, ReadyToMove
  <1>2. msgs = {}
    <2>1. OutOf(msgs, "acquire") = {} /\ OutOf(msgs, "release") = {}
      BY <1>1 DEF IInv, SideInv
    <2>2. \A m \in msgs : m.side \in {"acquire", "release"}
      BY DEF IInv, MsgsOK, MsgOK
    <2>3. QED
      BY <2>1, <2>2 DEF OutOf
  <1>3. kind \in Kinds /\ kind \in {"RO", "RW", "WO"} /\ target \in Ranges
    BY KindNames DEF IInv, ControlType
  <1>4. range \in ResetRanges /\ target \in ResetRanges
    BY <1>1 DEF IInv, ControlOK
  <1>5. Sides' /\ ControlOK'
    <2> DEFINE a == AcquirerFor(kind, target)
               b == ReleaserFor(kind, target)
    <2>1. /\ SideInv({}, target, "acquire", a) /\ SideInv({}, target, "release", b) /\ MsgsOK({}, target)
          /\ kind = "RO" => (b.started => b.done)
          /\ kind = "WO" => a.done
          /\ ~(b.started /\ ~b.done)
          /\ ShortCircuit(target) => a.done /\ (kind # "RO" => b.done)
      BY <1>3, NewSides
    <2>2. acq' = a /\ rel' = b /\ range' = target /\ msgs' = {} /\ wrote' = FALSE /\ kind' = kind
          /\ goal' = "none"
      BY <1>1, <1>2
    <2> HIDE DEF a, b
    <2>3. Sides'
      BY <2>1, <2>2 DEF Sides
    <2>4. ControlOK'
      BY <2>1, <2>2 DEF ControlOK
    <2>5. QED
      BY <2>3, <2>4
  <1>6. ControlType'
    <2>1. resets \in 0 .. MaxResets /\ resets < MaxResets /\ MaxResets \in Nat
      BY <1>1, CacheAssumption DEF IInv, ControlType, ControlOK
    <2>2. resets + 1 \in 0 .. MaxResets
      BY <2>1
    <2>3. QED
      BY <1>1, <1>3, <2>2 DEF IInv, ControlType
  <1>7. QED
    BY <1>1, <1>2, <1>4, <1>5, <1>6 DEF IInv, Sides

\* What the task may write, and begin: no message is sent or counted.
LEMMA QuietStep ==
  ASSUME IInv, Write \/ (\E r \in ResetRanges : reset(r)) \/ Destroy \/ Resume \/ OthersWrite
               \/ UNCHANGED vars
  PROVE  IInv' /\ UNCHANGED <<kind, range, pointer_, acq, rel, msgs>>
  <1>1. UNCHANGED <<kind, range, pointer_, acq, rel, msgs>>
    BY DEF Write, reset, Destroy, Resume, OthersWrite, vars
  <1>2. Sides'
    BY <1>1 DEF IInv, Sides
  <1>3. ControlType
    BY DEF IInv
  <1>4. ControlOK
    BY DEF IInv
  <1>5. ControlType'
    <2>1. CASE Write
      BY <1>3, <2>1 DEF Write, ControlType
    <2>2. CASE \E r \in ResetRanges : reset(r)
      BY <1>3, <2>2, CacheAssumption DEF reset, ControlType
    <2>3. CASE Destroy
      BY <1>3, <2>3 DEF Destroy, ControlType
    <2>4. CASE Resume
      BY <1>3, <2>4 DEF Resume, ControlType
    <2>5. CASE OthersWrite
      BY <1>3, <2>5 DEF OthersWrite, ControlType
    <2>6. CASE UNCHANGED vars
      BY <1>3, <2>6 DEF vars, ControlType
    <2>7. QED
      BY <2>1, <2>2, <2>3, <2>4, <2>5, <2>6
  <1>6. ControlOK'
    <2>1. CASE Write
      BY <1>1, <1>4, <2>1 DEF Write, ControlOK, Free
    <2>2. CASE \E r \in ResetRanges : reset(r)
      BY <1>1, <1>4, <2>2 DEF reset, ControlOK
    <2>3. CASE Destroy
      BY <1>1, <1>4, <2>3 DEF Destroy, ControlOK
    <2>4. CASE Resume
      BY <1>1, <1>4, <2>4 DEF Resume, ControlOK
    <2>5. CASE OthersWrite
      BY <1>1, <1>4, <2>5 DEF OthersWrite, ControlOK
    <2>6. CASE UNCHANGED vars
      BY <1>1, <1>4, <2>6 DEF vars, ControlOK
    <2>7. QED
      BY <2>1, <2>2, <2>3, <2>4, <2>5, <2>6
  <1>7. QED
    BY <1>1, <1>2, <1>5, <1>6 DEF IInv, Sides

\* The four calls of the task keep the invariant.
LEMMA StartStep ==
  ASSUME IInv, start_acquire \/ block_until_acquired \/ start_release \/ block_until_released
  PROVE  IInv'
  <1>1. ControlType /\ ControlOK
    BY DEF IInv
  <1>2. CASE start_acquire \/ block_until_acquired
    <2>1. /\ Sides' /\ acq'.started /\ acq'.done = acq.done /\ rel' = rel /\ ~acq.done
          /\ UNCHANGED <<kind, range, goal, target, resets, wrote>>
          /\ thread_' \in {thread_, "acquire"}
      BY <1>2, AcquireStep
    <2>2. ControlType'
      BY <1>1, <2>1 DEF ControlType
    <2>3. ControlOK'
      BY <1>1, <2>1 DEF ControlOK
    <2>4. QED
      BY <2>1, <2>2, <2>3 DEF IInv, Sides
  <1>3. CASE kind # "RO" /\ (start_release \/ block_until_released)
    <2>1. /\ Sides' /\ rel'.started /\ rel'.done = rel.done /\ acq' = acq /\ ~rel.done /\ MayRelease
          /\ UNCHANGED <<kind, range, goal, target, resets, wrote>>
          /\ thread_' \in {thread_, "release"}
      BY <1>3, ReleaseStep
    <2>2. ControlType'
      BY <1>1, <2>1 DEF ControlType
    <2>3. ControlOK'
      BY <1>1, <1>3, <2>1 DEF ControlOK, MayRelease
    <2>4. QED
      BY <2>1, <2>2, <2>3 DEF IInv, Sides
  <1>4. CASE kind = "RO" /\ (start_release \/ block_until_released)
    <2>1. /\ Sides' /\ rel'.started /\ rel'.done /\ acq' = acq
          /\ UNCHANGED <<kind, range, goal, target, resets, wrote, thread_>>
      BY <1>4, NullRelease
    <2>2. ControlType'
      BY <1>1, <2>1 DEF ControlType
    <2>3. ControlOK'
      BY <1>1, <1>4, <2>1 DEF ControlOK
    <2>4. QED
      BY <2>1, <2>2, <2>3 DEF IInv, Sides
  <1>5. QED
    BY <1>2, <1>3, <1>4

\* A message under way has its side at work; nothing is sent for an object of
\* this core, nor for no elements.
LEMMA MessageFacts ==
  ASSUME IInv, NEW m \in msgs
  PROVE  /\ range \in Ranges /\ MsgOK(m, range) /\ Bytes(range) > 0 /\ ~ShortCircuit(range)
         /\ \A k \in Part(m) : k \in 0 .. Bytes(range) - 1
         /\ m.side = "acquire" => acq.started /\ ~acq.done /\ ~wrote /\ kind # "WO"
         /\ m.side = "release" => rel.started /\ ~rel.done /\ acq.done /\ kind # "RO"
                                  /\ (kind = "WO" => wrote)
  <1>1. range \in Ranges /\ MsgOK(m, range) /\ ControlOK
    BY DEF IInv, ControlType, MsgsOK
  <1>2. /\ m.side \in {"acquire", "release"} /\ m.offset \in Offsets(range)
        /\ m = [side |-> m.side, stage |-> m.stage, offset |-> m.offset,
                bytes |-> request_bytes(range, m.offset)]
    BY <1>1 DEF MsgOK
  <1>3. m.bytes = request_bytes(range, m.offset)
    BY <1>2
  <1>4. \A k \in Part(m) : k \in 0 .. Bytes(range) - 1
    BY <1>1, <1>2, <1>3, PartOK DEF Part
  <1>5. Bytes(range) > 0 /\ range.count # 0
    <2>1. Bytes(range) \in Nat /\ (Bytes(range) = 0 <=> range.count = 0)
      BY <1>1, RangeOK
    <2>2. Bytes(range) # 0
      BY <1>1, <1>2, OffsetTurn
    <2>3. QED
      BY <2>1, <2>2
  <1>6. m.side = "acquire" => acq.started /\ ~acq.done
    <2>1. acq.done \/ ~acq.started => OutOf(msgs, "acquire") = {}
      BY DEF IInv, SideInv
    <2>2. QED
      BY <2>1 DEF OutOf
  <1>7. m.side = "release" => rel.started /\ ~rel.done
    <2>1. rel.done \/ ~rel.started => OutOf(msgs, "release") = {}
      BY DEF IInv, SideInv
    <2>2. QED
      BY <2>1 DEF OutOf
  <1>8. QED
    BY <1>1, <1>2, <1>4, <1>5, <1>6, <1>7 DEF ControlOK

\* So do the handlers.
LEMMA DeliverStep ==
  ASSUME IInv, NEW m \in msgs, Handle(m) \/ acquire_reply(m) \/ release_reply(m)
  PROVE  IInv'
  <1>1. ControlType /\ ControlOK /\ range \in Ranges
    BY DEF IInv, ControlType
  <1>2. CASE Handle(m)
    <2>1. /\ m.stage = "request" /\ msgs' = (msgs \ {m}) \cup {[m EXCEPT !.stage = "reply"]}
          /\ UNCHANGED <<kind, range, acq, rel, thread_, goal, target, resets, wrote>>
      BY <1>2 DEF Handle
    <2> DEFINE M2 == (msgs \ {m}) \cup {[m EXCEPT !.stage = "reply"]}
    <2>2. MsgsOK(M2, range) /\ \A side, s : SideInv(msgs, range, side, s) => SideInv(M2, range, side, s)
      BY <1>1, <2>1, HandleKeeps DEF IInv
    <2>3. msgs' = M2
      BY <2>1
    <2> HIDE DEF M2
    <2>4. Sides'
      BY <2>1, <2>2, <2>3 DEF IInv, Sides
    <2>5. ControlType' /\ ControlOK'
      BY <1>1, <2>1 DEF ControlType, ControlOK
    <2>6. QED
      BY <2>4, <2>5 DEF IInv, Sides
  <1>3. CASE acquire_reply(m)
    <2>1. /\ m.side = "acquire" /\ msgs' = msgs \ {m} /\ acq' = Counted(acq)
          /\ UNCHANGED <<kind, range, rel, thread_, goal, target, resets, wrote>>
      BY <1>3 DEF acquire_reply
    <2>2. /\ MsgsOK(msgs', range) /\ SideInv(msgs', range, "acquire", acq') /\ ~acq.done
          /\ OutOf(msgs', "release") = OutOf(msgs, "release")
      <3> DEFINE M2 == msgs \ {m}
      <3>1. /\ MsgsOK(M2, range) /\ SideInv(M2, range, m.side, Counted(acq)) /\ ~acq.done
            /\ \A other : other # m.side => OutOf(M2, other) = OutOf(msgs, other)
        BY <1>1, <2>1, ReplyKeeps DEF IInv
      <3>2. msgs' = M2
        BY <2>1
      <3> HIDE DEF M2
      <3>3. QED
        BY <2>1, <3>1, <3>2
    <2>3. SideInv(msgs', range, "release", rel)
      BY <2>2, SideSame DEF IInv
    <2>4. Sides'
      BY <2>1, <2>2, <2>3 DEF Sides
    <2>5. ControlType'
      BY <1>1, <2>1 DEF ControlType
    <2>6. ControlOK'
      <3>1. ~wrote /\ (rel.started => rel.done)
        BY <1>1, <2>2 DEF ControlOK
      <3>2. kind # "WO" /\ ~ShortCircuit(range)
        BY <1>1, <2>2 DEF ControlOK
      <3>3. QED
        BY <1>1, <2>1, <3>1, <3>2 DEF ControlOK
    <2>7. QED
      BY <2>4, <2>5, <2>6 DEF IInv, Sides
  <1>4. CASE release_reply(m)
    <2>1. /\ m.side = "release" /\ msgs' = msgs \ {m} /\ rel' = Counted(rel)
          /\ UNCHANGED <<kind, range, acq, thread_, goal, target, resets, wrote>>
      BY <1>4 DEF release_reply
    <2>2. /\ MsgsOK(msgs', range) /\ SideInv(msgs', range, "release", rel') /\ rel.started /\ ~rel.done
          /\ OutOf(msgs', "acquire") = OutOf(msgs, "acquire")
      <3> DEFINE M2 == msgs \ {m}
      <3>1. /\ MsgsOK(M2, range) /\ SideInv(M2, range, m.side, Counted(rel)) /\ rel.started /\ ~rel.done
            /\ \A other : other # m.side => OutOf(M2, other) = OutOf(msgs, other)
        BY <1>1, <2>1, ReplyKeeps, ZenonT(30) DEF IInv
      <3>2. msgs' = M2
        BY <2>1
      <3> HIDE DEF M2
      <3>3. QED
        BY <2>1, <3>1, <3>2
    <2>3. SideInv(msgs', range, "acquire", acq)
      BY <2>2, SideSame DEF IInv
    <2>4. Sides'
      BY <2>1, <2>2, <2>3 DEF Sides
    <2>5. ControlType'
      BY <1>1, <2>1 DEF ControlType
    <2>6. ControlOK'
      <3>1. acq.done /\ (kind = "WO" => wrote \/ range.count = 0) /\ kind # "RO" /\ ~ShortCircuit(range)
        BY <1>1, <2>2 DEF ControlOK
      <3>2. QED
        BY <1>1, <2>1, <3>1 DEF ControlOK
    <2>7. QED
      BY <2>4, <2>5, <2>6 DEF IInv, Sides
  <1>5. QED
    BY <1>2, <1>3, <1>4

\* Every step keeps the control part.
LEMMA StepIInv == IInv /\ [Next]_vars => IInv'
  <1> SUFFICES ASSUME IInv, [Next]_vars PROVE IInv'
    OBVIOUS
  <1>1. CASE start_acquire \/ block_until_acquired \/ start_release \/ block_until_released
    BY <1>1, StartStep
  <1>2. CASE Write \/ (\E r \in ResetRanges : reset(r)) \/ Destroy \/ Resume \/ OthersWrite
             \/ UNCHANGED vars
    BY <1>2, QuietStep
  <1>3. CASE FinishReset
    BY <1>3, MoveStep
  <1>4. CASE \E m \in msgs : Handle(m) \/ acquire_reply(m) \/ release_reply(m)
    BY <1>4, DeliverStep
  <1>5. QED
    BY <1>1, <1>2, <1>3, <1>4 DEF Next

\* The control part of the invariant: how far the two operations are, and what
\* is on its way for them.
THEOREM ControlInvariant == Spec => []IInv
  BY InitIInv, StepIInv, PTL DEF Spec

\* MessagesExact, for every size of a block and of an element and every range:
\* what reset computes from the addresses (block_max of the last byte,
\* block_min of the first) is the number of messages that the loop of
\* do_acquire and do_release sends, and none is left over when it is reached.
THEOREM MessagesCounted == Spec => []MessagesExact
  <1>1. IInv => MessagesExact
    <2> SUFFICES ASSUME IInv PROVE MessagesExact
      OBVIOUS
    <2>1. ASSUME NEW side, NEW s, SideInv(msgs, range, side, s)
          PROVE  LET out == {m \in msgs : m.side = side} IN
                 /\ s.started /\ ~s.done => Cardinality(out) + s.resp = s.num
                 /\ s.done \/ ~s.started => out = {}
      BY <2>1 DEF SideInv, OutOf
    <2>2. SideInv(msgs, range, "acquire", acq) /\ SideInv(msgs, range, "release", rel)
      BY DEF IInv
    <2>3. \A s \in {<<"acquire", acq>>, <<"release", rel>>} :
            LET out == {m \in msgs : m.side = s[1]} IN
            /\ s[2].started /\ ~s[2].done => Cardinality(out) + s[2].resp = s[2].num
            /\ s[2].done \/ ~s[2].started => out = {}
      <3> SUFFICES ASSUME NEW s \in {<<"acquire", acq>>, <<"release", rel>>}
                   PROVE  LET out == {m \in msgs : m.side = s[1]} IN
                          /\ s[2].started /\ ~s[2].done => Cardinality(out) + s[2].resp = s[2].num
                          /\ s[2].done \/ ~s[2].started => out = {}
        OBVIOUS
      <3>1. SideInv(msgs, range, s[1], s[2])
        <4>1. (s[1] = "acquire" /\ s[2] = acq) \/ (s[1] = "release" /\ s[2] = rel)
          OBVIOUS
        <4>2. QED
          BY <2>2, <4>1
      <3>2. QED
        BY <2>1, <3>1
    <2>4. ASSUME NEW m \in msgs, NEW k \in m.offset .. m.offset + m.bytes - 1, ~is_2D(range.address)
          PROVE  block_min(range.address.at + k) = block_min(range.address.at + m.offset)
      <3>1. range \in Ranges /\ MsgOK(m, range)
        BY MessageFacts
      <3>2. m.offset \in Offsets(range) /\ m.bytes = request_bytes(range, m.offset)
        BY <3>1 DEF MsgOK
      <3>3. QED
        BY <2>4, <3>1, <3>2, PartOK
    <2>5. QED
      BY <2>3, <2>4 DEF MessagesExact
  <1>2. QED
    BY <1>1, ControlInvariant, PTL

(***************************************************************************)
(* The data                                                                *)
(***************************************************************************)
\* The cells of a range and their bytes.
LEMMA CellIs ==
  ASSUME range \in Ranges
  PROVE  /\ \A k \in 0 .. Bytes(range) - 1 :
              /\ Cell(k) \in Cells /\ Cell(k) \in CellsOf(range)
              /\ Cell(k)[1] = range.address.core /\ Cell(k)[2] - range.address.at = k
              /\ k \in 0 .. MemSize - 1
         /\ \A c \in Cells :
              /\ c \in CellsOf(range) <=> /\ c[1] = range.address.core
                                          /\ c[2] - range.address.at \in 0 .. Bytes(range) - 1
              /\ c[1] = range.address.core => c = Cell(c[2] - range.address.at)
  <1> DEFINE a == range.address.at
             h == range.address.core
             B == Bytes(range)
  <1>1. a \in 0 .. MemSize - 1 /\ B \in Nat /\ a + B <= MemSize /\ h \in Cores \cup {Linear}
        /\ MemSize \in Nat
    BY RangeOK
  <1>2. CellsOf(range) = {<<h, a + k>> : k \in 0 .. B - 1}
    BY DEF CellsOf
  <1>3. \A k : Cell(k) = <<h, a + k>>
    BY DEF Cell
  <1> HIDE DEF a, h, B
  <1>4. ASSUME NEW k \in 0 .. B - 1
        PROVE  /\ Cell(k) \in Cells /\ Cell(k) \in CellsOf(range)
               /\ Cell(k)[1] = h /\ Cell(k)[2] - a = k /\ k \in 0 .. MemSize - 1
    <2>1. a + k \in 0 .. MemSize - 1 /\ (a + k) - a = k /\ k \in 0 .. MemSize - 1
      BY <1>1
    <2>2. QED
      BY <1>1, <1>2, <1>3, <2>1 DEF Cells
  <1>5. ASSUME NEW c \in Cells
        PROVE  /\ c \in CellsOf(range) <=> (c[1] = h /\ c[2] - a \in 0 .. B - 1)
               /\ c[1] = h => c = Cell(c[2] - a)
    <2>1. c = <<c[1], c[2]>> /\ c[2] \in 0 .. MemSize - 1
      BY DEF Cells
    <2>2. a + (c[2] - a) = c[2] /\ c[2] \in Int /\ a \in Int
      BY <1>1, <2>1
    <2>3. c[1] = h => c = Cell(c[2] - a)
      BY <1>3, <2>1, <2>2
    <2>4. ASSUME NEW k \in 0 .. B - 1, c = <<h, a + k>> PROVE c[1] = h /\ c[2] - a = k
      <3>1. c[1] = h /\ c[2] = a + k
        BY <2>4
      <3>2. QED
        BY <1>1, <3>1
    <2>5. c \in CellsOf(range) => (c[1] = h /\ c[2] - a \in 0 .. B - 1)
      BY <1>2, <2>4
    <2>6. c[1] = h /\ c[2] - a \in 0 .. B - 1 => c \in CellsOf(range)
      BY <1>2, <1>3, <2>3
    <2>7. QED
      BY <2>3, <2>5, <2>6
  <1>6. QED
    BY <1>4, <1>5 DEF a, h, B

\* Where *pointer_ points when the range has elements.
LEMMA PointerIs ==
  ASSUME range \in Ranges, PointerOK, Bytes(range) > 0
  PROVE  /\ ~ShortCircuit(range) => pointer_ = [to |-> "storage"]
         /\ ShortCircuit(range) => pointer_ = Memory(range)
  <1>1. range.count # 0
    BY RangeOK
  <1>2. QED
    BY <1>1 DEF PointerOK, AfterReset

\* What the task sees of a byte.
LEMMA AtIs ==
  ASSUME range \in Ranges, PointerOK, NEW k \in 0 .. Bytes(range) - 1
  PROVE  /\ ~ShortCircuit(range) => At(k) = storage[k]
         /\ ShortCircuit(range) => At(k) = mem[Cell(k)]
  <1>1. Bytes(range) > 0
    BY RangeOK
  <1>2. CASE ~ShortCircuit(range)
    BY <1>1, <1>2, PointerIs DEF At
  <1>3. CASE ShortCircuit(range)
    <2>1. pointer_ = [to |-> "memory", address |-> range.address]
      BY <1>1, <1>3, PointerIs DEF Memory
    <2>2. pointer_.to # "storage" /\ pointer_.address = range.address
      BY <2>1
    <2>3. QED
      BY <1>3, <2>2 DEF At, Cell
  <1>4. QED
    BY <1>2, <1>3

\* A new cache has written nothing.
LEMMA InitData == Init => Data
  <1> SUFFICES ASSUME Init PROVE Data
    OBVIOUS
  <1>1. range \in Ranges /\ kind \in {"RO", "RW", "WO"} /\ MemSize \in Nat
    BY CacheAssumption DEF Init
  <1>2. PointerOK
    BY DEF Init, PointerOK
  <1>3. mem = [c \in Cells |-> (c[1] + 1) * MemSize + c[2]] /\ intended = mem /\ wrote = FALSE
        /\ storage = [k \in 0 .. MemSize - 1 |-> -1] /\ acq = AcquirerFor(kind, range)
    BY DEF Init
  <1>4. DataType
    <2>1. ASSUME NEW c \in Cells PROVE (c[1] + 1) * MemSize + c[2] \in Int
      <3>1. c[1] \in Int /\ c[2] \in Int
        BY CacheAssumption DEF Cells, Cores, Linear
      <3>2. \A x, y, z \in Int : (x + 1) * y + z \in Int
        OBVIOUS
      <3>3. QED
        BY <1>1, <3>1, <3>2
    <2>2. QED
      BY <1>3, <2>1 DEF DataType
  <1>5. AcquireOK
    <2> SUFFICES ASSUME kind # "WO", acq.started, ~ShortCircuit(range)
                 PROVE  \A k \in 0 .. Bytes(range) - 1 : storage[k] = mem[Cell(k)]
      BY DEF AcquireOK
    <2>1. range.count = 0
      BY <1>1, <1>3, ResetIs
    <2>2. QED
      BY <1>1, <2>1, RangeOK
  <1>6. WriteOK /\ ElsewhereOK
    BY <1>3 DEF WriteOK, ElsewhereOK
  <1>7. QED
    BY <1>2, <1>4, <1>5, <1>6 DEF Data

\* Once both operations are over or there is nothing to write back, memory is
\* as it is meant to be.
LEMMA HomeExact ==
  ASSUME IInv, Data, NEW c \in Cells, mem[c] # intended[c]
  PROVE  wrote /\ ~rel.done /\ c \in CellsOf(range)
  <1>1. c \in CellsOf(range) /\ wrote /\ ~ShortCircuit(range) /\ range \in Ranges
    BY DEF Data, ElsewhereOK, IInv, ControlType
  <1>2. ASSUME rel.done PROVE FALSE
    <2> DEFINE k == c[2] - range.address.at
    <2>1. k \in 0 .. Bytes(range) - 1 /\ c = Cell(k)
      BY <1>1, CellIs
    <2>2. rel.started /\ OutOf(msgs, "release") = {}
      BY <1>2 DEF IInv, SideInv
    <2> HIDE DEF k
    <2>3. storage[k] = intended[Cell(k)] /\ storage[k] = mem[Cell(k)]
      BY <1>1, <2>1, <2>2 DEF Data, WriteOK, OutOf
    <2>4. QED
      BY <2>1, <2>3
  <1>3. QED
    BY <1>1, <1>2

\* The steps that leave the data alone.
LEMMA SendData ==
  ASSUME IInv, Data,
         start_acquire \/ block_until_acquired \/ start_release \/ block_until_released
  PROVE  Data'
  <1>1. UNCHANGED <<kind, range, pointer_, storage, mem, wrote, intended>>
    BY DEF start_acquire, block_until_acquired, start_release, block_until_released
  <1>2. range \in Ranges
    BY DEF IInv, ControlType
  <1>3. DataType' /\ PointerOK' /\ ElsewhereOK'
    BY <1>1 DEF Data, DataType, PointerOK, ElsewhereOK
  <1>4. \A k : Cell(k)' = Cell(k)
    BY <1>1 DEF Cell
  <1>5. CASE start_acquire \/ block_until_acquired
    <2>1. /\ rel' = rel /\ acq'.started
          /\ msgs' = IF acq.started THEN msgs ELSE msgs \cup Requests("acquire", range)
      BY <1>5, AcquireStep
    <2>2. WriteOK'
      BY <1>1, <1>4, <2>1 DEF Data, WriteOK
    <2>3. AcquireOK'
      <3>1. CASE acq.started
        BY <1>1, <1>4, <2>1, <3>1 DEF Data, AcquireOK
      <3>2. CASE ~acq.started
        <4>1. \A m \in Requests("acquire", range) : m.side = "acquire"
          BY <1>2, RequestsOK
        <4>2. \A k \in 0 .. Bytes(range) - 1 : \E m \in Requests("acquire", range) : k \in Part(m)
          BY <1>2, RequestsOK
        <4>3. QED
          BY <1>1, <2>1, <3>2, <4>1, <4>2 DEF AcquireOK
      <3>3. QED
        BY <3>1, <3>2
    <2>4. QED
      BY <1>3, <2>2, <2>3 DEF Data
  <1>6. CASE kind # "RO" /\ (start_release \/ block_until_released)
    <2>1. /\ acq' = acq /\ rel'.started
          /\ msgs' = IF rel.started THEN msgs ELSE msgs \cup Requests("release", range)
      BY <1>6, ReleaseStep
    <2>2. AcquireOK'
      BY <1>1, <1>4, <2>1 DEF Data, AcquireOK
    <2>3. WriteOK'
      <3>1. CASE rel.started
        BY <1>1, <1>4, <2>1, <3>1 DEF Data, WriteOK
      <3>2. CASE ~rel.started
        <4>1. \A m \in Requests("release", range) : m.side = "release" /\ m.stage = "request"
          BY <1>2, RequestsOK
        <4>2. \A k \in 0 .. Bytes(range) - 1 : \E m \in Requests("release", range) : k \in Part(m)
          BY <1>2, RequestsOK
        <4>3. \A k \in 0 .. Bytes(range) - 1 :
                 \E m \in msgs' : m.side = "release" /\ m.stage = "request" /\ k \in Part(m)
          BY <2>1, <3>2, <4>1, <4>2
        <4>4. QED
          BY <1>1, <1>4, <4>3 DEF Data, WriteOK
      <3>3. QED
        BY <3>1, <3>2
    <2>4. QED
      BY <1>3, <2>2, <2>3 DEF Data
  <1>7. CASE kind = "RO" /\ (start_release \/ block_until_released)
    <2>1. acq' = acq /\ msgs' = msgs /\ ~wrote
      BY <1>7, NullRelease DEF IInv, ControlOK
    <2>2. AcquireOK'
      BY <1>1, <1>4, <2>1 DEF Data, AcquireOK
    <2>3. WriteOK'
      BY <1>1, <2>1 DEF WriteOK
    <2>4. QED
      BY <1>3, <2>2, <2>3 DEF Data
  <1>8. QED
    BY <1>5, <1>6, <1>7

\* Nor do these touch data.
LEMMA QuietData ==
  ASSUME IInv, Data, (\E r \in ResetRanges : reset(r)) \/ Destroy \/ Resume \/ UNCHANGED vars
  PROVE  Data'
  <1>1. UNCHANGED <<kind, range, pointer_, storage, mem, wrote, intended, acq, rel, msgs>>
    BY DEF reset, Destroy, Resume, vars
  <1>2. \A k : Cell(k)' = Cell(k)
    BY <1>1 DEF Cell
  <1>3. QED
    BY <1>1, <1>2 DEF Data, DataType, PointerOK, AcquireOK, WriteOK, ElsewhereOK

\* The data after a reset: memory is as it is meant to be.
LEMMA MoveData ==
  ASSUME ResetsFit, IInv, Data, FinishReset
  PROVE  Data'
  <1>1. /\ acq' = AcquirerFor(kind, target) /\ range \in ResetRanges /\ target \in ResetRanges
        /\ target \in Ranges
    BY MoveStep DEF IInv, ControlType
  <1>2. /\ rel.done /\ wrote' = FALSE /\ range' = target
        /\ pointer_' = IF kind = "WO" THEN pointer_ ELSE AfterReset(kind, target, pointer_)
        /\ UNCHANGED <<kind, storage, mem, intended>>
    BY DEF FinishReset, ReadyToMove
  <1>3. /\ range.count > 0 /\ ~ShortCircuit(range) /\ range.count # 0
        /\ target.count > 0 /\ ~ShortCircuit(target) /\ target.count # 0
    <2>1. /\ range.count > 0 /\ ~ShortCircuit(range)
          /\ target.count > 0 /\ ~ShortCircuit(target)
      BY <1>1 DEF ResetsFit
    <2>2. ~(0 > 0)
      OBVIOUS
    <2>3. QED
      BY <2>1, <2>2
  <1>4. pointer_ = [to |-> "storage"]
    BY <1>3 DEF Data, PointerOK, AfterReset
  <1>5. PointerOK'
    BY <1>2, <1>3, <1>4 DEF PointerOK, AfterReset
  <1>6. DataType'
    BY <1>2 DEF Data, DataType
  <1>7. kind # "WO" => ~acq'.started
    BY <1>1, <1>3, ResetIs
  <1>8. AcquireOK' /\ WriteOK'
    BY <1>2, <1>7 DEF AcquireOK, WriteOK
  <1>9. ElsewhereOK'
    <2>1. \A c \in Cells : mem[c] = intended[c]
      BY <1>2, HomeExact
    <2>2. QED
      BY <1>2, <2>1 DEF ElsewhereOK
  <1>10. QED
    BY <1>5, <1>6, <1>8, <1>9 DEF Data

\* The task writes: into the storage, or into its own object.
LEMMA WriteData ==
  ASSUME IInv, Data, Write
  PROVE  Data'
  <1> DEFINE a == range.address.at
             h == range.address.core
             B == Bytes(range)
             news(k) == NewValue(resets, k)
  <1>1. /\ kind # "RO" /\ acq.done /\ range.count > 0 /\ ~wrote /\ (rel.started => ShortCircuit(range))
        /\ wrote' = TRUE /\ UNCHANGED <<kind, range, pointer_, acq, rel, msgs>>
    BY DEF Write
  <1>2. range \in Ranges /\ resets \in 0 .. MaxResets /\ DataType /\ PointerOK /\ MaxResets \in Nat
    BY CacheAssumption DEF IInv, ControlType, Data
  <1>3. B \in Nat /\ B > 0 /\ a \in Nat /\ MemSize \in Nat
    BY <1>1, <1>2, RangeOK
  <1>4. \A k \in Int : news(k) \in Int
    <2>1. resets \in Int
      BY <1>2
    <2>2. QED
      BY <2>1 DEF NewValue
  <1>5. intended' = [c \in Cells |-> IF c \in CellsOf(range) THEN news(c[2] - a) ELSE intended[c]]
    BY DEF Write
  <1> HIDE DEF news
  <1>6. \A c \in Cells : c[2] \in Int /\ c[2] - a \in Int
    BY <1>3 DEF Cells
  <1>7. intended' \in [Cells -> Int]
    BY <1>2, <1>4, <1>5, <1>6 DEF DataType
  <1>8. PointerOK' /\ AcquireOK'
    BY <1>1, <1>2 DEF PointerOK, AcquireOK
  <1>9. \A c \in Cells : mem[c] = intended[c]
    BY <1>1 DEF Data, ElsewhereOK
  <1>10. \A k : Cell(k)' = Cell(k)
    BY <1>1 DEF Cell
  <1>11. CASE ~ShortCircuit(range)
    <2>1. pointer_.to = "storage"
      BY <1>2, <1>3, <1>11, PointerIs
    <2>2. /\ storage' = [k \in DOMAIN storage |-> IF k < B THEN news(k) ELSE storage[k]]
          /\ mem' = mem
      BY <2>1 DEF Write, news
    <2>3. DOMAIN storage = 0 .. MemSize - 1 /\ \A k \in 0 .. MemSize - 1 : k \in Int /\ storage[k] \in Int
      BY <1>2 DEF DataType
    <2>4. storage' \in [0 .. MemSize - 1 -> Int]
      BY <1>4, <2>2, <2>3
    <2>5. DataType'
      BY <1>2, <1>7, <2>2, <2>4 DEF DataType
    <2>6. WriteOK'
      <3>1. ASSUME NEW k \in 0 .. B - 1 PROVE storage'[k] = intended'[Cell(k)]
        <4>1. /\ Cell(k) \in Cells /\ Cell(k) \in CellsOf(range) /\ Cell(k)[2] - a = k
              /\ k \in 0 .. MemSize - 1
          BY <1>2, CellIs
        <4>2. intended'[Cell(k)] = news(k)
          BY <1>5, <4>1
        <4>3. k < B
          BY <1>3
        <4>4. storage'[k] = news(k)
          BY <2>2, <2>3, <4>1, <4>3
        <4>5. QED
          BY <4>2, <4>4
      <3>2. ~rel'.started
        BY <1>1, <1>11
      <3>3. QED
        BY <1>1, <1>10, <3>1, <3>2 DEF WriteOK
    <2>7. ElsewhereOK'
      <3>1. ASSUME NEW c \in Cells, c \notin CellsOf(range) PROVE mem'[c] = intended'[c]
        BY <1>5, <1>9, <2>2, <3>1
      <3>2. QED
        BY <1>1, <1>11, <3>1 DEF ElsewhereOK
    <2>8. QED
      BY <1>8, <2>5, <2>6, <2>7 DEF Data
  <1>12. CASE ShortCircuit(range)
    <2>1. pointer_ = [to |-> "memory", address |-> range.address]
      BY <1>2, <1>3, <1>12, PointerIs DEF Memory
    <2>2. pointer_.to # "storage" /\ pointer_.address = range.address
      BY <2>1
    <2>3. /\ storage' = storage
          /\ mem' = [c \in Cells |-> IF c[1] = h /\ c[2] - a \in 0 .. B - 1 THEN news(c[2] - a) ELSE mem[c]]
      BY <2>2 DEF Write, news
    <2>4. ASSUME NEW c \in Cells PROVE mem'[c] = intended'[c]
      <3>1. c \in CellsOf(range) <=> c[1] = h /\ c[2] - a \in 0 .. B - 1
        BY <1>2, CellIs
      <3>2. mem'[c] = IF c[1] = h /\ c[2] - a \in 0 .. B - 1 THEN news(c[2] - a) ELSE mem[c]
        BY <2>3
      <3>3. intended'[c] = IF c \in CellsOf(range) THEN news(c[2] - a) ELSE intended[c]
        BY <1>5
      <3>4. QED
        BY <1>9, <3>1, <3>2, <3>3
    <2>5. mem' \in [Cells -> Int]
      BY <1>2, <1>4, <1>6, <2>3 DEF DataType
    <2>6. DataType'
      BY <1>2, <1>7, <2>3, <2>5 DEF DataType
    <2>7. ElsewhereOK' /\ WriteOK'
      BY <1>1, <1>12, <2>4 DEF ElsewhereOK, WriteOK
    <2>8. QED
      BY <1>8, <2>6, <2>7 DEF Data
  <1>13. QED
    BY <1>11, <1>12

\* A release request is handled: its part of the storage is now in memory.
LEMMA HandleData ==
  ASSUME IInv, Data, NEW m \in msgs, Handle(m)
  PROVE  Data'
  <1> DEFINE a == range.address.at
             h == range.address.core
             B == Bytes(range)
             n == [m EXCEPT !.stage = "reply"]
  <1>1. /\ m.stage = "request" /\ msgs' = (msgs \ {m}) \cup {n}
        /\ mem' = IF m.side = "acquire" THEN mem
                  ELSE [c \in Cells |-> IF c[1] = h /\ c[2] - a \in Part(m) THEN At(c[2] - a) ELSE mem[c]]
        /\ UNCHANGED <<kind, range, pointer_, storage, acq, rel, wrote, intended>>
    BY DEF Handle, Part
  <1>2. /\ range \in Ranges /\ MsgOK(m, range) /\ B > 0 /\ ~ShortCircuit(range)
        /\ \A k \in Part(m) : k \in 0 .. B - 1
        /\ m.side = "acquire" => acq.started /\ ~acq.done /\ ~wrote /\ kind # "WO"
        /\ m.side = "release" => rel.started /\ ~rel.done /\ acq.done /\ kind # "RO" /\ (kind = "WO" => wrote)
    BY MessageFacts
  <1>3. n.side = m.side /\ n.stage = "reply" /\ Part(n) = Part(m)
    BY <1>1, <1>2, HandleKeeps DEF IInv
  <1> HIDE DEF n
  <1>4. \A k : Cell(k)' = Cell(k)
    BY <1>1 DEF Cell
  <1>5. DataType /\ PointerOK /\ AcquireOK /\ WriteOK /\ ElsewhereOK
    BY DEF Data
  <1>6. PointerOK'
    BY <1>1, <1>5 DEF PointerOK
  <1>7. m.side = "acquire" \/ m.side = "release"
    BY <1>2 DEF MsgOK
  <1>8. CASE m.side = "acquire"
    <2>1. mem' = mem
      BY <1>1, <1>8
    <2>2. DataType' /\ ElsewhereOK' /\ WriteOK'
      BY <1>1, <1>2, <1>5, <1>8, <2>1 DEF DataType, ElsewhereOK, WriteOK
    <2>3. \A k : (\E x \in msgs : x.side = "acquire" /\ k \in Part(x)) =>
                 (\E x \in msgs' : x.side = "acquire" /\ k \in Part(x))
      BY <1>1, <1>3
    <2>4. AcquireOK'
      BY <1>1, <1>4, <1>5, <2>1, <2>3 DEF AcquireOK
    <2>5. QED
      BY <1>6, <2>2, <2>4 DEF Data
  <1>9. CASE m.side = "release"
    <2>1. mem' = [c \in Cells |-> IF c[1] = h /\ c[2] - a \in Part(m) THEN At(c[2] - a) ELSE mem[c]]
      BY <1>1, <1>9
    <2>2. \A k \in 0 .. B - 1 : At(k) = storage[k] /\ storage[k] \in Int
      <3>1. \A k \in 0 .. B - 1 : k \in 0 .. MemSize - 1
        BY <1>2, CellIs
      <3>2. QED
        BY <1>2, <1>5, <3>1, AtIs DEF DataType
    <2>3. ASSUME NEW c \in Cells
          PROVE  mem'[c] = IF c[1] = h /\ c[2] - a \in Part(m) THEN storage[c[2] - a] ELSE mem[c]
      BY <1>2, <2>1, <2>2
    <2>4. ASSUME NEW k \in 0 .. B - 1
          PROVE  mem'[Cell(k)] = IF k \in Part(m) THEN storage[k] ELSE mem[Cell(k)]
      <3>1. Cell(k) \in Cells /\ Cell(k)[1] = h /\ Cell(k)[2] - a = k
        BY <1>2, CellIs
      <3>2. QED
        BY <2>3, <3>1
    <2>5. DataType'
      <3>1. mem' \in [Cells -> Int]
        BY <1>2, <1>5, <2>1, <2>2 DEF DataType
      <3>2. QED
        BY <1>1, <1>5, <3>1 DEF DataType
    <2>6. \A x \in msgs : x.side # "acquire"
      <3>1. OutOf(msgs, "acquire") = {}
        BY <1>2, <1>9 DEF IInv, SideInv
      <3>2. QED
        BY <3>1 DEF OutOf
    <2>7. acq.started
      BY <1>2, <1>9 DEF IInv, SideInv
    <2>8. kind # "WO" /\ ~wrote => \A k \in 0 .. B - 1 : storage[k] = mem[Cell(k)]
      BY <1>2, <1>5, <2>6, <2>7 DEF AcquireOK
    <2>9. AcquireOK'
      <3>1. kind # "WO" /\ ~wrote => \A k \in 0 .. B - 1 : storage[k] = mem'[Cell(k)]
        BY <2>4, <2>8
      <3>2. QED
        BY <1>1, <1>4, <3>1 DEF AcquireOK
    <2>10. WriteOK'
      <3> SUFFICES ASSUME wrote, NEW k \in 0 .. B - 1
                   PROVE  /\ storage[k] = intended[Cell(k)]
                          /\ \/ \E x \in msgs' : x.side = "release" /\ x.stage = "request" /\ k \in Part(x)
                             \/ storage[k] = mem'[Cell(k)]
        BY <1>1, <1>4 DEF WriteOK
      <3>1. /\ storage[k] = intended[Cell(k)]
            /\ \/ \E x \in msgs : x.side = "release" /\ x.stage = "request" /\ k \in Part(x)
               \/ storage[k] = mem[Cell(k)]
        BY <1>2, <1>5, <1>9 DEF WriteOK
      <3>2. CASE k \in Part(m)
        BY <2>4, <3>1, <3>2
      <3>3. CASE k \notin Part(m)
        BY <1>1, <2>4, <3>1, <3>3
      <3>4. QED
        BY <3>2, <3>3
    <2>11. ElsewhereOK'
      <3>1. ASSUME NEW c \in Cells, c \notin CellsOf(range) \/ ~wrote PROVE mem'[c] = intended[c]
        <4>1. mem[c] = intended[c]
          BY <1>5, <3>1 DEF ElsewhereOK
        <4>2. CASE c[1] = h /\ c[2] - a \in Part(m)
          <5> DEFINE k == c[2] - a
          <5>1. k \in 0 .. B - 1 /\ c = Cell(k) /\ c \in CellsOf(range)
            BY <1>2, <4>2, CellIs
          <5> HIDE DEF k
          <5>2. ~wrote
            BY <3>1, <5>1
          <5>3. storage[k] = mem[c]
            BY <1>2, <1>9, <2>8, <5>1, <5>2
          <5>4. mem'[c] = storage[k] \/ mem'[c] = mem[c]
            BY <2>4, <5>1
          <5>5. QED
            BY <4>1, <5>3, <5>4
        <4>3. CASE ~(c[1] = h /\ c[2] - a \in Part(m))
          BY <2>3, <4>1, <4>3
        <4>4. QED
          BY <4>2, <4>3
      <3>2. QED
        BY <1>1, <1>2, <3>1 DEF ElsewhereOK
    <2>12. QED
      BY <1>6, <2>5, <2>9, <2>10, <2>11 DEF Data
  <1>10. QED
    BY <1>7, <1>8, <1>9

\* A reply to an acquire brings its part of the range.
LEMMA AcquireReplyData ==
  ASSUME IInv, Data, NEW m \in msgs, acquire_reply(m)
  PROVE  Data'
  <1> DEFINE B == Bytes(range)
  <1>1. m.side = "acquire"
    BY DEF acquire_reply
  <1>2. /\ range \in Ranges /\ B > 0 /\ ~ShortCircuit(range) /\ ~wrote
        /\ \A k \in Part(m) : k \in 0 .. B - 1
        /\ acq.started
    BY <1>1, MessageFacts
  <1>3. DataType /\ PointerOK /\ AcquireOK /\ WriteOK /\ ElsewhereOK
    BY DEF Data
  <1>4. pointer_.to = "storage"
    BY <1>2, <1>3, PointerIs
  <1>5. /\ storage' = [k \in DOMAIN storage |-> IF k \in Part(m) THEN mem[Cell(k)] ELSE storage[k]]
        /\ mem' = mem /\ msgs' = msgs \ {m}
        /\ UNCHANGED <<kind, range, pointer_, rel, wrote, intended>>
    BY <1>4 DEF acquire_reply, Part, Cell
  <1>6. \A k : Cell(k)' = Cell(k)
    BY <1>5 DEF Cell
  <1>7. DOMAIN storage = 0 .. MemSize - 1
    BY <1>3 DEF DataType
  <1>8. \A k \in 0 .. B - 1 : Cell(k) \in Cells /\ k \in 0 .. MemSize - 1
    BY <1>2, CellIs
  <1>9. DataType'
    <2>1. storage' \in [0 .. MemSize - 1 -> Int]
      BY <1>2, <1>3, <1>5, <1>7, <1>8 DEF DataType
    <2>2. QED
      BY <1>3, <1>5, <2>1 DEF DataType
  <1>10. PointerOK' /\ ElsewhereOK' /\ WriteOK'
    BY <1>2, <1>3, <1>5 DEF PointerOK, ElsewhereOK, WriteOK
  <1>11. AcquireOK'
    <2> SUFFICES ASSUME kind # "WO", NEW k \in 0 .. B - 1
                 PROVE  \/ \E x \in msgs' : x.side = "acquire" /\ k \in Part(x)
                        \/ storage'[k] = mem[Cell(k)]
      BY <1>5, <1>6 DEF AcquireOK
    <2>1. \/ \E x \in msgs : x.side = "acquire" /\ k \in Part(x)
          \/ storage[k] = mem[Cell(k)]
      BY <1>2, <1>3 DEF AcquireOK
    <2>2. storage'[k] = IF k \in Part(m) THEN mem[Cell(k)] ELSE storage[k]
      BY <1>5, <1>7, <1>8
    <2>3. QED
      BY <1>5, <2>1, <2>2
  <1>12. QED
    BY <1>9, <1>10, <1>11 DEF Data

\* A reply to a release carries nothing.
LEMMA ReleaseReplyData ==
  ASSUME IInv, Data, NEW m \in msgs, release_reply(m)
  PROVE  Data'
  <1>1. /\ m.side = "release" /\ m.stage = "reply" /\ rel' = Counted(rel) /\ msgs' = msgs \ {m}
        /\ UNCHANGED <<kind, range, pointer_, storage, mem, acq, wrote, intended>>
    BY DEF release_reply
  <1>2. \A k : Cell(k)' = Cell(k)
    BY <1>1 DEF Cell
  <1>3. rel'.started = rel.started
    BY <1>1, SideFields DEF IInv, SideInv
  <1>4. DataType' /\ PointerOK' /\ ElsewhereOK'
    BY <1>1 DEF Data, DataType, PointerOK, ElsewhereOK
  <1>5. \A k : (\E x \in msgs : x.side = "acquire" /\ k \in Part(x)) =>
               (\E x \in msgs' : x.side = "acquire" /\ k \in Part(x))
    BY <1>1
  <1>6. \A k : (\E x \in msgs : x.side = "release" /\ x.stage = "request" /\ k \in Part(x)) =>
               (\E x \in msgs' : x.side = "release" /\ x.stage = "request" /\ k \in Part(x))
    BY <1>1
  <1>7. AcquireOK'
    BY <1>1, <1>2, <1>5 DEF Data, AcquireOK
  <1>8. WriteOK'
    BY <1>1, <1>2, <1>3, <1>6 DEF Data, WriteOK
  <1>9. QED
    BY <1>4, <1>7, <1>8 DEF Data

\* The owners of the memory behind the buffer do not touch the range.
LEMMA OthersData ==
  ASSUME IInv, Data, BufferOK, OthersWrite
  PROVE  Data'
  <1>1. UNCHANGED <<kind, range, pointer_, allocated, mem, wrote, intended, acq, rel, msgs>>
    BY DEF OthersWrite
  <1>2. \A k : Cell(k)' = Cell(k)
    BY <1>1 DEF Cell
  <1>3. range \in Ranges /\ DOMAIN storage = 0 .. MemSize - 1 /\ \A k \in DOMAIN storage : storage[k] \in Int
    BY DEF IInv, ControlType, Data, DataType
  <1>4. PICK v \in Others :
          storage' = [k \in DOMAIN storage |-> IF k < allocated THEN storage[k] ELSE v]
    BY DEF OthersWrite
  <1>5. \A k \in 0 .. Bytes(range) - 1 : storage'[k] = storage[k]
    <2>1. Bytes(range) \in Nat /\ allocated \in Nat /\ Bytes(range) <= allocated
      BY <1>3, RangeOK DEF BufferOK
    <2>2. \A k \in 0 .. Bytes(range) - 1 : k < allocated /\ k \in DOMAIN storage
      BY <1>3, <2>1, CellIs
    <2>3. QED
      BY <1>4, <2>2
  <1>6. storage' \in [0 .. MemSize - 1 -> Int]
    <2>1. v \in Int
      BY DEF Others
    <2>2. QED
      BY <1>3, <1>4, <2>1
  <1>7. DataType' /\ PointerOK' /\ ElsewhereOK'
    BY <1>1, <1>6 DEF Data, DataType, PointerOK, ElsewhereOK
  <1>8. AcquireOK' /\ WriteOK'
    BY <1>1, <1>2, <1>5 DEF Data, AcquireOK, WriteOK
  <1>9. QED
    BY <1>7, <1>8 DEF Data

\* Every step keeps the data part.
LEMMA StepData == ResetsFit /\ IInv /\ Data /\ BufferOK /\ [Next]_vars => Data'
  <1> SUFFICES ASSUME ResetsFit, IInv, Data, BufferOK, [Next]_vars PROVE Data'
    OBVIOUS
  <1>1. CASE start_acquire \/ block_until_acquired \/ start_release \/ block_until_released
    BY <1>1, SendData
  <1>2. CASE (\E r \in ResetRanges : reset(r)) \/ Destroy \/ Resume \/ UNCHANGED vars
    BY <1>2, QuietData
  <1>3. CASE Write
    BY <1>3, WriteData
  <1>4. CASE FinishReset
    BY <1>4, MoveData
  <1>5. CASE OthersWrite
    BY <1>5, OthersData
  <1>6. CASE \E m \in msgs : Handle(m) \/ acquire_reply(m) \/ release_reply(m)
    BY <1>6, HandleData, AcquireReplyData, ReleaseReplyData
  <1>7. QED
    BY <1>1, <1>2, <1>3, <1>4, <1>5, <1>6 DEF Next

\* The buffer is as large as the range the cache was created for.
LEMMA InitBuffer == Init => BufferOK
  <1> SUFFICES ASSUME Init PROVE BufferOK
    OBVIOUS
  <1>1. range \in Ranges /\ goal = "none" /\ allocated = Bytes(range)
        /\ storage = [k \in 0 .. MemSize - 1 |-> -1]
    BY DEF Init, Allocated
  <1>2. Bytes(range) \in Nat
    BY <1>1, RangeOK
  <1>3. BufferKept
    BY <1>1 DEF BufferKept, Others
  <1>4. QED
    BY <1>1, <1>2, <1>3 DEF BufferOK

\* No step changes what lies behind it, but those of its owners.
LEMMA StepBuffer == ResetsFit /\ IInv /\ Data /\ BufferOK /\ [Next]_vars => BufferOK'
  <1> SUFFICES ASSUME ResetsFit, IInv, Data, BufferOK, [Next]_vars PROVE BufferOK'
    OBVIOUS
  <1>1. /\ allocated \in Nat /\ Bytes(range) <= allocated /\ range \in Ranges /\ Bytes(range) \in Nat
        /\ goal = "reset" => Bytes(target) <= allocated
    BY RangeOK DEF BufferOK, IInv, ControlType
  <1>2. DOMAIN storage = 0 .. MemSize - 1 /\ \A k \in DOMAIN storage : k \in Int
    BY DEF Data, DataType
  <1>3. \A k \in DOMAIN storage : k >= allocated => storage[k] \in Others
    BY DEF BufferOK, BufferKept
  <1>4. CASE UNCHANGED <<range, goal, target, allocated, storage>>
    BY <1>1, <1>3, <1>4 DEF BufferOK, BufferKept, Bytes
  <1>5. CASE \E r \in ResetRanges : reset(r)
    <2>1. PICK r \in ResetRanges : reset(r)
      BY <1>5
    <2>2. Bytes(r) <= allocated /\ target' = r /\ UNCHANGED <<range, allocated, storage>>
      BY <2>1 DEF reset, ResetsFit
    <2>3. QED
      BY <1>1, <1>3, <2>2 DEF BufferOK, BufferKept, Bytes
  <1>6. CASE FinishReset
    <2>1. goal = "reset" /\ goal' = "none" /\ range' = target /\ UNCHANGED <<allocated, storage>>
      BY <1>6 DEF FinishReset, ReadyToMove
    <2>2. QED
      BY <1>1, <1>3, <2>1 DEF BufferOK, BufferKept, Bytes
  <1>7. CASE Destroy
    <2>1. goal' # "reset" /\ UNCHANGED <<range, allocated, storage>>
      BY <1>7 DEF Destroy
    <2>2. QED
      BY <1>1, <1>3, <2>1 DEF BufferOK, BufferKept, Bytes
  <1>8. CASE Write
    <2>1. /\ UNCHANGED <<range, goal, target, allocated>>
          /\ \/ storage' = storage
             \/ storage' = [k \in DOMAIN storage |-> IF k < Bytes(range) THEN NewValue(resets, k)
                                                                       ELSE storage[k]]
      BY <1>8 DEF Write
    <2>2. \A k \in DOMAIN storage : k >= allocated => ~(k < Bytes(range))
      BY <1>1, <1>2
    <2>3. /\ DOMAIN storage' = DOMAIN storage
          /\ \A k \in DOMAIN storage : k >= allocated => storage'[k] = storage[k]
      BY <2>1, <2>2
    <2>4. BufferKept'
      BY <1>3, <2>1, <2>3 DEF BufferKept
    <2>5. QED
      BY <1>1, <2>1, <2>4 DEF BufferOK, Bytes
  <1>9. CASE \E m \in msgs : acquire_reply(m)
    <2>1. PICK m \in msgs : acquire_reply(m)
      BY <1>9
    <2>2. /\ UNCHANGED <<range, goal, target, allocated>>
          /\ \/ storage' = storage
             \/ storage' = [k \in DOMAIN storage |-> IF k \in Part(m) THEN mem[Cell(k)] ELSE storage[k]]
      BY <2>1 DEF acquire_reply, Part, Cell
    <2>3. \A k \in DOMAIN storage : k >= allocated => k \notin Part(m)
      <3>1. \A k \in Part(m) : k \in 0 .. Bytes(range) - 1
        BY MessageFacts
      <3>2. QED
        BY <1>1, <1>2, <3>1
    <2>4. /\ DOMAIN storage' = DOMAIN storage
          /\ \A k \in DOMAIN storage : k >= allocated => storage'[k] = storage[k]
      BY <2>2, <2>3
    <2>5. BufferKept'
      BY <1>3, <2>2, <2>4 DEF BufferKept
    <2>6. QED
      BY <1>1, <2>2, <2>5 DEF BufferOK, Bytes
  <1>10. CASE OthersWrite
    <2>1. UNCHANGED <<range, goal, target, allocated>>
      BY <1>10 DEF OthersWrite
    <2>2. PICK v \in Others :
            storage' = [k \in DOMAIN storage |-> IF k < allocated THEN storage[k] ELSE v]
      BY <1>10 DEF OthersWrite
    <2>3. DOMAIN storage' = DOMAIN storage /\ \A k \in DOMAIN storage : k >= allocated => storage'[k] = v
      BY <1>1, <1>2, <2>2
    <2>4. BufferKept'
      BY <2>1, <2>2, <2>3 DEF BufferKept
    <2>5. QED
      BY <1>1, <2>1, <2>4 DEF BufferOK, Bytes
  <1>11. CASE \/ start_acquire \/ block_until_acquired \/ start_release \/ block_until_released
              \/ Resume \/ (\E m \in msgs : Handle(m) \/ release_reply(m)) \/ UNCHANGED vars
    <2>1. UNCHANGED <<range, goal, target, allocated, storage>>
      BY <1>11 DEF start_acquire, block_until_acquired, start_release, block_until_released, Resume,
                   Handle, release_reply, vars
    <2>2. QED
      BY <1>4, <2>1
  <1>12. QED
    BY <1>5, <1>6, <1>7, <1>8, <1>9, <1>10, <1>11 DEF Next

\* The data part: where the bytes of the range are while they are acquired,
\* written and released, and that they fit in the buffer.
THEOREM DataInvariant ==
  ASSUME ResetsFit
  PROVE  Spec => [](IInv /\ Data /\ BufferOK)
  <1>1. Init => IInv /\ Data /\ BufferOK
    BY InitIInv, InitData, InitBuffer
  <1>2. IInv /\ Data /\ BufferOK /\ [Next]_vars => IInv' /\ Data' /\ BufferOK'
    BY StepIInv, StepData, StepBuffer
  <1>3. QED
    BY <1>1, <1>2, PTL DEF Spec

\* TypeOK, for every memory and every set of ranges: the fields keep their types,
\* and no more replies are counted than were expected.
THEOREM TypeCorrect ==
  ASSUME ResetsFit
  PROVE  Spec => []TypeOK
  <1>1. IInv /\ Data /\ BufferOK => TypeOK
    <2> SUFFICES ASSUME IInv, Data, BufferOK PROVE TypeOK
      OBVIOUS
    <2>1. range \in Ranges
      BY DEF IInv, ControlType
    <2>2. pointer_ \in Places
      <3>1. range.address \in Addresses
        BY <2>1, RangeOK
      <3>2. pointer_ = [to |-> "storage"] \/ pointer_ = [to |-> "NULL"] \/ pointer_ = Memory(range)
        BY DEF Data, PointerOK, AfterReset
      <3>3. Memory(range) \in [to : {"memory"}, address : Addresses]
        BY <3>1 DEF Memory
      <3>4. QED
        BY <3>2, <3>3 DEF Places
    <2>3. SideOK(acq) /\ acq.resp <= acq.num /\ SideOK(rel) /\ rel.resp <= rel.num
      BY DEF IInv, SideInv
    <2>4. \A m \in msgs : m.side \in {"acquire", "release"} /\ m.stage \in {"request", "reply"}
      BY DEF IInv, MsgsOK, MsgOK
    <2>5. ControlType /\ DataType /\ allocated \in Nat
      BY DEF IInv, Data, BufferOK
    <2>6. QED
      BY <2>2, <2>3, <2>4, <2>5 DEF TypeOK, ControlType, DataType
  <1>2. QED
    BY <1>1, DataInvariant, PTL

\* AcquiredRight, for every range and every number of resets that the buffer has
\* room for: what block_until_acquired returns to is the whole range, however the
\* messages were reordered and although their payload is read when they leave.
THEOREM AcquiresRight ==
  ASSUME ResetsFit
  PROVE  Spec => []AcquiredRight
  <1>1. IInv /\ Data => AcquiredRight
    <2> SUFFICES ASSUME IInv, Data, acq.done, kind # "WO", ~wrote, NEW k \in 0 .. Bytes(range) - 1
                 PROVE  At(k) = mem[Cell(k)]
      BY DEF AcquiredRight, Cell
    <2>1. range \in Ranges /\ PointerOK
      BY DEF IInv, ControlType, Data
    <2>2. CASE ShortCircuit(range)
      BY <2>1, <2>2, AtIs
    <2>3. CASE ~ShortCircuit(range)
      <3>1. acq.started /\ \A m \in msgs : m.side # "acquire"
        <4>1. acq.started /\ OutOf(msgs, "acquire") = {}
          BY DEF IInv, SideInv
        <4>2. QED
          BY <4>1 DEF OutOf
      <3>2. storage[k] = mem[Cell(k)]
        BY <2>3, <3>1 DEF Data, AcquireOK
      <3>3. QED
        BY <2>1, <2>3, <3>2, AtIs
    <2>4. QED
      BY <2>2, <2>3
  <1>2. QED
    BY <1>1, DataInvariant, PTL

\* HomeRight, for every range and every number of resets that the buffer has room
\* for: what the task wrote is in its home when the release is done, and no other
\* cell is ever changed.
THEOREM ReleasesRight ==
  ASSUME ResetsFit
  PROVE  Spec => []HomeRight
  <1>1. IInv /\ Data => HomeRight
    BY HomeExact DEF HomeRight
  <1>2. QED
    BY <1>1, DataInvariant, PTL

\* BufferKept, for every range and every number of resets that the buffer has room
\* for: no copy (acquire_reply) and no write of the task leaves the buffer that
\* CacheAllocator made for the constructor's count.
THEOREM BufferCorrect ==
  ASSUME ResetsFit
  PROVE  Spec => []BufferKept
  <1>1. BufferOK => BufferKept
    BY DEF BufferOK
  <1>2. QED
    BY <1>1, DataInvariant, PTL
=========================================================================

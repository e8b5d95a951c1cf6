--------------------- MODULE GlobalCompletionProofs ---------------------
(***************************************************************************)
(* Proofs about GlobalCompletion, for every number of cores, of tasks and  *)
(* of rounds, where a task stands for one completion (Dec = 1), as         *)
(* send_completion counts it while a message is queued.                    *)
(***************************************************************************)
EXTENDS GlobalCompletion, FiniteSetTheorems, NaturalsInduction, TLAPS

(***************************************************************************)
(* Sums.  The sum of g over S is the number of its units: the pairs <<x, i>> *)
(* with i among 1 .. g[x].                                                 *)
(***************************************************************************)
Units(g, S) == {p \in S \X Nat : 1 <= p[2] /\ p[2] <= g[p[1]]}
Total(g, S) == Cardinality(Units(g, S))

\* A set of naturals that is not empty has a least element.
LEMMA NatMin ==
  ASSUME NEW T, T \subseteq Nat, T # {}
  PROVE  \E x \in T : \A y \in T : x <= y
  <1> DEFINE R == OpToRel(<, Nat)
  <1>1. IsWellFoundedOn(R, Nat)
    BY NatLessThanWellFounded
  <1>2. \A y, x \in Nat : <<y, x>> \in R <=> y < x
    BY DEF OpToRel
  <1> HIDE DEF R
  <1>3. PICK x \in T : \A y \in T : ~ (<<y, x>> \in R)
    BY <1>1, WFMin
  <1>4. ASSUME NEW y \in T PROVE x <= y
    <2>1. x \in Nat /\ y \in Nat
      OBVIOUS
    <2>2. ~(y < x)
      BY <1>2, <1>3, <2>1
    <2>3. QED
      BY <2>1, <2>2
  <1>5. QED
    BY <1>4

\* One element of a sum, and the rest.
LEMMA TotalSplit ==
    ASSUME NEW S, NEW g, NEW x \in S, g[x] \in Nat, IsFiniteSet(Units(g, S \ {x}))
    PROVE  /\ IsFiniteSet(Units(g, S))
           /\ Total(g, S) = g[x] + Total(g, S \ {x})
           /\ Total(g, S \ {x}) \in Nat
<1> DEFINE A == {x} \X (1 .. g[x])
           R == Units(g, S \ {x})
<1>1. IsFiniteSet(A) /\ Cardinality(A) = g[x]
  <2>1. IsFiniteSet(1 .. g[x]) /\ Cardinality(1 .. g[x]) = g[x]
    BY FS_Interval, SMT
  <2>2. IsFiniteSet({x}) /\ Cardinality({x}) = 1
    BY FS_Singleton
  <2> DEFINE T == 1 .. g[x]
             X == {x}
  <2> HIDE DEF T, X
  <2>3. IsFiniteSet(X \X T) /\ Cardinality(X \X T) = Cardinality(X) * Cardinality(T)
    BY <2>1, <2>2, FS_Product DEF T, X
  <2>4. A = X \X T /\ Cardinality(X) * Cardinality(T) = g[x]
    BY <2>1, <2>2 DEF T, X
  <2> QED BY <2>3, <2>4
<1>2. Units(g, S) = R \union A /\ R \cap A = {}
  BY DEF Units
<1>3. Cardinality(R) \in Nat
  BY FS_CardinalityType
<1> HIDE DEF A, R
<1>4. IsFiniteSet(R)
  BY DEF R
<1>5. /\ IsFiniteSet(R \union A)
      /\ Cardinality(R \union A) = Cardinality(R) + Cardinality(A) - Cardinality(R \cap A)
  BY <1>1, <1>4, FS_Union
<1>6. Cardinality(R \cap A) = 0
  BY <1>2, FS_EmptySet
<1> QED BY <1>1, <1>2, <1>3, <1>5, <1>6 DEF Total, R

\* A sum over a finite set is a number.
LEMMA UnitsFinite ==
    ASSUME NEW S, IsFiniteSet(S), NEW g, \A x \in S : g[x] \in Nat
    PROVE  IsFiniteSet(Units(g, S)) /\ Total(g, S) \in Nat
<1> DEFINE Bad == {n \in Nat : \E s \in SUBSET S : Cardinality(s) = n /\ ~IsFiniteSet(Units(g, s))}
<1>1. Bad = {}
  <2> SUFFICES ASSUME Bad # {} PROVE FALSE
    OBVIOUS
  <2>1. PICK n \in Bad : \A k \in Bad : n <= k
    BY NatMin
  <2>2. PICK s \in SUBSET S : Cardinality(s) = n /\ ~IsFiniteSet(Units(g, s))
    BY <2>1
  <2>3. s # {}
    <3>1. Units(g, {}) = {}
      BY DEF Units
    <3> QED BY <2>2, <3>1, FS_EmptySet
  <2>4. PICK x \in s : TRUE
    BY <2>3
  <2>5. IsFiniteSet(s) /\ Cardinality(s \ {x}) = n - 1 /\ n \in Nat /\ Cardinality(s \ {x}) \in Nat
    BY <2>2, FS_Subset, FS_RemoveElement, FS_CardinalityType
  <2>6. Cardinality(s \ {x}) \notin Bad
    <3> HIDE DEF Bad
    <3> QED BY <2>1, <2>5
  <2>7. IsFiniteSet(Units(g, s \ {x}))
    BY <2>5, <2>6
  <2> QED BY <2>2, <2>7, TotalSplit
<1>2. Cardinality(S) \in Nat
  BY FS_CardinalityType
<1>3. IsFiniteSet(Units(g, S))
  BY <1>1, <1>2
<1> QED BY <1>3, FS_CardinalityType DEF Total

\* The recursion of MapThenSumSet.
IsIter(it, g, S) ==
    it = [s \in SUBSET S |->
             IF s = {} THEN 0
             ELSE g[CHOOSE x \in s : TRUE] + it[s \ {CHOOSE x \in s : TRUE}]]

\* There is such a function,
LEMMA IterExists ==
    ASSUME NEW S, IsFiniteSet(S), NEW g, \A x \in S : g[x] \in Nat
    PROVE  \E it : IsIter(it, g, S)
<1> DEFINE it == [s \in SUBSET S |-> Total(g, s)]
<1>1. ASSUME NEW s \in SUBSET S
      PROVE  Total(g, s) = IF s = {} THEN 0
                           ELSE g[CHOOSE x \in s : TRUE] + it[s \ {CHOOSE x \in s : TRUE}]
  <2>1. CASE s = {}
    BY <2>1, FS_EmptySet DEF Total, Units
  <2>2. CASE s # {}
    <3> DEFINE x == CHOOSE x \in s : TRUE
    <3>1. x \in s
      BY <2>2
    <3> HIDE DEF x
    <3>2. IsFiniteSet(Units(g, s \ {x}))
      BY FS_Subset, UnitsFinite
    <3>3. Total(g, s) = g[x] + Total(g, s \ {x})
      BY <3>1, <3>2, TotalSplit
    <3> QED BY <2>2, <3>3 DEF x
  <2> QED BY <2>1, <2>2
<1>2. it = [s \in SUBSET S |-> IF s = {} THEN 0
                ELSE g[CHOOSE x \in s : TRUE] + it[s \ {CHOOSE x \in s : TRUE}]]
  BY <1>1
<1> QED BY <1>2 DEF IsIter

\* and it sums.
LEMMA IterTotal ==
    ASSUME NEW S, IsFiniteSet(S), NEW g, \A x \in S : g[x] \in Nat, NEW it, IsIter(it, g, S)
    PROVE  it[S] = Total(g, S)
<1> DEFINE Bad == {n \in Nat : \E s \in SUBSET S : Cardinality(s) = n /\ it[s] # Total(g, s)}
<1>1. Bad = {}
  <2> SUFFICES ASSUME Bad # {} PROVE FALSE
    OBVIOUS
  <2>1. PICK n \in Bad : \A k \in Bad : n <= k
    BY NatMin
  <2>2. PICK s \in SUBSET S : Cardinality(s) = n /\ it[s] # Total(g, s)
    BY <2>1
  <2>3. s # {}
    <3>1. Total(g, {}) = 0
      BY FS_EmptySet DEF Units, Total
    <3>2. it[{}] = 0
      BY DEF IsIter
    <3> QED BY <2>2, <3>1, <3>2
  <2> DEFINE x == CHOOSE x \in s : TRUE
  <2>4. x \in s /\ it[s] = g[x] + it[s \ {x}]
    BY <2>3 DEF IsIter
  <2> HIDE DEF x
  <2>5. IsFiniteSet(s) /\ Cardinality(s \ {x}) = n - 1 /\ n \in Nat /\ Cardinality(s \ {x}) \in Nat
    BY <2>2, <2>4, FS_Subset, FS_RemoveElement, FS_CardinalityType
  <2>6. Cardinality(s \ {x}) \notin Bad
    <3> HIDE DEF Bad
    <3> QED BY <2>1, <2>5
  <2>7. it[s \ {x}] = Total(g, s \ {x})
    BY <2>5, <2>6
  <2>8. IsFiniteSet(Units(g, s \ {x}))
    BY FS_Subset, UnitsFinite
  <2> QED BY <2>2, <2>4, <2>7, <2>8, TotalSplit
<1>2. Cardinality(S) \in Nat
  BY FS_CardinalityType
<1> QED BY <1>1, <1>2

\* Sums of what agrees agree.
LEMMA TotalSame ==
    ASSUME NEW S, NEW g, NEW h, \A x \in S : g[x] = h[x]
    PROVE  Units(g, S) = Units(h, S) /\ Total(g, S) = Total(h, S)
BY DEF Units, Total

\* A sum that changes at one element.
LEMMA TotalChange ==
    ASSUME NEW S, NEW x \in S, NEW g, NEW h, g[x] \in Nat, h[x] \in Nat,
           \A y \in S \ {x} : g[y] = h[y], IsFiniteSet(Units(g, S))
    PROVE  /\ IsFiniteSet(Units(h, S))
           /\ Total(g, S) \in Nat /\ Total(h, S) = Total(g, S) - g[x] + h[x]
           /\ Total(g, S) >= g[x]
<1>1. IsFiniteSet(Units(g, S \ {x}))
  <2>1. Units(g, S \ {x}) \subseteq Units(g, S)
    BY DEF Units
  <2> QED BY <2>1, FS_Subset
<1>2. Units(h, S \ {x}) = Units(g, S \ {x}) /\ Total(h, S \ {x}) = Total(g, S \ {x})
  BY TotalSame
<1>3. Total(g, S) = g[x] + Total(g, S \ {x}) /\ Total(g, S \ {x}) \in Nat
  BY <1>1, TotalSplit
<1>4. IsFiniteSet(Units(h, S)) /\ Total(h, S) = h[x] + Total(h, S \ {x})
  BY <1>1, <1>2, TotalSplit
<1> QED BY <1>2, <1>3, <1>4

\* No element exceeds the sum; a sum of zeros is zero.
LEMMA TotalBound ==
    ASSUME NEW S, NEW g, \A x \in S : g[x] \in Nat, IsFiniteSet(Units(g, S))
    PROVE  /\ Total(g, S) \in Nat
           /\ \A x \in S : g[x] <= Total(g, S)
           /\ (\A x \in S : g[x] = 0) => Total(g, S) = 0
<1>1. \A x \in S : g[x] <= Total(g, S)
  BY TotalChange
<1>2. (\A x \in S : g[x] = 0) => Units(g, S) = {}
  BY DEF Units
<1> QED BY <1>1, <1>2, FS_EmptySet, FS_CardinalityType DEF Total

\* A sum of ones counts.
LEMMA TotalOnes ==
    ASSUME NEW S, NEW g, \A x \in S : g[x] \in {0, 1}, IsFiniteSet(S)
    PROVE  Total(g, S) = Cardinality({x \in S : g[x] = 1})
<1> DEFINE D == {x \in S : g[x] = 1}
           f == [x \in D |-> <<x, 1>>]
<1>1. Units(g, S) = {<<x, 1>> : x \in D}
  <2>1. ASSUME NEW p \in Units(g, S) PROVE p \in {<<x, 1>> : x \in D}
    <3>1. p[1] \in S /\ p[2] \in Nat /\ p = <<p[1], p[2]>> /\ 1 <= p[2] /\ p[2] <= g[p[1]]
      BY DEF Units
    <3>2. p[2] = 1 /\ g[p[1]] = 1
      BY <3>1
    <3> QED BY <3>1, <3>2
  <2>2. ASSUME NEW x \in D PROVE <<x, 1>> \in Units(g, S)
    BY DEF Units
  <2> QED BY <2>1, <2>2
<1>2. f \in Bijection(D, Units(g, S))
  <2>1. f \in [D -> Units(g, S)]
    BY <1>1
  <2>2. \A a, b \in D : f[a] = f[b] => a = b
    OBVIOUS
  <2>3. \A p \in Units(g, S) : \E a \in D : f[a] = p
    BY <1>1
  <2> HIDE DEF D, f
  <2> QED BY <2>1, <2>2, <2>3 DEF Bijection, Injection, Surjection, IsInjective
<1>3. IsFiniteSet(D)
  BY FS_Subset
<1>4. ExistsBijection(D, Units(g, S))
  BY <1>2 DEF ExistsBijection
<1> HIDE DEF D, f
<1>5. Cardinality(Units(g, S)) = Cardinality(D)
  BY <1>3, <1>4, FS_Bijection
<1> QED BY <1>5 DEF Total, D

(***************************************************************************)
(* Bags.                                                                   *)
(***************************************************************************)
In(x, b) == IF BagIn(x, b) THEN b[x] ELSE 0
FiniteBag(b) == IsABag(b) /\ IsFiniteSet(BagToSet(b))

\* What is in a bag has copies there.
LEMMA BagMembers ==
    ASSUME NEW b, FiniteBag(b)
    PROVE  \A x : In(x, b) \in Nat /\ (x \in BagToSet(b) <=> In(x, b) > 0)
BY DEF FiniteBag, IsABag, BagToSet, BagIn, In

\* Sending adds a copy of each message.
LEMMA BagAdd ==
    ASSUME NEW b, FiniteBag(b), NEW ms, IsFiniteSet(ms)
    PROVE  LET b2 == b (+) SetToBag(ms)
           IN  FiniteBag(b2) /\ \A x : In(x, b2) = In(x, b) + IF x \in ms THEN 1 ELSE 0
<1> DEFINE b2 == b (+) SetToBag(ms)
<1>1. b2 = [e \in (DOMAIN b) \union ms |->
              (IF e \in DOMAIN b THEN b[e] ELSE 0) + (IF e \in ms THEN 1 ELSE 0)]
  BY DEF (+), SetToBag
<1>2. IsFiniteSet((DOMAIN b) \union ms)
  BY FS_Union DEF FiniteBag, BagToSet
<1> HIDE DEF b2
<1>3. DOMAIN b2 = (DOMAIN b) \union ms
  BY <1>1
<1>4. ASSUME NEW x \in DOMAIN b2
      PROVE  b2[x] = In(x, b) + (IF x \in ms THEN 1 ELSE 0) /\ b2[x] \in Nat /\ b2[x] > 0
  BY <1>1, <1>3 DEF FiniteBag, IsABag, In, BagIn, BagToSet
<1>5. IsABag(b2)
  BY <1>1, <1>3, <1>4 DEF IsABag
<1>6. \A x : In(x, b2) = In(x, b) + IF x \in ms THEN 1 ELSE 0
  BY <1>3, <1>4 DEF In, BagIn, BagToSet
<1> QED BY <1>2, <1>3, <1>5, <1>6 DEF FiniteBag, BagToSet, b2

\* Taking a message removes one copy of it.
LEMMA BagTake ==
    ASSUME NEW b, FiniteBag(b), NEW m \in BagToSet(b)
    PROVE  LET b2 == b (-) SetToBag({m})
           IN  FiniteBag(b2) /\ \A x : In(x, b2) = In(x, b) - IF x = m THEN 1 ELSE 0
<1> DEFINE b1 == [e \in DOMAIN b |-> IF e = m THEN b[e] - 1 ELSE b[e]]
           b2 == b (-) SetToBag({m})
<1>1. b2 = [e \in {d \in DOMAIN b : b1[d] > 0} |-> b1[e]]
  <2>1. b1 = [e \in DOMAIN b |-> IF e \in DOMAIN SetToBag({m}) THEN b[e] - SetToBag({m})[e] ELSE b[e]]
    BY DEF SetToBag
  <2> QED BY <2>1 DEF (-)
<1>2. DOMAIN b2 \subseteq DOMAIN b
  BY <1>1
<1>3. IsFiniteSet(DOMAIN b2)
  BY <1>2, FS_Subset DEF FiniteBag, BagToSet
<1>4. \A x \in DOMAIN b : b[x] \in Nat /\ b[x] > 0
  BY DEF FiniteBag, IsABag
<1>5. \A x \in DOMAIN b : b1[x] \in Nat
  BY <1>4
<1>6. DOMAIN b2 = {d \in DOMAIN b : b1[d] > 0} /\ \A x \in DOMAIN b2 : b2[x] = b1[x]
  BY <1>1
<1>7. \A x \in DOMAIN b : b1[x] = IF x = m THEN b[x] - 1 ELSE b[x]
  OBVIOUS
<1>8. b2 = [x \in DOMAIN b2 |-> b2[x]]
  BY <1>1
<1> HIDE DEF b1, b2
<1>9. IsABag(b2)
  BY <1>5, <1>6, <1>8 DEF IsABag
<1>10. ASSUME NEW x PROVE In(x, b2) = In(x, b) - IF x = m THEN 1 ELSE 0
  <2>1. CASE x \in DOMAIN b
    BY <1>4, <1>5, <1>6, <1>7, <2>1 DEF In, BagIn, BagToSet
  <2>2. CASE x \notin DOMAIN b
    BY <1>2, <2>2 DEF In, BagIn, BagToSet
  <2> QED BY <2>1, <2>2
<1> QED BY <1>3, <1>9, <1>10 DEF FiniteBag, BagToSet, b2

\* A message received, others sent.
LEMMA BagReceive ==
    ASSUME NEW b, FiniteBag(b), NEW m \in BagToSet(b), NEW ms, IsFiniteSet(ms)
    PROVE  LET b2 == (b (-) SetToBag({m})) (+) SetToBag(ms)
           IN  /\ FiniteBag(b2)
               /\ \A x : In(x, b2) = In(x, b) - (IF x = m THEN 1 ELSE 0) + (IF x \in ms THEN 1 ELSE 0)
<1> DEFINE b1 == b (-) SetToBag({m})
<1>1. FiniteBag(b1) /\ \A x : In(x, b1) = In(x, b) - IF x = m THEN 1 ELSE 0
  BY BagTake
<1> HIDE DEF b1
<1>2. FiniteBag(b1 (+) SetToBag(ms))
      /\ \A x : In(x, b1 (+) SetToBag(ms)) = In(x, b1) + IF x \in ms THEN 1 ELSE 0
  BY <1>1, BagAdd
<1> QED BY <1>1, <1>2 DEF b1

\* The steps of the network, and what they leave in it.
LEMMA SendNet ==
    ASSUME FiniteBag(net), NEW ms, IsFiniteSet(ms), net' = Send(ms)
    PROVE  /\ FiniteBag(net)'
           /\ \A x : Copies(x)' = Copies(x) + IF x \in ms THEN 1 ELSE 0
BY BagAdd DEF Send, Copies, In

\* and what receiving takes out.
LEMMA ReceiveNet ==
    ASSUME FiniteBag(net), NEW ms, IsFiniteSet(ms), NEW m \in Arriving, net' = Receive(m, ms)
    PROVE  /\ FiniteBag(net)'
           /\ m \in BagToSet(net) /\ Copies(m) > 0
           /\ \A x : Copies(x)' = Copies(x) - (IF x = m THEN 1 ELSE 0) + (IF x \in ms THEN 1 ELSE 0)
<1>1. m \in BagToSet(net)
  BY DEF Arriving
<1> QED BY <1>1, BagReceive, BagMembers DEF Receive, Copies, In

\* A message is under way where there are copies of it, before a step
LEMMA NetMembers ==
    ASSUME FiniteBag(net)
    PROVE  \A x : Copies(x) \in Nat /\ (x \in BagToSet(net) <=> Copies(x) > 0)
BY BagMembers DEF Copies, In

\* and after it.
LEMMA NextMembers ==
    ASSUME FiniteBag(net)'
    PROVE  \A x : Copies(x)' \in Nat /\ (x \in BagToSet(net)' <=> Copies(x)' > 0)
BY BagMembers DEF Copies, In

\* A message sent.
LEMMA SendOne ==
    ASSUME FiniteBag(net), NEW y, net' = Send({y})
    PROVE  /\ FiniteBag(net)'
           /\ \A x : Copies(x)' \in Nat /\ (x \in BagToSet(net)' <=> Copies(x)' > 0)
           /\ \A x : x # y => Copies(x)' = Copies(x)
           /\ Copies(y)' = Copies(y) + 1
<1>1. IsFiniteSet({y})
  BY FS_Singleton
<1>2. FiniteBag(net)' /\ \A x : Copies(x)' = Copies(x) + IF x \in {y} THEN 1 ELSE 0
  BY <1>1, SendNet
<1>3. \A x : Copies(x) \in Nat
  BY NetMembers
<1> QED BY <1>2, <1>3, NextMembers

\* A message received.
LEMMA ReceiveOne ==
    ASSUME FiniteBag(net), NEW m \in Arriving, net' = Receive(m, {})
    PROVE  /\ FiniteBag(net)' /\ Copies(m) > 0
           /\ \A x : Copies(x)' \in Nat /\ (x \in BagToSet(net)' <=> Copies(x)' > 0)
           /\ \A x : x # m => Copies(x)' = Copies(x)
           /\ Copies(m)' = Copies(m) - 1
<1>1. IsFiniteSet({})
  BY FS_EmptySet
<1>2. /\ FiniteBag(net)' /\ Copies(m) > 0
      /\ \A x : Copies(x)' = Copies(x) - (IF x = m THEN 1 ELSE 0) + (IF x \in {} THEN 1 ELSE 0)
  BY <1>1, ReceiveNet
<1>3. \A x : Copies(x) \in Nat
  BY NetMembers
<1> QED BY <1>2, <1>3, NextMembers

\* A message answered by another.
LEMMA AnswerOne ==
    ASSUME FiniteBag(net), NEW m \in Arriving, NEW y, y # m, net' = Receive(m, {y})
    PROVE  /\ FiniteBag(net)' /\ Copies(m) > 0
           /\ \A x : Copies(x)' \in Nat /\ (x \in BagToSet(net)' <=> Copies(x)' > 0)
           /\ \A x : x # m /\ x # y => Copies(x)' = Copies(x)
           /\ Copies(m)' = Copies(m) - 1 /\ Copies(y)' = Copies(y) + 1
<1>1. IsFiniteSet({y})
  BY FS_Singleton
<1>2. /\ FiniteBag(net)' /\ Copies(m) > 0
      /\ \A x : Copies(x)' = Copies(x) - (IF x = m THEN 1 ELSE 0) + (IF x \in {y} THEN 1 ELSE 0)
  BY <1>1, ReceiveNet
<1>3. \A x : Copies(x) \in Nat
  BY NetMembers
<1> QED BY <1>2, <1>3, NextMembers

\* Several messages sent.
LEMMA SendNew ==
    ASSUME FiniteBag(net), NEW ms, IsFiniteSet(ms), net' = Send(ms)
    PROVE  /\ FiniteBag(net)'
           /\ \A x : Copies(x)' \in Nat /\ (x \in BagToSet(net)' <=> Copies(x)' > 0)
           /\ \A x : x \notin ms => Copies(x)' = Copies(x)
           /\ \A x \in ms : Copies(x)' = Copies(x) + 1
<1>2. FiniteBag(net)' /\ \A x : Copies(x)' = Copies(x) + IF x \in ms THEN 1 ELSE 0
  BY SendNet
<1>3. \A x : Copies(x) \in Nat
  BY NetMembers
<1> QED BY <1>2, <1>3, NextMembers

\* A message answered by several.
LEMMA AnswerNew ==
    ASSUME FiniteBag(net), NEW m \in Arriving, NEW ms, IsFiniteSet(ms), m \notin ms,
           net' = Receive(m, ms)
    PROVE  /\ FiniteBag(net)' /\ Copies(m) > 0
           /\ \A x : Copies(x)' \in Nat /\ (x \in BagToSet(net)' <=> Copies(x)' > 0)
           /\ \A x : x # m /\ x \notin ms => Copies(x)' = Copies(x)
           /\ Copies(m)' = Copies(m) - 1
           /\ \A x \in ms : Copies(x)' = Copies(x) + 1
<1>2. /\ FiniteBag(net)' /\ Copies(m) > 0
      /\ \A x : Copies(x)' = Copies(x) - (IF x = m THEN 1 ELSE 0) + (IF x \in ms THEN 1 ELSE 0)
  BY ReceiveNet
<1>3. \A x : Copies(x) \in Nat
  BY NetMembers
<1> QED BY <1>2, <1>3, NextMembers

(***************************************************************************)
(* The inductive invariant.  The event goes through stages: at rest; the   *)
(* user task enrolling; tasks at work; the cores being reset; and, where   *)
(* the loop does not recur, its tasks being woken.                         *)
(***************************************************************************)
Workers == Mains \union Kids
Origin == task[User].core
Again == IF recurring THEN NumCores ELSE 0

PCs == {"idle", "new", "run", "call", "all", "query", "wait", "started", "done"}
Named == Kids \union {User}
AckCounts == 0 .. NumCores - 1
Phases == {0, 1}
TaskType ==
    [pc : PCs, core : Cores, target : Cores, fuel : Nat, child : Named,
     acks : AckCounts, phase : Phases]

Shape ==
    /\ count \in [Cores -> Nat]
    /\ event_in_progress \in [Cores -> BOOLEAN]
    /\ cv \in [Cores -> SUBSET Tasks]
    /\ temporary_waking_cv \in [Cores -> SUBSET Tasks]
    /\ cores_out \in Nat
    /\ temporary_waking_cores_out \in 0 .. NumCores
    /\ reenroll_count \in {0, NumCores}
    /\ completion_msgs \in
          [Cores -> [Cores -> [queued : BOOLEAN, dec : Nat, completes_to_send : Nat]]]
    /\ FiniteBag(net)
    /\ task \in [Tasks -> TaskType]
    /\ recurring \in BOOLEAN /\ fatal = FALSE

\* Where each kind of task may be in its program.
Programs ==
    /\ task[User].pc \in {"idle", "call", "all", "started"}
    /\ \A t \in Mains : task[t].pc \in {"idle", "run", "call", "wait", "done"}
    /\ \A t \in Kids : task[t].pc \in {"idle", "new", "run", "call"}
    /\ task[Bystander].pc \in {"idle", "query", "wait"}

\* A task of the loop runs and waits on its core; the loop that recurs is the
\* master's.
Places ==
    /\ \A c \in Cores : task[Main(c)].core = c
    /\ \A c \in Cores : cv[c] \subseteq {Main(c), Bystander}
    /\ \A c \in Cores : temporary_waking_cv[c] \subseteq {Main(c), Bystander}
    /\ recurring => Origin = master_core

\* A queued message completes something, and only to one is something added.
Queues ==
    \A c \in Cores, o \in Cores :
        /\ completion_msgs[c][o].queued => completion_msgs[c][o].dec >= 1
        /\ ~completion_msgs[c][o].queued => completion_msgs[c][o].completes_to_send = 0

\* ph is the phase of all but those who are still to be woken from the last.
Phased(ph) ==
    /\ \A c \in Cores : task[Main(c)].phase = IF Copies(Wake(c)) > 0 THEN 1 - ph ELSE ph
    /\ \A k \in Kids : task[k].pc # "idle" => task[k].phase = ph

Base == Shape /\ Programs /\ Places /\ Queues /\ \E ph \in {0, 1} : Phased(ph)

\* The messages of the bystander, which may be under way at any time.
ByMsgs == {Query(Bystander)} \union {Reply(Bystander, n) : n \in Nat}

\* Nothing is enrolled but by the user task.
Quiet ==
    /\ \A k \in Kids : task[k].pc = "idle"
    /\ \A c \in Cores, o \in Cores : ~completion_msgs[c][o].queued

Resting ==
    /\ Quiet /\ BagToSet(net) \subseteq ByMsgs
    /\ task[User].pc = "idle" /\ \A t \in Mains : task[t].pc = "idle"
    /\ \A c \in Cores : count[c] = 0 /\ event_in_progress[c] = FALSE
    /\ cores_out = 0 /\ reenroll_count = 0 /\ temporary_waking_cores_out = 0

StartMsgs ==
    {Increment(User), Reply(User, 1), Ack(User)} \union {InProgress(c, User) : c \in Cores}
Asked == {c \in Cores : Copies(InProgress(c, User)) > 0}

Starting ==
    /\ Quiet /\ BagToSet(net) \subseteq ByMsgs \union StartMsgs
    /\ \A t \in Mains : task[t].pc = "idle"
    /\ \A c \in Cores : count[c] = IF c = Origin THEN NumCores ELSE 0
    /\ event_in_progress[Origin] = TRUE
    /\ reenroll_count = Again /\ temporary_waking_cores_out = 0
    /\ \/ /\ task[User].pc = "call" /\ Origin # master_core
          /\ Copies(Increment(User)) + Copies(Reply(User, 1)) = 1
          /\ cores_out = Copies(Reply(User, 1))
          /\ Asked = {} /\ Copies(Ack(User)) = 0
       \/ /\ task[User].pc = "all" /\ task[User].acks >= 1
          /\ Copies(Increment(User)) = 0 /\ Copies(Reply(User, 1)) = 0
          /\ cores_out = 1
          /\ \A c \in Cores : Copies(InProgress(c, User)) <= 1
          /\ \A c \in Cores : c \notin Asked => event_in_progress[c] = TRUE
          /\ task[User].acks = Cardinality(Asked) + Copies(Ack(User))

\* The core a task completes to, who has still to complete, who has still to
\* be counted by the master, and the cores with work.
Tgt(t) == IF t \in Kids THEN task[t].target ELSE Origin
Active(t) ==
    IF t \in Kids THEN task[t].pc # "idle"
    ELSE task[t].pc # "wait" \/ Copies(Wake(task[t].core)) > 0
Owing(c) == {t \in Workers : Active(t) /\ Tgt(t) = c}
Callers == {t \in Workers : Copies(Increment(t)) > 0}
Busy == {c \in Cores : count[c] # 0}

Completes(c) == {DoComplete(c, d) : d \in Nat \ {0}}
WorkMsgs ==
    {Enter} \union {Increment(t) : t \in Workers}
    \union {Reply(t, v) : t \in Workers, v \in Nat \ {0, 1}}
    \union {Wake(c) : c \in Cores} \union UNION {Completes(c) : c \in Cores}

MergedIn(cm, c) ==
    Total([s \in Cores |-> IF cm[s][c].queued THEN cm[s][c].dec + cm[s][c].completes_to_send
                           ELSE 0], Cores)
SentIn(b, c) == Total([m \in Completes(c) |-> m.dec * In(m, b)], Completes(c))

\* A call of the master: at most one message, and the child named and counted.
Calls ==
    \A t \in Workers :
        /\ Copies(Increment(t)) <= 1
        /\ \A v \in Nat \ {0, 1} : Copies(Reply(t, v)) <= 1
        /\ \A v \in Nat \ {0, 1} : Copies(Reply(t, v)) > 0 => Copies(Increment(t)) = 0
        /\ \A v, w \in Nat \ {0, 1} : Copies(Reply(t, v)) > 0 /\ Copies(Reply(t, w)) > 0 => v = w
        /\ task[t].pc # "call" =>
              Copies(Increment(t)) = 0 /\ \A v \in Nat \ {0, 1} : Copies(Reply(t, v)) = 0
        /\ task[t].pc = "call" =>
              /\ task[t].core # master_core /\ task[t].child \in Kids
              /\ task[task[t].child].pc = "new" /\ task[task[t].child].target = task[t].core

\* No two calls of the master come from one core or are about one child.
Apart ==
    \A t, u \in Workers :
        task[t].pc = "call" /\ task[u].pc = "call" /\ t # u
            => task[t].core # task[u].core /\ task[t].child # task[u].child

\* Among tasks whose cores are still to be counted, one completes to a core
\* that none of them runs on: cores are counted in the order they got work.
Ordered ==
    \A D \in SUBSET Callers :
        D # {} => \E t \in D : \A u \in D : task[u].core # Tgt(t)

Wakes ==
    \A c \in Cores :
        /\ Copies(Wake(c)) <= 1
        /\ Copies(Wake(c)) > 0 =>
              recurring /\ task[Main(c)].pc = "wait" /\ Main(c) \in temporary_waking_cv[c]
        /\ task[Main(c)].pc = "wait" /\ Copies(Wake(c)) = 0 => Main(c) \in cv[c]

Counted ==
    \A c \in Cores :
        count[c] = Cardinality(Owing(c)) + MergedIn(completion_msgs, c) + SentIn(net, c)
Reported == cores_out = Cardinality(Busy) - Cardinality(Callers) + Copies(Enter)

Under ==
    /\ BagToSet(net) \subseteq ByMsgs \union WorkMsgs
    /\ task[User].pc = "started"
    /\ \A t \in Mains : task[t].pc \in {"run", "call", "wait"}
    /\ \A c \in Cores : event_in_progress[c] = TRUE
    /\ reenroll_count = Again /\ temporary_waking_cores_out = 0

AtWork == Under /\ Wakes /\ Calls /\ Apart /\ Ordered /\ Counted /\ Reported

ToReset == {c \in Cores : Copies(Reset(c, Again)) > 0}
ResetMsgs == {ResetDone(Again)} \union {Reset(c, Again) : c \in Cores}

Resetting ==
    /\ Quiet /\ BagToSet(net) \subseteq ByMsgs \union ResetMsgs
    /\ task[User].pc = "started" /\ \A t \in Mains : task[t].pc = "wait"
    /\ \A c \in Cores : count[c] = 0
    /\ cores_out = 0 /\ temporary_waking_cores_out >= 1
    /\ temporary_waking_cores_out = Cardinality(ToReset) + Copies(ResetDone(Again))
    /\ \A c \in Cores :
          /\ Copies(Reset(c, Again)) <= 1
          /\ c \in ToReset => Main(c) \in cv[c]
          /\ c \notin ToReset =>
                Main(c) \in temporary_waking_cv[c] /\ event_in_progress[c] = recurring
    /\ reenroll_count \in {0, Again}
    /\ master_core \notin ToReset => reenroll_count = 0

Waking ==
    /\ Quiet /\ BagToSet(net) \subseteq ByMsgs \union {Wake(c) : c \in Cores}
    /\ ~recurring /\ task[User].pc = "started"
    /\ \A c \in Cores : count[c] = 0 /\ event_in_progress[c] = FALSE
    /\ cores_out = 0 /\ reenroll_count = 0 /\ temporary_waking_cores_out = 0
    /\ \A c \in Cores :
          \/ task[Main(c)].pc = "wait" /\ Copies(Wake(c)) = 1 /\ Main(c) \in temporary_waking_cv[c]
          \/ task[Main(c)].pc = "done" /\ Copies(Wake(c)) = 0

Inv == Base /\ (Resting \/ Starting \/ AtWork \/ Resetting \/ Waking)

(***************************************************************************)
(* Names of tasks and of messages.                                         *)
(***************************************************************************)

\* The cores, and who is who.
LEMMA Names ==
    /\ NumCores \in Nat \ {0} /\ master_core \in Cores /\ NumCores - 1 \in Cores
    /\ Cores \subseteq Nat
    /\ \A c \in Cores : Main(c) \in Mains /\ Main(c)[2] = c /\ Fuel[c] \in Nat
    /\ \A c, d \in Cores : Main(c) = Main(d) => c = d
    /\ \A t \in Mains : t[2] \in Cores /\ t = Main(t[2])
    /\ User \notin Mains /\ User \notin Kids /\ Bystander \notin Mains /\ Bystander \notin Kids
    /\ User # Bystander
    /\ Mains \cap Kids = {}
    /\ Tasks = Workers \union {User, Bystander}
    /\ \A t \in Workers : t \in Tasks /\ t # User /\ t # Bystander
    /\ User \in Tasks /\ Bystander \in Tasks
<1>1. NumCores \in Nat \ {0} /\ Fuel \in [0 .. NumCores - 1 -> Nat]
  BY GlobalCompletionAssumption
<1>2. /\ master_core \in Cores /\ NumCores - 1 \in Cores /\ Cores \subseteq Nat
      /\ \A c \in Cores : Fuel[c] \in Nat
  BY <1>1 DEF Cores, master_core
<1>3. \A c \in Cores : Main(c) \in Mains /\ Main(c)[2] = c
  BY DEF Mains, Main
<1>4. \A c, d \in Cores : Main(c) = Main(d) => c = d
  BY DEF Main
<1>5. \A t \in Mains : t[2] \in Cores /\ t = Main(t[2])
  BY DEF Main, Mains
<1>6. \A t \in Mains : t[1] = "main"
  BY DEF Main, Mains
<1>7. \A t \in Kids : t[1] = "child"
  BY DEF Kids
<1>8. User[1] = "user" /\ Bystander[1] = "bystander"
  BY DEF User, Bystander
<1> QED BY <1>1, <1>2, <1>3, <1>4, <1>5, <1>6, <1>7, <1>8 DEF Tasks, Workers

\* Tasks and cores are finitely many.
LEMMA Finite ==
    /\ IsFiniteSet(Cores) /\ Cardinality(Cores) = NumCores
    /\ IsFiniteSet(Mains) /\ Cardinality(Mains) = NumCores
    /\ IsFiniteSet(Kids) /\ IsFiniteSet(Workers) /\ IsFiniteSet(Tasks)
<1>1. IsFiniteSet(Cores) /\ Cardinality(Cores) = NumCores
  BY FS_Interval, GlobalCompletionAssumption DEF Cores
<1>2. IsFiniteSet(Mains) /\ Cardinality(Mains) = NumCores
  <2> DEFINE f == [c \in Cores |-> Main(c)]
  <2>1. f \in [Cores -> Mains] /\ (\A a, b \in Cores : f[a] = f[b] => a = b)
        /\ \A t \in Mains : \E a \in Cores : f[a] = t
    BY Names DEF Mains
  <2> HIDE DEF f
  <2>2. f \in Bijection(Cores, Mains)
    BY <2>1 DEF Bijection, Injection, Surjection, IsInjective
  <2>3. ExistsBijection(Cores, Mains)
    BY <2>2 DEF ExistsBijection
  <2> QED BY <1>1, <2>3, FS_Bijection
<1>3. IsFiniteSet(Kids)
  <2> DEFINE f == [k \in Children |-> <<"child", k>>]
  <2>1. f \in [Children -> Kids] /\ (\A a, b \in Children : f[a] = f[b] => a = b)
        /\ \A t \in Kids : \E a \in Children : f[a] = t
    BY DEF Kids
  <2> HIDE DEF f
  <2>2. f \in Bijection(Children, Kids)
    BY <2>1 DEF Bijection, Injection, Surjection, IsInjective
  <2>3. ExistsBijection(Children, Kids)
    BY <2>2 DEF ExistsBijection
  <2> QED BY <2>3, FS_Bijection, GlobalCompletionAssumption
<1>4. IsFiniteSet(Workers)
  BY <1>2, <1>3, FS_Union DEF Workers
<1>5. IsFiniteSet({User, Bystander})
  <2>1. {User, Bystander} = {User} \union {Bystander}
    OBVIOUS
  <2>2. IsFiniteSet({User})
    BY FS_Singleton
  <2>3. IsFiniteSet({User} \union {Bystander})
    BY <2>2, FS_AddElement
  <2> QED BY <2>1, <2>3
<1> QED BY <1>1, <1>2, <1>3, <1>4, <1>5, Names, FS_Union

\* Messages are told apart by their types and fields.
LEMMA Types ==
    /\ Enter.type = "enter"
    /\ \A t : Increment(t).type = "increment" /\ Increment(t).task = t
    /\ \A t : Query(t).type = "query" /\ Query(t).task = t
    /\ \A t, n : Reply(t, n).type = "reply" /\ Reply(t, n).task = t /\ Reply(t, n).value = n
    /\ \A c, t : InProgress(c, t).type = "in_progress"
                 /\ InProgress(c, t).core = c /\ InProgress(c, t).task = t
    /\ \A t : Ack(t).type = "ack" /\ Ack(t).task = t
    /\ \A c, d : DoComplete(c, d).type = "complete"
                 /\ DoComplete(c, d).core = c /\ DoComplete(c, d).dec = d
    /\ \A c, r : Reset(c, r).type = "reset" /\ Reset(c, r).core = c /\ Reset(c, r).re = r
    /\ \A r : ResetDone(r).type = "reset_done" /\ ResetDone(r).re = r
    /\ \A c : Wake(c).type = "wake" /\ Wake(c).core = c
BY DEF Enter, Increment, Query, Reply, InProgress, Ack, DoComplete, Reset, ResetDone, Wake

\* A finite set of cores that differ in what is sent to them.
LEMMA SentSets ==
    ASSUME NEW C, C \subseteq Cores, NEW t, NEW r
    PROVE  /\ IsFiniteSet({InProgress(c, t) : c \in C})
           /\ IsFiniteSet({Reset(c, r) : c \in C})
           /\ IsFiniteSet({Wake(c) : c \in C})
<1>1. IsFiniteSet(C)
  BY Finite, FS_Subset
<1>2. IsFiniteSet({InProgress(c, t) : c \in C})
  <2> DEFINE f == [c \in C |-> InProgress(c, t)]
             T == {InProgress(c, t) : c \in C}
  <2>1. f \in [C -> T] /\ \A y \in T : \E a \in C : f[a] = y
    OBVIOUS
  <2> HIDE DEF f, T
  <2>2. f \in Surjection(C, T)
    BY <2>1 DEF Surjection
  <2>3. IsFiniteSet(T)
    BY <1>1, <2>2, FS_Surjection
  <2> QED BY <2>3 DEF T
<1>3. IsFiniteSet({Reset(c, r) : c \in C})
  <2> DEFINE f == [c \in C |-> Reset(c, r)]
             T == {Reset(c, r) : c \in C}
  <2>1. f \in [C -> T] /\ \A y \in T : \E a \in C : f[a] = y
    OBVIOUS
  <2> HIDE DEF f, T
  <2>2. f \in Surjection(C, T)
    BY <2>1 DEF Surjection
  <2>3. IsFiniteSet(T)
    BY <1>1, <2>2, FS_Surjection
  <2> QED BY <2>3 DEF T
<1>4. IsFiniteSet({Wake(c) : c \in C})
  <2> DEFINE f == [c \in C |-> Wake(c)]
             T == {Wake(c) : c \in C}
  <2>1. f \in [C -> T] /\ \A y \in T : \E a \in C : f[a] = y
    OBVIOUS
  <2> HIDE DEF f, T
  <2>2. f \in Surjection(C, T)
    BY <2>1 DEF Surjection
  <2>3. IsFiniteSet(T)
    BY <1>1, <2>2, FS_Surjection
  <2> QED BY <2>3 DEF T
<1> QED BY <1>2, <1>3, <1>4

\* The messages of each stage are of its types.
LEMMA StageMsgs ==
    /\ \A x \in ByMsgs : x.type \in {"query", "reply"} /\ x.task = Bystander
                         /\ (x.type = "reply" => x.value \in Nat /\ x = Reply(Bystander, x.value))
    /\ \A x \in StartMsgs :
          /\ x.type \in {"increment", "reply", "ack", "in_progress"} /\ x.task = User
          /\ x.type = "increment" => x = Increment(User)
          /\ x.type = "reply" => x = Reply(User, 1)
          /\ x.type = "ack" => x = Ack(User)
          /\ x.type = "in_progress" => x.core \in Cores /\ x = InProgress(x.core, User)
    /\ \A x \in WorkMsgs :
          /\ x.type \in {"enter", "increment", "reply", "wake", "complete"}
          /\ x.type = "enter" => x = Enter
          /\ x.type = "increment" => x.task \in Workers /\ x = Increment(x.task)
          /\ x.type = "reply" =>
                x.task \in Workers /\ x.value \in Nat \ {0, 1} /\ x = Reply(x.task, x.value)
          /\ x.type = "wake" => x.core \in Cores /\ x = Wake(x.core)
          /\ x.type = "complete" =>
                x.core \in Cores /\ x.dec \in Nat \ {0} /\ x = DoComplete(x.core, x.dec)
                /\ x \in Completes(x.core)
    /\ \A x \in ResetMsgs :
          /\ x.type \in {"reset", "reset_done"}
          /\ x.type = "reset" => x.core \in Cores /\ x = Reset(x.core, Again)
          /\ x.type = "reset_done" => x = ResetDone(Again)
<1>1. \A x \in ByMsgs : x.type \in {"query", "reply"} /\ x.task = Bystander
                        /\ (x.type = "reply" => x.value \in Nat /\ x = Reply(Bystander, x.value))
  BY Types DEF ByMsgs
<1>2. ASSUME NEW x \in StartMsgs
      PROVE  /\ x.type \in {"increment", "reply", "ack", "in_progress"} /\ x.task = User
             /\ x.type = "increment" => x = Increment(User)
             /\ x.type = "reply" => x = Reply(User, 1)
             /\ x.type = "ack" => x = Ack(User)
             /\ x.type = "in_progress" => x.core \in Cores /\ x = InProgress(x.core, User)
  BY Types DEF StartMsgs
<1>3. ASSUME NEW x \in WorkMsgs
      PROVE  /\ x.type \in {"enter", "increment", "reply", "wake", "complete"}
             /\ x.type = "enter" => x = Enter
             /\ x.type = "increment" => x.task \in Workers /\ x = Increment(x.task)
             /\ x.type = "reply" =>
                   x.task \in Workers /\ x.value \in Nat \ {0, 1} /\ x = Reply(x.task, x.value)
             /\ x.type = "wake" => x.core \in Cores /\ x = Wake(x.core)
             /\ x.type = "complete" =>
                   x.core \in Cores /\ x.dec \in Nat \ {0} /\ x = DoComplete(x.core, x.dec)
                   /\ x \in Completes(x.core)
  <2>1. CASE x = Enter
    BY <2>1, Types
  <2>2. CASE \E t \in Workers : x = Increment(t)
    BY <2>2, Types
  <2>3. CASE \E t \in Workers, v \in Nat \ {0, 1} : x = Reply(t, v)
    BY <2>3, Types
  <2>4. CASE \E c \in Cores : x = Wake(c)
    BY <2>4, Types
  <2>5. CASE \E c \in Cores : x \in Completes(c)
    BY <2>5, Types DEF Completes
  <2> QED BY <2>1, <2>2, <2>3, <2>4, <2>5 DEF WorkMsgs
<1>4. ASSUME NEW x \in ResetMsgs
      PROVE  /\ x.type \in {"reset", "reset_done"}
             /\ x.type = "reset" => x.core \in Cores /\ x = Reset(x.core, Again)
             /\ x.type = "reset_done" => x = ResetDone(Again)
  BY Types DEF ResetMsgs
<1> QED BY <1>1, <1>2, <1>3, <1>4

(***************************************************************************)
(* Completions merged and under way.                                       *)
(***************************************************************************)

\* What is under way to a core is finitely much, and as much as any message.
LEMMA SentFacts ==
    ASSUME NEW b, FiniteBag(b), NEW c
    PROVE  /\ SentIn(b, c) \in Nat
           /\ IsFiniteSet(Units([m \in Completes(c) |-> m.dec * In(m, b)], Completes(c)))
           /\ \A m \in Completes(c) : m.dec \in Nat \ {0} /\ m.dec * In(m, b) \in Nat
           /\ \A m \in Completes(c) : m \in BagToSet(b) => m.dec <= SentIn(b, c)
           /\ (\A m \in Completes(c) : m \notin BagToSet(b)) => SentIn(b, c) = 0
<1> DEFINE g == [m \in Completes(c) |-> m.dec * In(m, b)]
           D == BagToSet(b) \cap Completes(c)
<1>1. \A m \in Completes(c) : m.dec \in Nat \ {0}
  BY Types DEF Completes
<1>2. \A x : In(x, b) \in Nat /\ (x \in BagToSet(b) <=> In(x, b) > 0)
  BY BagMembers
<1>3. \A i, j \in Nat : i * j \in Nat /\ (j = 0 => i * j = 0) /\ (j > 0 => i <= i * j)
  OBVIOUS
<1>4. \A m \in Completes(c) : g[m] = m.dec * In(m, b) /\ g[m] \in Nat
  BY <1>1, <1>2, <1>3
<1>5. \A m \in Completes(c) : m \notin BagToSet(b) => g[m] = 0
  BY <1>1, <1>2, <1>3
<1>6. \A m \in Completes(c) : m \in BagToSet(b) => m.dec <= g[m]
  BY <1>1, <1>2, <1>3
<1>7. IsFiniteSet(D)
  BY FS_Intersection DEF FiniteBag
<1>8. SentIn(b, c) = Total(g, Completes(c))
  BY DEF SentIn
<1> HIDE DEF g
<1>9. Units(g, Completes(c)) = Units(g, D)
  BY <1>4, <1>5 DEF Units
<1>10. IsFiniteSet(Units(g, D))
  BY <1>4, <1>7, UnitsFinite
<1>11. Total(g, Completes(c)) \in Nat /\ (\A x \in Completes(c) : g[x] <= Total(g, Completes(c)))
       /\ ((\A x \in Completes(c) : g[x] = 0) => Total(g, Completes(c)) = 0)
  BY <1>4, <1>9, <1>10, TotalBound
<1>12. \A m \in Completes(c) : m \in BagToSet(b) => m.dec <= SentIn(b, c)
  BY <1>1, <1>4, <1>6, <1>8, <1>11
<1>13. (\A m \in Completes(c) : m \notin BagToSet(b)) => SentIn(b, c) = 0
  BY <1>5, <1>8, <1>11
<1>14. IsFiniteSet(Units([m \in Completes(c) |-> m.dec * In(m, b)], Completes(c)))
  BY <1>9, <1>10 DEF g
<1> QED BY <1>1, <1>4, <1>8, <1>11, <1>12, <1>13, <1>14

\* It depends on the completions only,
LEMMA SentSame ==
    ASSUME NEW b, NEW b2, NEW c, \A x \in Completes(c) : In(x, b2) = In(x, b)
    PROVE  SentIn(b2, c) = SentIn(b, c)
<1>1. \A x \in Completes(c) :
         [m \in Completes(c) |-> m.dec * In(m, b2)][x] = [m \in Completes(c) |-> m.dec * In(m, b)][x]
  OBVIOUS
<1> QED BY <1>1, TotalSame DEF SentIn

\* and grows by what a message completes.
LEMMA SentMore ==
    ASSUME NEW b, NEW b2, FiniteBag(b), FiniteBag(b2), NEW c, NEW m \in Completes(c),
           In(m, b2) = In(m, b) + 1,
           \A x \in Completes(c) \ {m} : In(x, b2) = In(x, b)
    PROVE  SentIn(b2, c) = SentIn(b, c) + m.dec
<1> DEFINE g == [x \in Completes(c) |-> x.dec * In(x, b)]
           h == [x \in Completes(c) |-> x.dec * In(x, b2)]
<1>1. \A x \in Completes(c) \ {m} : g[x] = h[x]
  OBVIOUS
<1>2. m.dec \in Nat /\ In(m, b) \in Nat
  BY SentFacts, BagMembers
<1>3. \A i, j \in Nat : i * (j + 1) = i * j + i /\ i * j \in Nat
  OBVIOUS
<1>4. h[m] = g[m] + m.dec /\ g[m] \in Nat /\ h[m] \in Nat
  <2>1. g[m] = m.dec * In(m, b) /\ h[m] = m.dec * (In(m, b) + 1)
    OBVIOUS
  <2> HIDE DEF g, h
  <2>2. m.dec * (In(m, b) + 1) = m.dec * In(m, b) + m.dec /\ m.dec * In(m, b) \in Nat
    BY <1>2, <1>3
  <2> QED BY <1>2, <2>1, <2>2
<1>5. IsFiniteSet(Units(g, Completes(c)))
  BY SentFacts
<1>6. SentIn(b, c) = Total(g, Completes(c)) /\ SentIn(b2, c) = Total(h, Completes(c))
  BY DEF SentIn
<1> HIDE DEF g, h
<1>7. Total(g, Completes(c)) \in Nat
      /\ Total(h, Completes(c)) = Total(g, Completes(c)) - g[m] + h[m]
  BY <1>1, <1>4, <1>5, TotalChange
<1> QED BY <1>2, <1>4, <1>6, <1>7

Queue == [queued : BOOLEAN, dec : Nat, completes_to_send : Nat]
Waiting(q) == IF q.queued THEN q.dec + q.completes_to_send ELSE 0

\* What is merged for a core is finitely much, and as much as any message.
LEMMA MergedFacts ==
    ASSUME NEW cm \in [Cores -> [Cores -> Queue]], NEW c \in Cores
    PROVE  /\ MergedIn(cm, c) \in Nat
           /\ \A s \in Cores : Waiting(cm[s][c]) \in Nat /\ Waiting(cm[s][c]) <= MergedIn(cm, c)
           /\ (\A s \in Cores : Waiting(cm[s][c]) = 0) => MergedIn(cm, c) = 0
<1> DEFINE g == [s \in Cores |-> Waiting(cm[s][c])]
<1>1. \A s \in Cores : g[s] = Waiting(cm[s][c]) /\ g[s] \in Nat
  BY DEF Waiting, Queue
<1>2. MergedIn(cm, c) = Total(g, Cores)
  BY DEF MergedIn, Waiting
<1> HIDE DEF g
<1>3. IsFiniteSet(Units(g, Cores))
  BY <1>1, UnitsFinite, Finite
<1>4. /\ Total(g, Cores) \in Nat
      /\ \A x \in Cores : g[x] <= Total(g, Cores)
      /\ (\A x \in Cores : g[x] = 0) => Total(g, Cores) = 0
  BY <1>1, <1>3, TotalBound
<1> QED BY <1>1, <1>2, <1>4

\* Only one core's message changes.
LEMMA MergedStep ==
    ASSUME NEW cm \in [Cores -> [Cores -> Queue]], NEW cm2 \in [Cores -> [Cores -> Queue]],
           NEW s \in Cores, NEW c \in Cores,
           \A x, y \in Cores : x # s \/ y # c => cm2[x][y] = cm[x][y]
    PROVE  /\ \A o \in Cores : o # c => MergedIn(cm2, o) = MergedIn(cm, o)
           /\ MergedIn(cm2, c) = MergedIn(cm, c) + Waiting(cm2[s][c]) - Waiting(cm[s][c])
<1>3. \A x \in Queue : Waiting(x) \in Nat
  BY DEF Waiting, Queue
<1>4. ASSUME NEW o \in Cores
      PROVE  /\ MergedIn(cm2, o) \in Nat /\ MergedIn(cm, o) \in Nat
             /\ MergedIn(cm2, o) = MergedIn(cm, o) - Waiting(cm[s][o]) + Waiting(cm2[s][o])
  <2> DEFINE g == [x \in Cores |-> Waiting(cm[x][o])]
             h == [x \in Cores |-> Waiting(cm2[x][o])]
  <2>1. MergedIn(cm, o) = Total(g, Cores) /\ MergedIn(cm2, o) = Total(h, Cores)
    BY DEF MergedIn, Waiting
  <2>2. \A x \in Cores : /\ g[x] = Waiting(cm[x][o]) /\ g[x] \in Nat
                         /\ h[x] = Waiting(cm2[x][o]) /\ h[x] \in Nat
    BY <1>3
  <2>3. \A x \in Cores \ {s} : g[x] = h[x]
    OBVIOUS
  <2> HIDE DEF g, h
  <2>4. IsFiniteSet(Units(g, Cores))
    BY <2>2, UnitsFinite, Finite
  <2>5. Total(g, Cores) \in Nat /\ Total(h, Cores) = Total(g, Cores) - g[s] + h[s]
    BY <2>2, <2>3, <2>4, TotalChange
  <2>6. MergedIn(cm2, o) \in Nat
    BY MergedFacts
  <2> QED BY <2>1, <2>2, <2>5, <2>6
<1>5. ASSUME NEW o \in Cores, o # c PROVE MergedIn(cm2, o) = MergedIn(cm, o)
  <2>1. cm2[s][o] = cm[s][o] /\ Waiting(cm[s][o]) \in Nat
    BY <1>3, <1>5
  <2> QED BY <1>4, <2>1
<1>6. MergedIn(cm2, c) = MergedIn(cm, c) + Waiting(cm2[s][c]) - Waiting(cm[s][c])
  <2>1. Waiting(cm[s][c]) \in Nat /\ Waiting(cm2[s][c]) \in Nat
    BY <1>3
  <2> QED BY <1>4, <2>1
<1> QED BY <1>5, <1>6

(***************************************************************************)
(* Init, and the steps of the bystander, which disturb nothing.            *)
(***************************************************************************)

\* In what stage which message arrives.
LEMMA Arrivals ==
    ASSUME Inv, NEW m \in Arriving
    PROVE  /\ m \in BagToSet(net) /\ Copies(m) > 0
           /\ \/ m \in ByMsgs
              \/ Starting /\ m \in StartMsgs
              \/ AtWork /\ m \in WorkMsgs
              \/ Resetting /\ m \in ResetMsgs
              \/ Waking /\ m \in {Wake(c) : c \in Cores}
<1>1. m \in BagToSet(net)
  BY DEF Arriving
<1>2. Copies(m) > 0
  BY <1>1, NetMembers DEF Inv, Base, Shape
<1> QED BY <1>1, <1>2 DEF Inv, Resting, Starting, AtWork, Under, Resetting, Waking

\* The program starts at rest.
LEMMA InitInv == Init => Inv
<1> SUFFICES ASSUME Init PROVE Inv
  OBVIOUS
<1> USE DEF Init
<1>1. PICK origin \in Cores :
          /\ recurring => origin = master_core
          /\ task = [t \in Tasks |->
                Idle(CASE t \in Kids -> 0 [] t = User -> origin [] OTHER -> t[2])]
  OBVIOUS
<1>2. \A c \in Cores : Idle(c) \in TaskType
  BY Names DEF Idle, TaskType, PCs, Named, AckCounts, Phases, master_core, Cores
<1>20. \A c : /\ Idle(c).pc = "idle" /\ Idle(c).core = c /\ Idle(c).phase = 0
  BY DEF Idle
<1>3. /\ \A t \in Kids : task[t] = Idle(0)
      /\ task[User] = Idle(origin)
      /\ \A t \in Mains : task[t] = Idle(t[2])
      /\ task[Bystander] = Idle(NumCores - 1)
  BY <1>1, Names DEF Bystander, Workers, Main
<1>4. task \in [Tasks -> TaskType]
  <2>1. ASSUME NEW t \in Tasks PROVE task[t] \in TaskType
    BY <1>2, <1>3, Names DEF Workers, master_core
  <2> QED BY <1>1, <2>1
<1>5. FiniteBag(net) /\ BagToSet(net) = {}
  BY FS_EmptySet DEF FiniteBag, IsABag, BagToSet, EmptyBag, SetToBag
<1>6. \A x : Copies(x) = 0
  BY <1>5 DEF Copies, BagIn
<1>21. Shape
  BY <1>4, <1>5, Names DEF Shape
<1> HIDE DEF Init
<1>8. Programs
  BY <1>3, <1>20 DEF Programs
<1>9. Places
  <2>1. \A c \in Cores : task[Main(c)].core = c
    BY <1>3, <1>20, Names
  <2>2. Origin = origin
    BY <1>3, <1>20 DEF Origin
  <2> QED BY <1>1, <2>1, <2>2 DEF Places, Init
<1>10. Queues
  BY DEF Queues, Init
<1>11. Phased(0)
  <2>1. \A c \in Cores : task[Main(c)].phase = 0
    BY <1>3, <1>20, Names
  <2> QED BY <1>3, <1>6, <1>20, <2>1 DEF Phased
<1>12. Quiet
  BY <1>3, <1>20 DEF Quiet, Init
<1>13. Resting
  <2>1. task[User].pc = "idle" /\ \A t \in Mains : task[t].pc = "idle"
    BY <1>3, <1>20
  <2> QED BY <1>5, <1>12, <2>1 DEF Resting, Init
<1> QED BY <1>21, <1>8, <1>9, <1>10, <1>11, <1>13 DEF Inv, Base

\* A step that changes the bystander and its messages only.
LEMMA ByStep ==
    ASSUME Inv, NEW r \in TaskType, r.pc \in {"idle", "query", "wait"},
           task' = [task EXCEPT ![Bystander] = r],
           \/ cv' = cv
           \/ \E c \in Cores : cv' = [cv EXCEPT ![c] = @ \union {Bystander}],
           UNCHANGED <<count, event_in_progress, temporary_waking_cv, cores_out,
                       temporary_waking_cores_out, reenroll_count, completion_msgs,
                       recurring, fatal>>,
           FiniteBag(net)',
           \A x : x \notin ByMsgs => Copies(x)' = Copies(x)
    PROVE  Inv'
<1>1. Base
  BY DEF Inv
<1>2. FiniteBag(net)
  BY <1>1 DEF Base, Shape
<1>3. \A t \in Tasks : t # Bystander => task'[t] = task[t]
  BY <1>1 DEF Base, Shape
<1>4. task'[Bystander] = r /\ task' \in [Tasks -> TaskType]
  BY <1>1, Names DEF Base, Shape
<1>5. User \in Tasks /\ User # Bystander /\ \A t \in Workers : t \in Tasks /\ t # Bystander
  BY Names
<1>6. /\ task'[User] = task[User]
      /\ \A t \in Workers : task'[t] = task[t]
  BY <1>3, <1>5
<1>7. Mains \subseteq Workers /\ Kids \subseteq Workers /\ \A c \in Cores : Main(c) \in Mains
  BY Names DEF Workers
<1>8. /\ Enter \notin ByMsgs
      /\ \A t \in Workers \union {User} : Increment(t) \notin ByMsgs /\ \A n : Reply(t, n) \notin ByMsgs
      /\ \A c, t : InProgress(c, t) \notin ByMsgs
      /\ \A t : Ack(t) \notin ByMsgs
      /\ \A c, d : DoComplete(c, d) \notin ByMsgs
      /\ \A c, d : Reset(c, d) \notin ByMsgs
      /\ \A d : ResetDone(d) \notin ByMsgs
      /\ \A c : Wake(c) \notin ByMsgs
  BY <1>5, StageMsgs, Types
<1>9. /\ Copies(Enter)' = Copies(Enter)
      /\ \A t \in Workers \union {User} :
            Copies(Increment(t))' = Copies(Increment(t)) /\ \A n : Copies(Reply(t, n))' = Copies(Reply(t, n))
      /\ \A c, t : Copies(InProgress(c, t))' = Copies(InProgress(c, t))
      /\ \A t : Copies(Ack(t))' = Copies(Ack(t))
      /\ \A c, d : Copies(DoComplete(c, d))' = Copies(DoComplete(c, d))
      /\ \A c, d : Copies(Reset(c, d))' = Copies(Reset(c, d))
      /\ \A d : Copies(ResetDone(d))' = Copies(ResetDone(d))
      /\ \A c : Copies(Wake(c))' = Copies(Wake(c))
  BY <1>8
<1>10. Again' = Again /\ Origin' = Origin
  BY <1>6 DEF Again, Origin
<1>11. \A X : BagToSet(net) \subseteq ByMsgs \union X => BagToSet(net)' \subseteq ByMsgs \union X
  <2>1. \A x : x \in BagToSet(net)' <=> Copies(x)' > 0
    BY NextMembers
  <2>2. \A x : x \in BagToSet(net) <=> Copies(x) > 0
    BY <1>2, NetMembers
  <2> QED BY <2>1, <2>2
<1>12. /\ cv' \in [Cores -> SUBSET Tasks]
       /\ \A c \in Cores : cv'[c] \subseteq cv[c] \union {Bystander}
       /\ \A c \in Cores : cv[c] \subseteq cv'[c]
  BY <1>1, Names DEF Base, Shape
<1>13. Base'
  <2>1. Shape'
    BY <1>1, <1>4, <1>12 DEF Base, Shape
  <2>2. Programs'
    BY <1>1, <1>4, <1>6, <1>7 DEF Base, Programs
  <2>3. Places'
    BY <1>1, <1>6, <1>7, <1>10, <1>12 DEF Base, Places
  <2>4. Queues'
    BY <1>1 DEF Base, Queues
  <2>5. \A ph \in {0, 1} : Phased(ph) => Phased(ph)'
    BY <1>6, <1>7, <1>9 DEF Phased
  <2> QED BY <1>1, <2>1, <2>2, <2>3, <2>4, <2>5 DEF Base
<1>14. Quiet => Quiet'
  BY <1>6, <1>7 DEF Quiet
<1>15. Resting => Resting'
  <2>1. BagToSet(net) \subseteq ByMsgs => BagToSet(net)' \subseteq ByMsgs
    BY <1>11
  <2> QED BY <1>6, <1>7, <1>14, <2>1 DEF Resting
<1>16. Starting => Starting'
  <2>1. Asked' = Asked
    BY <1>9 DEF Asked
  <2>2. BagToSet(net) \subseteq ByMsgs \union StartMsgs => BagToSet(net)' \subseteq ByMsgs \union StartMsgs
    BY <1>11
  <2>3. \A t \in Mains : task'[t] = task[t]
    BY <1>6, <1>7
  <2> QED BY <1>6, <1>9, <1>10, <1>14, <2>1, <2>2, <2>3 DEF Starting
<1>17. AtWork => AtWork'
  <2> HAVE AtWork
  <2>1. Under'
    <3>1. BagToSet(net)' \subseteq ByMsgs \union WorkMsgs
      BY <1>11 DEF AtWork, Under
    <3> QED BY <3>1, <1>6, <1>7, <1>10 DEF AtWork, Under
  <2>2. Wakes'
    BY <1>6, <1>7, <1>9, <1>12 DEF AtWork, Wakes
  <2>3. \A t \in Workers : Tgt(t)' = Tgt(t) /\ (Active(t)' <=> Active(t))
    BY <1>6, <1>9, <1>10 DEF Tgt, Active
  <2>4. Callers' = Callers
    BY <1>9 DEF Callers
  <2>5. Calls'
    <3>1. \A t \in Workers : task[t].child \in Kids => task'[task[t].child] = task[task[t].child]
      BY <1>6, <1>7
    <3> QED BY <1>6, <1>9, <3>1 DEF AtWork, Calls
  <2>6. Apart'
    BY <1>6 DEF AtWork, Apart
  <2>7. Ordered'
    <3>1. Callers \subseteq Workers
      BY DEF Callers
    <3> QED BY <1>6, <2>3, <2>4, <3>1 DEF AtWork, Ordered
  <2>8. Counted'
    <3>1. \A c \in Cores : Owing(c)' = Owing(c)
      BY <2>3 DEF Owing
    <3>2. \A c \in Cores : SentIn(net', c) = SentIn(net, c)
      <4> TAKE c \in Cores
      <4>1. \A x \in Completes(c) : In(x, net') = In(x, net)
        BY <1>9 DEF Completes, Copies, In
      <4> QED BY <4>1, SentSame
    <3> QED BY <3>1, <3>2 DEF AtWork, Counted
  <2>9. Reported'
    BY <1>9, <2>4 DEF AtWork, Reported, Busy
  <2> QED BY <2>1, <2>2, <2>5, <2>6, <2>7, <2>8, <2>9 DEF AtWork
<1>18. Resetting => Resetting'
  <2>1. ToReset' = ToReset
    BY <1>9, <1>10 DEF ToReset
  <2>2. ResetMsgs' = ResetMsgs
    BY <1>10 DEF ResetMsgs
  <2>3. BagToSet(net) \subseteq ByMsgs \union ResetMsgs => BagToSet(net)' \subseteq ByMsgs \union ResetMsgs
    BY <1>11
  <2>4. \A t \in Mains : task'[t] = task[t]
    BY <1>6, <1>7
  <2>5. \A c \in Cores : Copies(Reset(c, Again))' = Copies(Reset(c, Again))
    BY <1>9, <1>10
  <2>6. Copies(ResetDone(Again))' = Copies(ResetDone(Again))
    BY <1>9, <1>10
  <2> QED BY <1>6, <1>10, <1>12, <1>14, <2>1, <2>2, <2>3, <2>4, <2>5, <2>6 DEF Resetting
<1>19. Waking => Waking'
  <2>1. BagToSet(net) \subseteq ByMsgs \union {Wake(c) : c \in Cores}
          => BagToSet(net)' \subseteq ByMsgs \union {Wake(c) : c \in Cores}
    BY <1>11
  <2>2. \A c \in Cores : task'[Main(c)] = task[Main(c)]
    BY <1>6, <1>7
  <2> QED BY <1>6, <1>9, <1>14, <2>1, <2>2 DEF Waking
<1> QED BY <1>13, <1>15, <1>16, <1>17, <1>18, <1>19 DEF Inv

\* The steps of the bystander.
LEMMA BystanderInv == Inv /\ (BystanderWaits \/ HandleQuery \/ ReturnFromQuery) => Inv'
<1> SUFFICES ASSUME Inv, BystanderWaits \/ HandleQuery \/ ReturnFromQuery PROVE Inv'
  OBVIOUS
<1> DEFINE B == task[Bystander]
<1>1. /\ Base /\ FiniteBag(net) /\ task \in [Tasks -> TaskType] /\ fatal = FALSE
      /\ cores_out \in Nat /\ Bystander \in Tasks
  BY Names DEF Inv, Base, Shape
<1>2. B \in TaskType /\ B.core \in Cores /\ B.pc \in {"idle", "query", "wait"}
  BY <1>1 DEF TaskType, Base, Programs
<1>3. \A p \in {"idle", "query", "wait"} :
         /\ [B EXCEPT !.pc = p] \in TaskType /\ [B EXCEPT !.pc = p].pc = p
         /\ [task EXCEPT ![Bystander].pc = p] = [task EXCEPT ![Bystander] = [B EXCEPT !.pc = p]]
  <2>1. \A p \in PCs : [B EXCEPT !.pc = p] \in TaskType /\ [B EXCEPT !.pc = p].pc = p
    BY <1>2 DEF TaskType
  <2>2. \A p : [task EXCEPT ![Bystander].pc = p] = [task EXCEPT ![Bystander] = [B EXCEPT !.pc = p]]
    OBVIOUS
  <2> QED BY <2>1, <2>2 DEF PCs
<1>4. Returned(Bystander) = [B EXCEPT !.pc = "idle"]
  BY Names DEF Returned
<1>5. task = [task EXCEPT ![Bystander] = B]
  BY <1>1
<1> HIDE DEF B
<1>6. ASSUME BystanderWaits PROVE Inv'
  <2> DEFINE c == task[Bystander].core
             ms == WaitSends(Bystander, c)
  <2>1. c \in Cores
    BY <1>2 DEF B
  <2>2. ms \subseteq ByMsgs /\ IsFiniteSet(ms)
    BY FS_EmptySet, FS_Singleton DEF WaitSends, ByMsgs
  <2>3. net' = Send(ms) /\ wait(Bystander, c)
        /\ UNCHANGED <<count, event_in_progress, temporary_waking_cv, cores_out,
                       temporary_waking_cores_out, reenroll_count, completion_msgs, recurring, fatal>>
    BY <1>6 DEF BystanderWaits
  <2> HIDE DEF ms, c
  <2>4. FiniteBag(net)' /\ \A x : Copies(x)' = Copies(x) + IF x \in ms THEN 1 ELSE 0
    BY <1>1, <2>2, <2>3, SendNet
  <2>5. \A x : x \notin ByMsgs => Copies(x)' = Copies(x)
    BY <1>1, <2>2, <2>4, NetMembers
  <2>6. \/ cv' = [cv EXCEPT ![c] = @ \union {Bystander}] /\ task' = [task EXCEPT ![Bystander].pc = "wait"]
        \/ cv' = cv /\ task' = [task EXCEPT ![Bystander] = Returned(Bystander)]
        \/ cv' = cv /\ task' = [task EXCEPT ![Bystander].pc = "query"]
    BY <2>3 DEF wait
  <2>7. cv' = cv \/ \E d \in Cores : cv' = [cv EXCEPT ![d] = @ \union {Bystander}]
    BY <2>1, <2>6
  <2>8. PICK p \in {"idle", "query", "wait"} : task' = [task EXCEPT ![Bystander] = [B EXCEPT !.pc = p]]
    BY <1>3, <1>4, <2>6
  <2>9. [B EXCEPT !.pc = p] \in TaskType /\ [B EXCEPT !.pc = p].pc \in {"idle", "query", "wait"}
    BY <1>3
  <2> QED BY <2>3, <2>4, <2>5, <2>7, <2>8, <2>9, ByStep
<1>7. ASSUME HandleQuery PROVE Inv'
  <2>1. PICK m \in Arriving :
          /\ m.type = "query"
          /\ net' = Receive(m, {Reply(m.task, cores_out)})
          /\ UNCHANGED <<count, event_in_progress, cv, temporary_waking_cv, cores_out,
                         temporary_waking_cores_out, reenroll_count, completion_msgs,
                         task, recurring, fatal>>
    BY <1>7 DEF HandleQuery
  <2>2. m \in ByMsgs
    BY <2>1, Arrivals, StageMsgs, Types
  <2>3. m.task = Bystander /\ Reply(m.task, cores_out) \in ByMsgs
    BY <1>1, <2>2, StageMsgs DEF ByMsgs
  <2>4. IsFiniteSet({Reply(m.task, cores_out)})
    BY FS_Singleton
  <2>5. FiniteBag(net)' /\ \A x : Copies(x)' = Copies(x) - (IF x = m THEN 1 ELSE 0)
                                   + (IF x \in {Reply(m.task, cores_out)} THEN 1 ELSE 0)
    BY <1>1, <2>1, <2>4, ReceiveNet
  <2>6. \A x : x \notin ByMsgs => Copies(x)' = Copies(x)
    BY <1>1, <2>2, <2>3, <2>5, NetMembers
  <2>7. task' = [task EXCEPT ![Bystander] = B]
    BY <1>5, <2>1
  <2> QED BY <1>2, <2>1, <2>5, <2>6, <2>7, ByStep
<1>8. ASSUME ReturnFromQuery PROVE Inv'
  <2>1. PICK m \in Arriving :
          /\ m.type = "reply" /\ task[m.task].pc = "query"
          /\ net' = Receive(m, {})
          /\ \/ /\ cv' = [cv EXCEPT ![task[m.task].core] = @ \union {m.task}]
                /\ task' = [task EXCEPT ![m.task].pc = "wait"]
             \/ /\ task' = [task EXCEPT ![m.task] = Returned(m.task)]
                /\ UNCHANGED cv
          /\ UNCHANGED <<count, event_in_progress, temporary_waking_cv, cores_out,
                         temporary_waking_cores_out, reenroll_count, completion_msgs,
                         recurring, fatal>>
    BY <1>8 DEF ReturnFromQuery
  <2>2. m \in ByMsgs /\ m.task = Bystander
    <3>1. \A t \in Workers \union {User} : task[t].pc # "query"
      BY <1>1 DEF Base, Programs, Workers
    <3>2. m \in ByMsgs \/ (m \in StartMsgs \/ m \in WorkMsgs \/ m \in ResetMsgs
                           \/ m \in {Wake(c) : c \in Cores})
      BY Arrivals
    <3>3. m \in StartMsgs => m.task = User
      BY StageMsgs
    <3>4. m \in WorkMsgs => m.task \in Workers
      BY <2>1, StageMsgs
    <3>5. m \notin ResetMsgs /\ m \notin {Wake(c) : c \in Cores}
      BY <2>1, StageMsgs, Types
    <3> QED BY <2>1, <3>1, <3>2, <3>3, <3>4, <3>5, StageMsgs
  <2>3. FiniteBag(net)' /\ \A x : Copies(x)' = Copies(x) - (IF x = m THEN 1 ELSE 0)
                                   + (IF x \in {} THEN 1 ELSE 0)
    BY <1>1, <2>1, FS_EmptySet, ReceiveNet
  <2>4. \A x : x \notin ByMsgs => Copies(x)' = Copies(x)
    BY <1>1, <2>2, <2>3, NetMembers
  <2>5. cv' = cv \/ \E d \in Cores : cv' = [cv EXCEPT ![d] = @ \union {Bystander}]
    BY <1>2, <2>1, <2>2 DEF B
  <2>6. PICK p \in {"idle", "query", "wait"} : task' = [task EXCEPT ![Bystander] = [B EXCEPT !.pc = p]]
    BY <1>3, <1>4, <2>1, <2>2
  <2>7. [B EXCEPT !.pc = p] \in TaskType /\ [B EXCEPT !.pc = p].pc \in {"idle", "query", "wait"}
    BY <1>3
  <2> QED BY <2>1, <2>3, <2>4, <2>5, <2>6, <2>7, ByStep
<1> QED BY <1>6, <1>7, <1>8

(***************************************************************************)
(* The user task enrolls, and the tasks of the loop begin.                 *)
(***************************************************************************)

\* The tasks of the loop have been enrolled and nothing else happened.
Fresh ==
    /\ Base /\ Quiet /\ Under /\ Wakes
    /\ BagToSet(net) \subseteq ByMsgs \union {Wake(c) : c \in Cores}
    /\ \A t \in Mains : Active(t) /\ task[t].pc # "call"
    /\ \A c \in Cores : count[c] = IF c = Origin THEN NumCores ELSE 0
    /\ cores_out = 1

\* Work has begun then.
LEMMA FreshWork == Fresh => AtWork
<1> SUFFICES ASSUME Fresh PROVE AtWork
  OBVIOUS
<1>1. FiniteBag(net) /\ Quiet /\ Origin \in Cores /\ completion_msgs \in [Cores -> [Cores -> Queue]]
  BY Names DEF Fresh, Base, Shape, Origin, TaskType, Queue
<1>2. \A x : Copies(x) \in Nat /\ (x \in BagToSet(net) <=> Copies(x) > 0)
  BY <1>1, NetMembers
<1>3. \A x : Copies(x) > 0 => x \in ByMsgs \/ x.type = "wake"
  BY <1>2, Types DEF Fresh
<1>4. /\ Copies(Enter) = 0
      /\ \A t \in Workers : Copies(Increment(t)) = 0 /\ \A n : Copies(Reply(t, n)) = 0
      /\ \A c, d : Copies(DoComplete(c, d)) = 0
  BY <1>2, <1>3, StageMsgs, Types, Names
<1>5. \A t \in Workers : task[t].pc # "call"
  BY <1>1 DEF Quiet, Fresh, Workers
<1>6. Calls /\ Apart
  BY <1>4, <1>5 DEF Calls, Apart
<1>7. Callers = {}
  BY <1>4 DEF Callers
<1>8. Ordered
  BY <1>7 DEF Ordered
<1>9. \A c \in Cores : Owing(c) = IF c = Origin THEN Mains ELSE {}
  <2>1. \A t \in Kids : ~Active(t)
    BY <1>1 DEF Quiet, Active
  <2>2. \A t \in Mains : Active(t) /\ Tgt(t) = Origin
    BY Names DEF Fresh, Tgt
  <2> QED BY <2>1, <2>2 DEF Owing, Workers
<1>10. \A c \in Cores : MergedIn(completion_msgs, c) = 0
  <2> TAKE c \in Cores
  <2>1. \A s \in Cores : Waiting(completion_msgs[s][c]) = 0
    BY <1>1 DEF Quiet, Waiting
  <2> QED BY <1>1, <2>1, MergedFacts
<1>11. \A c \in Cores : SentIn(net, c) = 0
  <2> TAKE c \in Cores
  <2>1. \A m \in Completes(c) : m \notin BagToSet(net)
    BY <1>2, <1>4 DEF Completes
  <2> QED BY <1>1, <2>1, SentFacts
<1>12. Counted
  <2>1. \A c \in Cores : Cardinality(Owing(c)) = IF c = Origin THEN NumCores ELSE 0
    BY <1>9, Finite, FS_EmptySet
  <2> QED BY <1>10, <1>11, <2>1, Names DEF Fresh, Counted
<1>13. Reported
  <2>1. Busy = {Origin}
    BY <1>1, Names DEF Fresh, Busy
  <2>2. Cardinality(Busy) = 1 /\ Cardinality(Callers) = 0
    BY <1>7, <2>1, FS_Singleton, FS_EmptySet
  <2> QED BY <1>4, <2>2 DEF Reported, Fresh
<1> QED BY <1>6, <1>8, <1>12, <1>13 DEF AtWork, Fresh

\* The same in the next state.
LEMMA FreshInv == Fresh' => Inv'
<1>1. Fresh => Inv
  BY FreshWork DEF Inv, Fresh
<1> QED BY <1>1, PTL

\* The fields of a task, and changes of a task.
LEMMA TaskFields ==
    ASSUME NEW r \in TaskType
    PROVE  /\ r.pc \in PCs /\ r.core \in Cores /\ r.target \in Cores /\ r.fuel \in Nat
           /\ r.child \in Kids \union {User} /\ r.acks \in 0 .. NumCores - 1 /\ r.phase \in {0, 1}
BY DEF TaskType, Named, AckCounts, Phases

\* The user task goes on: the tasks of the loop run.
LEMMA EnrolledUser ==
    ASSUME NEW tk \in [Tasks -> TaskType]
    PROVE  LET e == Enrolled(tk, User)
           IN  /\ e \in [Tasks -> TaskType]
               /\ e[User].pc = "started" /\ e[User].core = tk[User].core
               /\ \A t \in Mains : /\ e[t].pc = "run" /\ e[t].core = tk[t].core
                                   /\ e[t].phase = tk[t].phase
               /\ \A t \in Kids \union {Bystander} : e[t] = tk[t]
<1> DEFINE e == Enrolled(tk, User)
<1>1. e = [u \in Tasks |->
             IF u = User THEN [tk[User] EXCEPT !.pc = "started"]
             ELSE IF u \in Mains THEN [tk[u] EXCEPT !.pc = "run", !.fuel = Fuel[u[2]]]
             ELSE tk[u]]
  BY DEF Enrolled
<1>2. User \in Tasks /\ Bystander \in Tasks /\ User # Bystander /\ User \notin Mains
      /\ (\A t \in Mains : t \in Tasks /\ t # User) /\ Bystander \notin Mains
      /\ \A t \in Kids : t \in Tasks /\ t # User /\ t \notin Mains
  BY Names DEF Workers
<1>3. /\ e[User] = [tk[User] EXCEPT !.pc = "started"]
      /\ \A t \in Mains : e[t] = [tk[t] EXCEPT !.pc = "run", !.fuel = Fuel[t[2]]]
      /\ \A t \in Kids \union {Bystander} : e[t] = tk[t]
  BY <1>1, <1>2
<1>4. e[User] \in TaskType /\ e[User].pc = "started" /\ e[User].core = tk[User].core
  <2>1. tk[User] \in TaskType
    BY <1>2
  <2> QED BY <1>3, <2>1 DEF TaskType, PCs
<1>5. ASSUME NEW t \in Mains
      PROVE  e[t] \in TaskType /\ e[t].pc = "run" /\ e[t].core = tk[t].core /\ e[t].phase = tk[t].phase
  <2>1. tk[t] \in TaskType /\ Fuel[t[2]] \in Nat
    BY <1>2, Names
  <2>2. "run" \in PCs /\ e[t] = [tk[t] EXCEPT !.pc = "run", !.fuel = Fuel[t[2]]]
    BY <1>3 DEF PCs
  <2> HIDE DEF e
  <2> DEFINE r == tk[t]
             f == Fuel[t[2]]
  <2> HIDE DEF r, f
  <2>3. LET q == [r EXCEPT !.pc = "run", !.fuel = f]
        IN  q \in TaskType /\ q.pc = "run" /\ q.core = r.core /\ q.phase = r.phase
    BY <2>1, <2>2 DEF TaskType, r, f
  <2> QED BY <2>2, <2>3 DEF r, f
<1> HIDE DEF e
<1>6. \A t \in Tasks : e[t] \in TaskType
  BY <1>3, <1>4, <1>5, Names DEF Workers
<1>7. e \in [Tasks -> TaskType]
  BY <1>1, <1>6
<1> QED BY <1>3, <1>4, <1>5, <1>7 DEF e

\* The messages of a loop being enrolled are told from all others.
LEMMA StartNames ==
    /\ \A c : Wake(c) \notin ByMsgs /\ Wake(c) \notin StartMsgs
    /\ Increment(User) \notin ByMsgs /\ Reply(User, 1) \notin ByMsgs /\ Ack(User) \notin ByMsgs
    /\ \A c : InProgress(c, User) \notin ByMsgs
    /\ Increment(User) # Reply(User, 1) /\ Increment(User) # Ack(User) /\ Reply(User, 1) # Ack(User)
    /\ \A c : /\ InProgress(c, User) # Increment(User) /\ InProgress(c, User) # Reply(User, 1)
              /\ InProgress(c, User) # Ack(User)
    /\ \A c, d : InProgress(c, User) = InProgress(d, User) => c = d
    /\ Increment(User) \in StartMsgs /\ Reply(User, 1) \in StartMsgs /\ Ack(User) \in StartMsgs
    /\ \A c \in Cores : InProgress(c, User) \in StartMsgs
<1>1. User # Bystander
  BY Names
<1>2. /\ Increment(User) \in StartMsgs /\ Reply(User, 1) \in StartMsgs /\ Ack(User) \in StartMsgs
      /\ \A c \in Cores : InProgress(c, User) \in StartMsgs
  BY DEF StartMsgs
<1> QED BY <1>1, <1>2, StageMsgs, Types

\* No message but the bystander's at rest.
LEMMA RestingNet ==
    ASSUME Base, Resting
    PROVE  /\ \A x : Copies(x) \in Nat
           /\ \A x : x \notin ByMsgs => Copies(x) = 0
BY NetMembers DEF Base, Shape, Resting

\* What keeps the facts of all stages while the user task enrolls.
LEMMA StartBase ==
    ASSUME Base, Quiet, \A t \in Mains : task[t].pc = "idle", Shape',
           task'[User].pc \in {"call", "all", "started"}, task'[User].core = task[User].core,
           \A t \in Mains : task'[t].core = task[t].core /\ task'[t].phase = task[t].phase
                            /\ task'[t].pc \in {"idle", "run"},
           \A t \in Kids \union {Bystander} : task'[t] = task[t],
           \A c : Copies(Wake(c))' = Copies(Wake(c)),
           UNCHANGED <<cv, temporary_waking_cv, completion_msgs, recurring>>
    PROVE  Base' /\ Quiet'
<1>1. Programs'
  BY DEF Base, Programs
<1>2. Places'
  BY Names DEF Base, Places, Origin
<1>3. Queues'
  BY DEF Base, Queues
<1>4. \A ph \in {0, 1} : Phased(ph) => Phased(ph)'
  BY Names DEF Phased
<1>5. Quiet'
  BY DEF Quiet
<1> QED BY <1>1, <1>2, <1>3, <1>4, <1>5 DEF Base

\* The user task enrolls.
LEMMA StartInv == Inv /\ StartPhase => Inv'
<1> SUFFICES ASSUME Inv, StartPhase PROVE Inv'
  OBVIOUS
<1> DEFINE c == task[User].core
<1>1. Base /\ Resting
  BY DEF Inv, StartPhase, Starting, AtWork, Under, Resetting, Waking
<1>2. /\ Shape /\ FiniteBag(net) /\ task \in [Tasks -> TaskType] /\ Quiet /\ User \in Tasks
      /\ c \in Cores /\ count[c] = 0 /\ cores_out = 0 /\ count \in [Cores -> Nat]
      /\ event_in_progress \in [Cores -> BOOLEAN] /\ NumCores \in Nat \ {0}
      /\ \A t \in Mains : task[t].pc = "idle"
  BY <1>1, Names DEF Base, Shape, Resting, TaskType
<1>3. /\ \A x : Copies(x) \in Nat
      /\ \A x : x \notin ByMsgs => Copies(x) = 0
  BY <1>1, RestingNet
<1>4. /\ reenroll_count' = Again /\ reenroll_count' \in {0, NumCores}
      /\ count' = [count EXCEPT ![c] = @ + NumCores]
      /\ event_in_progress' = [event_in_progress EXCEPT ![c] = TRUE]
      /\ \/ /\ c = master_core
            /\ cores_out' = 1
            /\ net' = Send(CallOnAllCores(User, c, 1))
            /\ task' = AfterCall(task, User, 1)
         \/ /\ c # master_core
            /\ net' = Send({Increment(User)})
            /\ task' = [task EXCEPT ![User].pc = "call"]
            /\ cores_out' = cores_out
      /\ UNCHANGED <<cv, temporary_waking_cv, temporary_waking_cores_out,
                     completion_msgs, recurring, fatal>>
  <2>1. reenroll_count' = IF recurring THEN NumCores ELSE reenroll_count
    BY DEF StartPhase
  <2>2. reenroll_count = 0 /\ recurring \in BOOLEAN
    BY <1>1, <1>2 DEF Resting, Shape
  <2>3. enroll(User, NumCores, task)
    BY DEF StartPhase
  <2>4. reenroll_count' = Again /\ reenroll_count' \in {0, NumCores}
    BY <2>1, <2>2 DEF Again
  <2>5. /\ count' = [count EXCEPT ![c] = @ + NumCores]
        /\ event_in_progress' = [event_in_progress EXCEPT ![c] = @ \/ (count[c] = 0)]
        /\ \/ /\ c = master_core
              /\ cores_out' = cores_out + 1
              /\ net' = Send(CallOnAllCores(User, c, cores_out'))
              /\ task' = AfterCall(task, User, cores_out')
           \/ /\ c # master_core
              /\ net' = Send({Increment(User)})
              /\ task' = [task EXCEPT ![User].pc = "call"]
              /\ cores_out' = cores_out
        /\ UNCHANGED <<cv, temporary_waking_cv, temporary_waking_cores_out,
                       completion_msgs, recurring, fatal>>
    BY <1>2, <2>3 DEF enroll
  <2>6. event_in_progress' = [event_in_progress EXCEPT ![c] = TRUE]
    BY <1>2, <2>5
  <2>7. cores_out + 1 = 1
    BY <1>2
  <2> QED BY <2>4, <2>5, <2>6, <2>7
<1> HIDE DEF c
<1>5. /\ count' \in [Cores -> Nat] /\ event_in_progress' \in [Cores -> BOOLEAN]
      /\ \A d \in Cores : count'[d] = IF d = c THEN NumCores ELSE 0
      /\ event_in_progress'[c] = TRUE
  BY <1>1, <1>2, <1>4 DEF Resting
<1>6. Again' = Again /\ Origin = c
  BY <1>4 DEF Again, Origin, c
<1>7. temporary_waking_cores_out' = 0
  BY <1>1, <1>4 DEF Resting
<1>8. CASE c # master_core
  <2>1. /\ net' = Send({Increment(User)}) /\ task' = [task EXCEPT ![User].pc = "call"] /\ cores_out' = 0
    BY <1>2, <1>4, <1>8
  <2>2. FiniteBag(net)' /\ \A x : Copies(x)' = Copies(x) + IF x \in {Increment(User)} THEN 1 ELSE 0
    BY <1>2, <2>1, FS_Singleton, SendNet
  <2>3. /\ task'[User] = [task[User] EXCEPT !.pc = "call"]
        /\ \A t \in Tasks : t # User => task'[t] = task[t]
        /\ task' \in [Tasks -> TaskType]
    BY <1>2, <2>1 DEF TaskType, PCs
  <2>4. task'[User].pc = "call" /\ task'[User].core = c
    BY <1>2, <2>3 DEF TaskType, c
  <2>5. \A t \in Workers \union {Bystander} : task'[t] = task[t]
    BY <2>3, Names
  <2>6. Shape'
    BY <1>2, <1>4, <1>5, <2>1, <2>2, <2>3 DEF Shape
  <2>7. Base' /\ Quiet'
    <3>1. \A d : Copies(Wake(d))' = Copies(Wake(d))
      BY <1>3, <2>2, Types
    <3>2. task'[User].core = task[User].core
      BY <2>4 DEF c
    <3> QED BY <1>1, <1>2, <1>4, <2>4, <2>5, <2>6, <3>1, <3>2, StartBase DEF Workers
  <2>8. BagToSet(net)' \subseteq ByMsgs \union StartMsgs
    BY <1>3, <2>2, NextMembers, StartNames
  <2>9. Copies(Increment(User))' = 1 /\ Copies(Reply(User, 1))' = 0 /\ Asked' = {} /\ Copies(Ack(User))' = 0
    BY <1>3, <2>2, StartNames DEF Asked
  <2>10. Origin' = c
    BY <2>4 DEF Origin
  <2>11. \A t \in Mains : task'[t].pc = "idle"
    BY <1>2, <2>5 DEF Workers
  <2>12. Copies(Increment(User))' + Copies(Reply(User, 1))' = 1 /\ cores_out' = Copies(Reply(User, 1))'
    BY <2>1, <2>9
  <2>13. Starting'
    BY <1>4, <1>5, <1>6, <1>7, <1>8, <2>4, <2>7, <2>8, <2>9, <2>10, <2>11, <2>12 DEF Starting
  <2> QED BY <2>7, <2>13 DEF Inv
<1>9. CASE c = master_core /\ NumCores > 1
  <2> DEFINE ms == {InProgress(d, User) : d \in Cores \ {c}}
  <2>1. /\ net' = Send(ms) /\ cores_out' = 1
        /\ task' = [task EXCEPT ![User].pc = "all", ![User].acks = NumCores - 1]
    BY <1>4, <1>9 DEF CallOnAllCores, AfterCall
  <2>2. IsFiniteSet(ms)
    BY SentSets
  <2>3. FiniteBag(net)' /\ \A x : Copies(x)' = Copies(x) + IF x \in ms THEN 1 ELSE 0
    BY <1>2, <2>1, <2>2, SendNet
  <2>4. /\ task'[User] = [task[User] EXCEPT !.pc = "all", !.acks = NumCores - 1]
        /\ \A t \in Tasks : t # User => task'[t] = task[t]
    BY <1>2, <2>1
  <2>5. /\ task'[User].pc = "all" /\ task'[User].core = c /\ task'[User].acks = NumCores - 1
        /\ task'[User] \in TaskType
    <3>1. task[User] \in TaskType
      BY <1>2
    <3>2. NumCores - 1 \in AckCounts /\ "all" \in PCs
      BY <1>2 DEF PCs, AckCounts
    <3> QED BY <2>4, <3>1, <3>2 DEF TaskType, c
  <2>6. task' \in [Tasks -> TaskType]
    BY <1>2, <2>1, <2>4, <2>5
  <2>7. \A t \in Workers \union {Bystander} : task'[t] = task[t]
    BY <2>4, Names
  <2>8. Shape'
    BY <1>2, <1>4, <1>5, <2>1, <2>3, <2>6 DEF Shape
  <2>9. /\ \A d \in Cores : Copies(InProgress(d, User))' = IF d = c THEN 0 ELSE 1
        /\ \A x : x \in ms => x \in StartMsgs
        /\ Increment(User) \notin ms /\ Reply(User, 1) \notin ms /\ Ack(User) \notin ms
        /\ \A d : Wake(d) \notin ms
    BY <1>3, <2>3, StartNames
  <2> HIDE DEF ms
  <2>10. Base' /\ Quiet'
    <3>1. \A d : Copies(Wake(d))' = Copies(Wake(d))
      BY <1>3, <2>3, <2>9
    <3>2. task'[User].core = task[User].core
      BY <2>5 DEF c
    <3> QED BY <1>1, <1>2, <1>4, <2>5, <2>7, <2>8, <3>1, <3>2, StartBase DEF Workers
  <2>11. BagToSet(net)' \subseteq ByMsgs \union StartMsgs
    BY <1>3, <2>3, <2>9, NextMembers
  <2>12. Copies(Increment(User))' = 0 /\ Copies(Reply(User, 1))' = 0 /\ Copies(Ack(User))' = 0
    BY <1>3, <2>3, <2>9, StartNames
  <2>13. Asked' = Cores \ {c}
    BY <2>9 DEF Asked
  <2>14. Cardinality(Asked)' = NumCores - 1
    <3>1. Cardinality(Cores \ {c}) = NumCores - 1
      BY <1>2, Finite, FS_RemoveElement
    <3> QED BY <2>13, <3>1
  <2>15. Origin' = c
    BY <2>5 DEF Origin
  <2>16. \A t \in Mains : task'[t].pc = "idle"
    BY <1>2, <2>7 DEF Workers
  <2>17. /\ \A d \in Cores : Copies(InProgress(d, User))' <= 1
         /\ \A d \in Cores : d \notin Asked' => event_in_progress'[d] = TRUE
         /\ task'[User].acks = Cardinality(Asked)' + Copies(Ack(User))' /\ task'[User].acks >= 1
    BY <1>2, <1>5, <1>9, <2>5, <2>9, <2>12, <2>13, <2>14
  <2>18. Starting'
    BY <1>4, <1>5, <1>6, <1>7, <2>1, <2>5, <2>10, <2>11, <2>12, <2>15, <2>16, <2>17 DEF Starting
  <2> QED BY <2>10, <2>18 DEF Inv
<1>10. CASE c = master_core /\ NumCores = 1
  <2>1. net' = Send({}) /\ cores_out' = 1 /\ task' = Enrolled(task, User)
    <3>1. Cores \ {c} = {}
      BY <1>10 DEF Cores, master_core
    <3>2. {InProgress(d, User) : d \in Cores \ {c}} = {}
      BY <3>1
    <3> QED BY <1>4, <1>10, <3>2 DEF CallOnAllCores, AfterCall
  <2>2. FiniteBag(net)' /\ \A x : Copies(x)' = Copies(x) + IF x \in {} THEN 1 ELSE 0
    BY <1>2, <2>1, FS_EmptySet, SendNet
  <2>3. /\ task' \in [Tasks -> TaskType]
        /\ task'[User].pc = "started" /\ task'[User].core = task[User].core
        /\ \A t \in Mains : /\ task'[t].pc = "run" /\ task'[t].core = task[t].core
                            /\ task'[t].phase = task[t].phase
        /\ \A t \in Kids \union {Bystander} : task'[t] = task[t]
    BY <1>2, <2>1, EnrolledUser
  <2>4. Shape'
    BY <1>2, <1>4, <1>5, <2>1, <2>2, <2>3 DEF Shape
  <2>5. \A x : Copies(x)' = Copies(x)
    BY <1>3, <2>2
  <2>6. Base' /\ Quiet'
    BY <1>1, <1>2, <1>4, <2>3, <2>4, <2>5, StartBase
  <2>7. BagToSet(net)' \subseteq ByMsgs
    BY <1>3, <2>2, <2>5, NextMembers
  <2>8. Origin' = c
    BY <2>3 DEF Origin, c
  <2>9. \A d \in Cores : event_in_progress'[d] = TRUE
    BY <1>5, <1>10 DEF Cores, master_core
  <2>10. Under'
    BY <1>4, <1>6, <1>7, <2>3, <2>7, <2>9 DEF Under
  <2>11. \A d : Copies(Wake(d))' = 0
    BY <1>3, <2>5, StartNames
  <2>12. Wakes'
    BY <2>3, <2>11, Names DEF Wakes
  <2>13. \A t \in Mains : Active(t)' /\ task'[t].pc # "call"
    BY <2>3, Names DEF Active
  <2>14. Fresh'
    BY <1>5, <2>1, <2>6, <2>7, <2>8, <2>10, <2>12, <2>13 DEF Fresh
  <2> QED BY <2>14, FreshInv
<1> QED BY <1>2, <1>8, <1>9, <1>10

\* Steps of the user task's call: what they have in common.
LEMMA StartingFacts ==
    ASSUME Inv, Starting
    PROVE  /\ Base /\ Shape /\ FiniteBag(net) /\ task \in [Tasks -> TaskType] /\ Quiet
           /\ User \in Tasks /\ task[User] \in TaskType /\ Origin \in Cores
           /\ Origin = task[User].core /\ NumCores \in Nat \ {0}
           /\ \A x : Copies(x) \in Nat
           /\ \A x : Copies(x) > 0 => x \in ByMsgs \union StartMsgs
           /\ \A c : Copies(Wake(c)) = 0
           /\ Asked \subseteq Cores /\ IsFiniteSet(Asked) /\ Cardinality(Asked) \in Nat
<1>1. /\ Base /\ Shape /\ FiniteBag(net) /\ task \in [Tasks -> TaskType] /\ Quiet /\ User \in Tasks
      /\ NumCores \in Nat \ {0}
  BY Names DEF Inv, Base, Shape, Starting
<1>2. task[User] \in TaskType /\ Origin \in Cores /\ Origin = task[User].core
  BY <1>1, TaskFields DEF Origin
<1>3. \A x : Copies(x) \in Nat /\ (x \in BagToSet(net) <=> Copies(x) > 0)
  BY <1>1, NetMembers
<1>4. \A x : Copies(x) > 0 => x \in ByMsgs \union StartMsgs
  BY <1>3 DEF Starting
<1>5. \A c : Copies(Wake(c)) = 0
  BY <1>3, <1>4, StartNames
<1>6. Asked \subseteq Cores /\ IsFiniteSet(Asked) /\ Cardinality(Asked) \in Nat
  BY Finite, FS_Subset, FS_CardinalityType DEF Asked
<1> QED BY <1>1, <1>2, <1>3, <1>4, <1>5, <1>6

\* The master counts the first core.
LEMMA IncrementStarting ==
    ASSUME Inv, Starting, NEW m \in Arriving, m = Increment(User),
           cores_out' = cores_out + 1, net' = Receive(m, {Reply(m.task, cores_out')}),
           UNCHANGED <<count, event_in_progress, cv, temporary_waking_cv,
                       temporary_waking_cores_out, reenroll_count, completion_msgs,
                       task, recurring, fatal>>
    PROVE  Inv'
<1>1. Copies(m) > 0
  BY Arrivals
<1>2. /\ Base /\ Shape /\ FiniteBag(net) /\ Quiet
      /\ \A x : Copies(x) \in Nat
      /\ \A x : Copies(x) > 0 => x \in ByMsgs \union StartMsgs
      /\ \A c : Copies(Wake(c)) = 0
  BY StartingFacts
<1>3. /\ task[User].pc = "call" /\ Origin # master_core
      /\ Copies(Increment(User)) + Copies(Reply(User, 1)) = 1
      /\ cores_out = Copies(Reply(User, 1))
      /\ Asked = {} /\ Copies(Ack(User)) = 0
  BY <1>1 DEF Starting
<1>4. Copies(Increment(User)) = 1 /\ Copies(Reply(User, 1)) = 0 /\ cores_out = 0
  BY <1>1, <1>2, <1>3
<1>5. net' = Receive(m, {Reply(User, 1)}) /\ cores_out' = 1
  <2>1. cores_out' = 1
    BY <1>4
  <2>2. m.task = User
    BY Types
  <2> QED BY <2>1, <2>2
<1>6. /\ FiniteBag(net)'
      /\ \A x : Copies(x)' \in Nat /\ (x \in BagToSet(net)' <=> Copies(x)' > 0)
      /\ \A x : x # Increment(User) /\ x # Reply(User, 1) => Copies(x)' = Copies(x)
      /\ Copies(Increment(User))' = Copies(Increment(User)) - 1
      /\ Copies(Reply(User, 1))' = Copies(Reply(User, 1)) + 1
  BY <1>2, <1>5, StartNames, AnswerOne
<1>7. /\ Copies(Increment(User))' = 0 /\ Copies(Reply(User, 1))' = 1 /\ Copies(Ack(User))' = 0
      /\ \A c : Copies(Wake(c))' = Copies(Wake(c))
      /\ \A c : Copies(InProgress(c, User))' = Copies(InProgress(c, User))
  BY <1>2, <1>3, <1>4, <1>6, StartNames, Types
<1>8. Shape'
  BY <1>2, <1>5, <1>6 DEF Shape
<1>9. Base' /\ Quiet'
  BY <1>2, <1>3, <1>7, <1>8, StartBase DEF Starting
<1>10. BagToSet(net)' \subseteq ByMsgs \union StartMsgs
  BY <1>2, <1>6, StartNames
<1>11. Asked' = {} /\ Origin' = Origin /\ Again' = Again
  BY <1>3, <1>7 DEF Asked, Origin, Again
<1>12. Copies(Increment(User))' + Copies(Reply(User, 1))' = 1 /\ cores_out' = Copies(Reply(User, 1))'
  BY <1>5, <1>7
<1>13. Starting'
  BY <1>3, <1>7, <1>9, <1>10, <1>11, <1>12 DEF Starting
<1> QED BY <1>9, <1>13 DEF Inv

\* The user task is the first to leave the barrier and calls all cores.
LEMMA ReturnStarting ==
    ASSUME Inv, Starting, NEW m \in Arriving, m = Reply(User, 1), task[User].pc = "call",
           event_in_progress' = [event_in_progress EXCEPT ![Origin] = @ \/ m.value = 1],
           net' = Receive(m, CallOnAllCores(User, Origin, m.value)),
           task' = AfterCall(task, User, m.value),
           fatal' = (m.value # 1 /\ count[Origin] <= 0),
           UNCHANGED <<count, cv, temporary_waking_cv, cores_out,
                       temporary_waking_cores_out, reenroll_count, completion_msgs,
                       recurring>>
    PROVE  Inv'
<1> DEFINE ms == {InProgress(d, User) : d \in Cores \ {Origin}}
<1>1. Copies(m) > 0
  BY Arrivals
<1>2. /\ Base /\ Shape /\ FiniteBag(net) /\ Quiet /\ task \in [Tasks -> TaskType]
      /\ User \in Tasks /\ task[User] \in TaskType /\ Origin \in Cores
      /\ Origin = task[User].core /\ NumCores \in Nat \ {0}
      /\ \A x : Copies(x) \in Nat
      /\ \A x : Copies(x) > 0 => x \in ByMsgs \union StartMsgs
      /\ \A c : Copies(Wake(c)) = 0
  BY StartingFacts
<1>3. /\ Origin # master_core
      /\ Copies(Increment(User)) + Copies(Reply(User, 1)) = 1
      /\ cores_out = Copies(Reply(User, 1))
      /\ Asked = {} /\ Copies(Ack(User)) = 0
  BY DEF Starting
<1>4. Copies(Increment(User)) = 0 /\ Copies(Reply(User, 1)) = 1 /\ cores_out = 1
  BY <1>1, <1>2, <1>3
<1>5. NumCores > 1
  BY <1>2, <1>3 DEF Cores, master_core
<1>6. /\ net' = Receive(m, ms) /\ fatal' = FALSE
      /\ task' = [task EXCEPT ![User].pc = "all", ![User].acks = NumCores - 1]
      /\ event_in_progress' = [event_in_progress EXCEPT ![Origin] = TRUE]
  <2>1. m.value = 1
    BY Types
  <2>2. event_in_progress \in [Cores -> BOOLEAN]
    BY <1>2 DEF Shape
  <2> QED BY <1>5, <2>1, <2>2 DEF CallOnAllCores, AfterCall
<1>7. IsFiniteSet(ms)
  BY SentSets
<1>8. /\ FiniteBag(net)'
      /\ \A x : Copies(x)' \in Nat /\ (x \in BagToSet(net)' <=> Copies(x)' > 0)
      /\ \A x : x # m /\ x \notin ms => Copies(x)' = Copies(x)
      /\ Copies(m)' = Copies(m) - 1
      /\ \A x \in ms : Copies(x)' = Copies(x) + 1
  <2>1. m \notin ms
    BY StartNames
  <2> HIDE DEF ms
  <2> QED BY <1>2, <1>6, <1>7, <2>1, AnswerNew
<1>9. \A d \in Cores : Copies(InProgress(d, User)) = 0
  BY <1>2, <1>3 DEF Asked
<1>10. /\ \A d \in Cores : Copies(InProgress(d, User))' = IF d = Origin THEN 0 ELSE 1
       /\ \A x : x \in ms => x \in StartMsgs
       /\ Increment(User) \notin ms /\ Reply(User, 1) \notin ms /\ Ack(User) \notin ms
       /\ \A d : Wake(d) \notin ms
  BY <1>8, <1>9, StartNames
<1> HIDE DEF ms
<1>11. /\ Copies(Increment(User))' = 0 /\ Copies(Reply(User, 1))' = 0 /\ Copies(Ack(User))' = 0
       /\ \A c : Copies(Wake(c))' = Copies(Wake(c))
  BY <1>2, <1>3, <1>4, <1>8, <1>10, StartNames, Types
<1>12. /\ task'[User] = [task[User] EXCEPT !.pc = "all", !.acks = NumCores - 1]
       /\ \A t \in Tasks : t # User => task'[t] = task[t]
  BY <1>2, <1>6
<1>13. /\ task'[User].pc = "all" /\ task'[User].core = Origin /\ task'[User].acks = NumCores - 1
       /\ task'[User] \in TaskType
  <2>1. NumCores - 1 \in AckCounts /\ "all" \in PCs
    BY <1>2 DEF PCs, AckCounts
  <2> QED BY <1>2, <1>12, <2>1 DEF TaskType
<1>14. task' \in [Tasks -> TaskType]
  BY <1>2, <1>6, <1>12, <1>13
<1>15. \A t \in Workers \union {Bystander} : task'[t] = task[t]
  BY <1>12, Names
<1>16. Shape'
  BY <1>2, <1>6, <1>8, <1>14 DEF Shape
<1>17. Base' /\ Quiet'
  <2>1. \A t \in Mains : task[t].pc = "idle"
    BY DEF Starting
  <2> QED BY <1>2, <1>11, <1>13, <1>15, <1>16, <2>1, StartBase DEF Workers
<1>18. BagToSet(net)' \subseteq ByMsgs \union StartMsgs
  <2>1. m \in StartMsgs
    BY StartNames
  <2> QED BY <1>2, <1>8, <1>10, <2>1
<1>19. Asked' = Cores \ {Origin}
  BY <1>10 DEF Asked
<1>20. Cardinality(Asked)' = NumCores - 1
  <2>1. Cardinality(Cores \ {Origin}) = NumCores - 1
    <3> DEFINE o == Origin
    <3>1. o \in Cores
      BY <1>2
    <3> HIDE DEF o
    <3>2. Cardinality(Cores \ {o}) = NumCores - 1
      BY <3>1, Finite, FS_RemoveElement
    <3> QED BY <3>2 DEF o
  <2> QED BY <1>19, <2>1
<1>21. Origin' = Origin /\ Again' = Again
  BY <1>13 DEF Origin, Again
<1>22. \A t \in Mains : task'[t].pc = "idle"
  BY <1>15 DEF Workers, Starting
<1>23. /\ \A d \in Cores : Copies(InProgress(d, User))' <= 1
       /\ \A d \in Cores : d \notin Asked' => event_in_progress'[d] = TRUE
       /\ event_in_progress'[Origin] = TRUE
       /\ task'[User].acks = Cardinality(Asked)' + Copies(Ack(User))' /\ task'[User].acks >= 1
  <2>1. event_in_progress'[Origin] = TRUE
    BY <1>2, <1>6 DEF Shape
  <2> QED BY <1>2, <1>5, <1>10, <1>11, <1>13, <1>19, <1>20, <2>1
<1>24. Starting'
  BY <1>4, <1>11, <1>13, <1>17, <1>18, <1>21, <1>22, <1>23 DEF Starting
<1> QED BY <1>17, <1>24 DEF Inv

\* A core is told that the event is in progress.
LEMMA InProgressInv == Inv /\ HandleInProgress => Inv'
<1> SUFFICES ASSUME Inv, HandleInProgress PROVE Inv'
  OBVIOUS
<1>1. PICK m \in Arriving :
        /\ m.type = "in_progress"
        /\ event_in_progress' = [event_in_progress EXCEPT ![m.core] = TRUE]
        /\ net' = Receive(m, {Ack(m.task)})
        /\ UNCHANGED <<count, cv, temporary_waking_cv, cores_out,
                       temporary_waking_cores_out, reenroll_count, completion_msgs,
                       task, recurring, fatal>>
  BY DEF HandleInProgress
<1>2. Starting /\ m \in StartMsgs /\ Copies(m) > 0
  BY <1>1, Arrivals, StageMsgs, Types
<1> DEFINE c == m.core
<1>3. c \in Cores /\ m = InProgress(c, User) /\ m.task = User
  BY <1>1, <1>2, StageMsgs
<1> HIDE DEF c
<1>4. /\ Base /\ Shape /\ FiniteBag(net) /\ Quiet
      /\ \A x : Copies(x) \in Nat
      /\ \A x : Copies(x) > 0 => x \in ByMsgs \union StartMsgs
      /\ \A d : Copies(Wake(d)) = 0
      /\ Asked \subseteq Cores /\ IsFiniteSet(Asked) /\ Cardinality(Asked) \in Nat
      /\ task[User] \in TaskType
  BY <1>2, StartingFacts
<1>5. c \in Asked
  BY <1>2, <1>3 DEF Asked
<1>6. /\ task[User].pc = "all" /\ task[User].acks >= 1
      /\ Copies(Increment(User)) = 0 /\ Copies(Reply(User, 1)) = 0
      /\ cores_out = 1
      /\ \A d \in Cores : Copies(InProgress(d, User)) <= 1
      /\ \A d \in Cores : d \notin Asked => event_in_progress[d] = TRUE
      /\ task[User].acks = Cardinality(Asked) + Copies(Ack(User))
  BY <1>2, <1>5 DEF Starting
<1>7. /\ FiniteBag(net)'
      /\ \A x : Copies(x)' \in Nat /\ (x \in BagToSet(net)' <=> Copies(x)' > 0)
      /\ \A x : x # m /\ x # Ack(User) => Copies(x)' = Copies(x)
      /\ Copies(m)' = Copies(m) - 1 /\ Copies(Ack(User))' = Copies(Ack(User)) + 1
  <2>1. Ack(User) # m /\ net' = Receive(m, {Ack(User)})
    BY <1>1, <1>3, StartNames
  <2> QED BY <1>4, <2>1, AnswerOne
<1>8. /\ Copies(Increment(User))' = 0 /\ Copies(Reply(User, 1))' = 0
      /\ Copies(Ack(User))' = Copies(Ack(User)) + 1
      /\ \A d : Copies(Wake(d))' = Copies(Wake(d))
      /\ \A d \in Cores : Copies(InProgress(d, User))'
                             = IF d = c THEN 0 ELSE Copies(InProgress(d, User))
  <2>1. Copies(m) = 1
    BY <1>2, <1>3, <1>4, <1>6
  <2>2. \A d : Wake(d) # m /\ Wake(d) # Ack(User)
    BY <1>1, Types
  <2> QED BY <1>3, <1>4, <1>6, <1>7, <2>1, <2>2, StartNames
<1>9. event_in_progress \in [Cores -> BOOLEAN]
      /\ event_in_progress' = [event_in_progress EXCEPT ![c] = TRUE]
      /\ event_in_progress' \in [Cores -> BOOLEAN]
  BY <1>1, <1>4 DEF Shape, c
<1>10. Shape'
  BY <1>1, <1>4, <1>7, <1>9 DEF Shape
<1>11. Base' /\ Quiet'
  BY <1>1, <1>2, <1>4, <1>6, <1>8, <1>10, StartBase DEF Starting
<1>12. BagToSet(net)' \subseteq ByMsgs \union StartMsgs
  BY <1>2, <1>4, <1>7, StartNames
<1>13. Asked' = Asked \ {c}
  BY <1>3, <1>8 DEF Asked
<1>14. Cardinality(Asked)' = Cardinality(Asked) - 1
  <2>1. Cardinality(Asked \ {c}) = Cardinality(Asked) - 1
    BY <1>4, <1>5, FS_RemoveElement
  <2> QED BY <1>13, <2>1
<1>15. Origin' = Origin /\ Again' = Again /\ Origin \in Cores
  BY <1>1, <1>4, TaskFields DEF Origin, Again
<1>16. /\ \A d \in Cores : Copies(InProgress(d, User))' <= 1
       /\ \A d \in Cores : d \notin Asked' => event_in_progress'[d] = TRUE
       /\ event_in_progress'[Origin] = TRUE
       /\ task'[User].acks = Cardinality(Asked)' + Copies(Ack(User))' /\ task'[User].acks >= 1
  <2>1. \A d \in Cores : Copies(InProgress(d, User))' <= 1
    BY <1>6, <1>8
  <2>2. \A d \in Cores : d \notin Asked' => event_in_progress'[d] = TRUE
    BY <1>3, <1>6, <1>9, <1>13
  <2>3. event_in_progress'[Origin] = TRUE
    BY <1>2, <1>3, <1>9, <1>15 DEF Starting
  <2>4. task'[User].acks = Cardinality(Asked)' + Copies(Ack(User))' /\ task'[User].acks >= 1
    BY <1>1, <1>4, <1>6, <1>8, <1>14
  <2> QED BY <2>1, <2>2, <2>3, <2>4
<1>17. Starting'
  BY <1>1, <1>2, <1>6, <1>8, <1>11, <1>12, <1>15, <1>16 DEF Starting
<1> QED BY <1>11, <1>17 DEF Inv

\* A core has answered; with the last answer the tasks of the loop begin.
LEMMA AckInv == Inv /\ HandleAck => Inv'
<1> SUFFICES ASSUME Inv, HandleAck PROVE Inv'
  OBVIOUS
<1>1. PICK m \in Arriving :
        /\ m.type = "ack"
        /\ net' = Receive(m, {})
        /\ task' = IF task[m.task].acks = 1 THEN Enrolled([task EXCEPT ![m.task].acks = 0], m.task)
                   ELSE [task EXCEPT ![m.task].acks = @ - 1]
        /\ fatal' = (/\ task[m.task].acks = 1
                     /\ ~event_in_progress[task[m.task].core] \/ count[task[m.task].core] <= 0)
        /\ UNCHANGED <<count, event_in_progress, cv, temporary_waking_cv, cores_out,
                       temporary_waking_cores_out, reenroll_count, completion_msgs,
                       recurring>>
  BY DEF HandleAck
<1>2. Starting /\ m \in StartMsgs /\ Copies(m) > 0
  BY <1>1, Arrivals, StageMsgs, Types
<1>3. m = Ack(User) /\ m.task = User
  BY <1>1, <1>2, StageMsgs
<1>4. /\ Base /\ Shape /\ FiniteBag(net) /\ Quiet /\ task \in [Tasks -> TaskType]
      /\ User \in Tasks /\ task[User] \in TaskType /\ Origin \in Cores
      /\ Origin = task[User].core /\ NumCores \in Nat \ {0}
      /\ \A x : Copies(x) \in Nat
      /\ \A x : Copies(x) > 0 => x \in ByMsgs \union StartMsgs
      /\ \A d : Copies(Wake(d)) = 0
      /\ Asked \subseteq Cores /\ IsFiniteSet(Asked) /\ Cardinality(Asked) \in Nat
  BY <1>2, StartingFacts
<1>5. /\ task[User].pc = "all" /\ task[User].acks >= 1
      /\ Copies(Increment(User)) = 0 /\ Copies(Reply(User, 1)) = 0
      /\ cores_out = 1
      /\ \A d \in Cores : Copies(InProgress(d, User)) <= 1
      /\ \A d \in Cores : d \notin Asked => event_in_progress[d] = TRUE
      /\ task[User].acks = Cardinality(Asked) + Copies(Ack(User))
  BY <1>2, <1>3 DEF Starting
<1>6. task[User].acks \in AckCounts /\ task[User].acks \in Nat
  BY <1>4 DEF TaskType, AckCounts
<1>7. /\ FiniteBag(net)'
      /\ \A x : Copies(x)' \in Nat /\ (x \in BagToSet(net)' <=> Copies(x)' > 0)
      /\ \A x : x # Ack(User) => Copies(x)' = Copies(x)
      /\ Copies(Ack(User))' = Copies(Ack(User)) - 1
  BY <1>1, <1>3, <1>4, ReceiveOne
<1>8. /\ \A d : Copies(Wake(d))' = Copies(Wake(d))
      /\ \A d : Copies(InProgress(d, User))' = Copies(InProgress(d, User))
      /\ Copies(Increment(User))' = 0 /\ Copies(Reply(User, 1))' = 0
  BY <1>5, <1>7, StartNames, Types
<1>9. BagToSet(net)' \subseteq ByMsgs \union StartMsgs
  BY <1>4, <1>7, StartNames
<1>10. Asked' = Asked /\ Again' = Again
  BY <1>1, <1>8 DEF Asked, Again
<1>11. \A t \in Mains : task[t].pc = "idle"
  BY <1>2 DEF Starting
<1>12. CASE task[User].acks # 1
  <2>1. /\ task' = [task EXCEPT ![User].acks = @ - 1] /\ fatal' = FALSE
    BY <1>1, <1>3, <1>12
  <2>2. /\ task'[User] = [task[User] EXCEPT !.acks = @ - 1]
        /\ \A t \in Tasks : t # User => task'[t] = task[t]
    BY <1>4, <2>1
  <2>3. task[User].acks - 1 \in AckCounts /\ task[User].acks - 1 >= 1
    BY <1>4, <1>5, <1>6, <1>12 DEF AckCounts
  <2>4. /\ task'[User] \in TaskType /\ task'[User].pc = "all" /\ task'[User].core = Origin
        /\ task'[User].acks = task[User].acks - 1
    BY <1>4, <1>5, <2>2, <2>3 DEF TaskType
  <2>5. task' \in [Tasks -> TaskType]
    BY <1>4, <2>1, <2>2, <2>4
  <2>6. \A t \in Workers \union {Bystander} : task'[t] = task[t]
    BY <2>2, Names
  <2>7. Shape'
    BY <1>1, <1>4, <1>7, <2>1, <2>5 DEF Shape
  <2>8. Base' /\ Quiet'
    BY <1>1, <1>4, <1>8, <1>11, <2>4, <2>6, <2>7, StartBase DEF Workers
  <2>9. task'[User].acks = Cardinality(Asked)' + Copies(Ack(User))' /\ task'[User].acks >= 1
    BY <1>4, <1>5, <1>6, <1>7, <1>10, <2>3, <2>4
  <2>10. Origin' = Origin
    BY <2>4 DEF Origin
  <2>11. \A t \in Mains : task'[t].pc = "idle"
    BY <1>11, <2>6 DEF Workers
  <2>12. Starting'
    BY <1>1, <1>2, <1>5, <1>8, <1>9, <1>10, <2>4, <2>8, <2>9, <2>10, <2>11 DEF Starting
  <2> QED BY <2>8, <2>12 DEF Inv
<1>13. CASE task[User].acks = 1
  <2> DEFINE tk == [task EXCEPT ![User].acks = 0]
  <2>1. tk \in [Tasks -> TaskType] /\ tk[User].core = Origin
        /\ \A t \in Tasks : t # User => tk[t] = task[t]
    <3>1. 0 \in AckCounts
      BY <1>4 DEF AckCounts
    <3>2. tk[User] = [task[User] EXCEPT !.acks = 0] /\ \A t \in Tasks : t # User => tk[t] = task[t]
      BY <1>4
    <3>3. tk[User] \in TaskType /\ tk[User].core = Origin
      BY <1>4, <3>1, <3>2 DEF TaskType
    <3> QED BY <1>4, <3>2, <3>3
  <2> HIDE DEF tk
  <2>2. task' = Enrolled(tk, User)
    BY <1>1, <1>3, <1>13 DEF tk
  <2>3. /\ task' \in [Tasks -> TaskType]
        /\ task'[User].pc = "started" /\ task'[User].core = tk[User].core
        /\ \A t \in Mains : /\ task'[t].pc = "run" /\ task'[t].core = tk[t].core
                            /\ task'[t].phase = tk[t].phase
        /\ \A t \in Kids \union {Bystander} : task'[t] = tk[t]
    BY <2>1, <2>2, EnrolledUser
  <2>4. /\ \A t \in Mains : task'[t].core = task[t].core /\ task'[t].phase = task[t].phase
        /\ \A t \in Kids \union {Bystander} : task'[t] = task[t]
        /\ task'[User].core = Origin
    BY <2>1, <2>3, Names DEF Workers
  <2>5. Copies(Ack(User)) = 1 /\ Cardinality(Asked) = 0
    BY <1>2, <1>3, <1>4, <1>5, <1>13
  <2>6. Asked = {}
    BY <1>4, <2>5, FS_EmptySet
  <2>7. \A d \in Cores : event_in_progress[d] = TRUE
    BY <1>5, <2>6
  <2>8. count[Origin] = NumCores
    BY <1>2, <1>4 DEF Starting
  <2>9. fatal' = FALSE
    BY <1>1, <1>3, <1>4, <2>7, <2>8
  <2>10. Shape'
    BY <1>1, <1>4, <1>7, <2>3, <2>9 DEF Shape
  <2>11. Base' /\ Quiet'
    BY <1>1, <1>4, <1>8, <1>11, <2>3, <2>4, <2>10, StartBase
  <2>12. \A x : Copies(x)' > 0 => x \in ByMsgs
    <3>1. \A d \in Cores : Copies(InProgress(d, User))' = 0
      BY <1>4, <1>8, <2>6 DEF Asked
    <3>2. Copies(Ack(User))' = 0
      BY <1>7, <2>5
    <3> QED BY <1>7, <1>8, <1>9, <3>1, <3>2 DEF StartMsgs
  <2>13. BagToSet(net)' \subseteq ByMsgs
    BY <1>7, <2>12
  <2>14. Origin' = Origin
    BY <2>4 DEF Origin
  <2>15. Under'
    <3>1. \A t \in Mains : task'[t].pc = "run"
      BY <2>3
    <3>2. \A d \in Cores : event_in_progress'[d] = TRUE
      BY <1>1, <2>7
    <3>3. reenroll_count' = Again' /\ temporary_waking_cores_out' = 0
      BY <1>1, <1>2, <1>10 DEF Starting
    <3> QED BY <2>3, <2>13, <3>1, <3>2, <3>3 DEF Under
  <2>16. Wakes'
    BY <1>4, <1>8, <2>3, Names DEF Wakes
  <2>17. \A t \in Mains : Active(t)' /\ task'[t].pc # "call"
    BY <2>3, Names DEF Active
  <2>18. \A d \in Cores : count'[d] = IF d = Origin' THEN NumCores ELSE 0
    BY <1>1, <1>2, <2>14 DEF Starting
  <2>19. cores_out' = 1
    BY <1>1, <1>5
  <2>20. Fresh'
    BY <2>11, <2>13, <2>15, <2>16, <2>17, <2>18, <2>19 DEF Fresh
  <2> QED BY <2>20, FreshInv
<1> QED BY <1>12, <1>13

(***************************************************************************)
(* Cores are reset and tasks woken.                                        *)
(***************************************************************************)

\* A core is reset, its waiters set aside.
LEMMA ResetInv == Inv /\ HandleReset => Inv'
<1> SUFFICES ASSUME Inv, HandleReset PROVE Inv'
  OBVIOUS
<1>1. PICK m \in Arriving :
        /\ m.type = "reset"
        /\ fatal' = (count[m.core] # 0)
        /\ temporary_waking_cv' = [temporary_waking_cv EXCEPT ![m.core] = cv[m.core]]
        /\ cv' = [cv EXCEPT ![m.core] = {}]
        /\ count' = [count EXCEPT ![m.core] = 0]
        /\ event_in_progress' = [event_in_progress EXCEPT ![m.core] = (m.re # 0)]
        /\ cores_out' = IF m.core = master_core THEN 0 ELSE cores_out
        /\ reenroll_count' = IF m.core = master_core THEN 0 ELSE reenroll_count
        /\ net' = Receive(m, {ResetDone(m.re)})
        /\ UNCHANGED <<temporary_waking_cores_out, completion_msgs, task, recurring>>
  BY DEF HandleReset
<1> DEFINE c == m.core
<1>2. Resetting /\ m \in ResetMsgs /\ Copies(m) > 0
  BY <1>1, Arrivals, StageMsgs, Types
<1>3. c \in Cores /\ m = Reset(c, Again) /\ m.re = Again
  BY <1>1, <1>2, StageMsgs, Types
<1>4. /\ Base /\ Shape /\ FiniteBag(net) /\ count \in [Cores -> Nat] /\ recurring \in BOOLEAN
      /\ cv \in [Cores -> SUBSET Tasks] /\ temporary_waking_cv \in [Cores -> SUBSET Tasks]
      /\ event_in_progress \in [Cores -> BOOLEAN] /\ NumCores \in Nat \ {0}
  BY Names DEF Inv, Base, Shape
<1> HIDE DEF c
<1>5. /\ count' = [count EXCEPT ![c] = 0] /\ cv' = [cv EXCEPT ![c] = {}]
      /\ temporary_waking_cv' = [temporary_waking_cv EXCEPT ![c] = cv[c]]
      /\ event_in_progress' = [event_in_progress EXCEPT ![c] = (Again # 0)]
      /\ fatal' = (count[c] # 0) /\ net' = Receive(m, {ResetDone(Again)})
      /\ cores_out' = 0
      /\ reenroll_count' = IF c = master_core THEN 0 ELSE reenroll_count
  BY <1>1, <1>2, <1>3 DEF c, Resetting
<1>6. /\ count' \in [Cores -> Nat] /\ \A d \in Cores : count'[d] = 0
      /\ fatal' = FALSE /\ (Again # 0) = recurring
      /\ cv' \in [Cores -> SUBSET Tasks] /\ temporary_waking_cv' \in [Cores -> SUBSET Tasks]
      /\ event_in_progress' \in [Cores -> BOOLEAN]
      /\ \A d \in Cores : d # c => /\ cv'[d] = cv[d] /\ temporary_waking_cv'[d] = temporary_waking_cv[d]
                                   /\ event_in_progress'[d] = event_in_progress[d]
      /\ cv'[c] = {} /\ temporary_waking_cv'[c] = cv[c] /\ event_in_progress'[c] = recurring
  <2>1. \A d \in Cores : count[d] = 0
    BY <1>2 DEF Resetting
  <2>2. (Again # 0) = recurring
    BY <1>4 DEF Again
  <2> QED BY <1>3, <1>4, <1>5, <2>1, <2>2
<1>24. PICK re : re = Again
  OBVIOUS
<1>7. /\ FiniteBag(net)'
      /\ \A x : Copies(x)' \in Nat /\ (x \in BagToSet(net)' <=> Copies(x)' > 0)
      /\ \A x : x # m /\ x # ResetDone(re) => Copies(x)' = Copies(x)
      /\ Copies(m)' = Copies(m) - 1
      /\ Copies(ResetDone(re))' = Copies(ResetDone(re)) + 1
  <2>1. ResetDone(re) # m /\ net' = Receive(m, {ResetDone(re)})
    BY <1>1, <1>5, <1>24, Types
  <2> QED BY <1>4, <2>1, AnswerOne
<1>8. \A x : Copies(x) \in Nat /\ (x \in BagToSet(net) <=> Copies(x) > 0)
  BY <1>4, NetMembers
<1>9. Again' = Again /\ Origin' = Origin
  BY <1>1 DEF Again, Origin
<1>10. Copies(m) = 1 /\ c \in ToReset
  BY <1>2, <1>3, <1>8 DEF Resetting, ToReset
<1>11. \A d \in Cores : Copies(Reset(d, Again))' = IF d = c THEN 0 ELSE Copies(Reset(d, Again))
  <2>1. \A d \in Cores : d # c => Reset(d, re) # m /\ Reset(d, re) # ResetDone(re)
    BY <1>3, <1>24, Types
  <2>2. \A d \in Cores : Copies(Reset(d, re))' = IF d = c THEN 0 ELSE Copies(Reset(d, re))
    BY <1>3, <1>7, <1>10, <1>24, <2>1
  <2> QED BY <1>9, <1>24, <2>2
<1>12. \A d : Copies(Wake(d))' = Copies(Wake(d))
  <2>1. \A d : Wake(d) # m /\ Wake(d) # ResetDone(re)
    BY <1>1, Types
  <2> QED BY <1>7, <2>1
<1>13. ToReset' = ToReset \ {c}
  BY <1>9, <1>11 DEF ToReset
<1>14. /\ IsFiniteSet(ToReset) /\ Cardinality(ToReset) \in Nat
       /\ Cardinality(ToReset \ {c}) = Cardinality(ToReset) - 1
  <2>1. IsFiniteSet(ToReset)
    BY Finite, FS_Subset DEF ToReset
  <2> QED BY <1>10, <2>1, FS_CardinalityType, FS_RemoveElement
<1>15. Shape'
  <2>1. reenroll_count' \in {0, NumCores} /\ cores_out' \in Nat
    BY <1>4, <1>5 DEF Shape
  <2> QED BY <1>1, <1>4, <1>6, <1>7, <2>1 DEF Shape
<1>16. Base'
  <2>1. Programs'
    BY <1>1, <1>4 DEF Base, Programs
  <2>2. Places'
    BY <1>1, <1>4, <1>6, <1>9 DEF Base, Places
  <2>3. Queues'
    BY <1>1, <1>4 DEF Base, Queues
  <2>4. \A ph \in {0, 1} : Phased(ph) => Phased(ph)'
    BY <1>1, <1>12 DEF Phased
  <2> QED BY <1>4, <1>15, <2>1, <2>2, <2>3, <2>4 DEF Base
<1>17. ResetMsgs' = ResetMsgs
  BY <1>9 DEF ResetMsgs
<1>18. BagToSet(net)' \subseteq ByMsgs \union ResetMsgs
  <2>1. ResetDone(re) \in ResetMsgs /\ m \in ResetMsgs
    BY <1>2, <1>24 DEF ResetMsgs
  <2>2. BagToSet(net) \subseteq ByMsgs \union ResetMsgs
    BY <1>2 DEF Resetting
  <2> QED BY <1>7, <1>8, <2>1, <2>2
<1>19. temporary_waking_cores_out' = (Cardinality(ToReset) - 1) + (Copies(ResetDone(Again)) + 1)
  BY <1>1, <1>2, <1>8, <1>14 DEF Resetting
<1>20. temporary_waking_cores_out' = Cardinality(ToReset)' + Copies(ResetDone(Again))'
  <2>1. Copies(ResetDone(Again))' = Copies(ResetDone(Again)) + 1
    BY <1>7, <1>9, <1>24
  <2> QED BY <1>13, <1>14, <1>19, <2>1
<1>21. ASSUME NEW d \in Cores
       PROVE  /\ Copies(Reset(d, Again))' <= 1
              /\ d \in ToReset' => Main(d) \in cv'[d]
              /\ d \notin ToReset' => Main(d) \in temporary_waking_cv'[d] /\ event_in_progress'[d] = recurring
  BY <1>2, <1>6, <1>9, <1>10, <1>11, <1>13 DEF Resetting
<1>22. Quiet'
  BY <1>1, <1>2 DEF Resetting, Quiet
<1>23. Resetting'
  <2>1. \A d \in Cores : Copies(Reset(d, Again))' <= 1
    BY <1>21
  <2>2. \A d \in Cores : d \in ToReset' => Main(d) \in cv'[d]
    BY <1>21
  <2>3. \A d \in Cores :
           d \notin ToReset' => Main(d) \in temporary_waking_cv'[d] /\ event_in_progress'[d] = recurring'
    BY <1>1, <1>21
  <2>4. reenroll_count' \in {0, Again'}
    BY <1>2, <1>5, <1>9 DEF Resetting
  <2>5. master_core \notin ToReset' => reenroll_count' = 0
    BY <1>2, <1>5, <1>13, Names DEF Resetting
  <2>6. temporary_waking_cores_out' >= 1
    BY <1>1, <1>2 DEF Resetting
  <2>7. task'[User].pc = "started" /\ \A t \in Mains : task'[t].pc = "wait"
    BY <1>1, <1>2 DEF Resetting
  <2> QED BY <1>5, <1>6, <1>9, <1>17, <1>18, <1>20, <1>22, <2>1, <2>2, <2>3, <2>4, <2>5, <2>6, <2>7
           DEF Resetting
<1> QED BY <1>16, <1>23 DEF Inv

\* All cores are reset: what recurs is enrolled again, and all are woken.
LEMMA ResetDoneInv == Inv /\ HandleResetDone => Inv'
<1> SUFFICES ASSUME Inv, HandleResetDone PROVE Inv'
  OBVIOUS
<1>1. PICK m \in Arriving :
        /\ m.type = "reset_done"
        /\ temporary_waking_cores_out' = temporary_waking_cores_out - 1
        /\ \/ /\ temporary_waking_cores_out' = 0
              /\ net' = Receive(m, {Wake(c) : c \in Cores})
              /\ \/ /\ m.re # 0
                    /\ count' = [count EXCEPT ![master_core] = m.re]
                    /\ cores_out' = 1
                    /\ reenroll_count' = m.re
                 \/ /\ m.re = 0
                    /\ UNCHANGED <<count, cores_out, reenroll_count>>
           \/ /\ temporary_waking_cores_out' # 0
              /\ net' = Receive(m, {})
              /\ UNCHANGED <<count, cores_out, reenroll_count>>
        /\ UNCHANGED <<event_in_progress, cv, temporary_waking_cv, completion_msgs,
                       task, recurring, fatal>>
  BY DEF HandleResetDone
<1>2. Resetting /\ m \in ResetMsgs /\ Copies(m) > 0
  BY <1>1, Arrivals, StageMsgs, Types
<1>3. PICK re : re = Again
  OBVIOUS
<1>4. m = ResetDone(re) /\ m.re = re
  BY <1>1, <1>2, <1>3, StageMsgs, Types
<1>5. /\ Base /\ Shape /\ FiniteBag(net) /\ count \in [Cores -> Nat] /\ recurring \in BOOLEAN
      /\ NumCores \in Nat \ {0} /\ temporary_waking_cores_out \in 0 .. NumCores
      /\ temporary_waking_cores_out' \in 0 .. NumCores
      /\ master_core \in Cores
  <2>1. /\ Base /\ Shape /\ FiniteBag(net) /\ count \in [Cores -> Nat] /\ recurring \in BOOLEAN
        /\ NumCores \in Nat \ {0} /\ temporary_waking_cores_out \in 0 .. NumCores
        /\ master_core \in Cores
    BY Names DEF Inv, Base, Shape
  <2>2. temporary_waking_cores_out >= 1
    BY <1>2 DEF Resetting
  <2> QED BY <1>1, <2>1, <2>2
<1>6. \A x : Copies(x) \in Nat /\ (x \in BagToSet(net) <=> Copies(x) > 0)
  BY <1>5, NetMembers
<1>7. Again' = Again /\ Origin' = Origin /\ ResetMsgs' = ResetMsgs /\ Quiet'
  BY <1>1, <1>2 DEF Again, Origin, ResetMsgs, Resetting, Quiet
<1>8. IsFiniteSet(ToReset) /\ Cardinality(ToReset) \in Nat
  BY Finite, FS_Subset, FS_CardinalityType DEF ToReset
<1>9. temporary_waking_cores_out = Cardinality(ToReset) + Copies(m)
  BY <1>2, <1>3, <1>4 DEF Resetting
<1>10. Programs' /\ Places' /\ Queues'
  BY <1>1, <1>5, <1>7 DEF Base, Programs, Places, Queues
<1>11. \A d : Copies(Wake(d)) = 0
  <2>1. \A d : Wake(d) \notin ByMsgs /\ Wake(d) \notin ResetMsgs
    BY StageMsgs, Types
  <2> QED BY <1>2, <1>6, <2>1 DEF Resetting
<1>12. CASE temporary_waking_cores_out' # 0
  <2>1. net' = Receive(m, {}) /\ UNCHANGED <<count, cores_out, reenroll_count>>
    BY <1>1, <1>12
  <2>2. /\ FiniteBag(net)'
        /\ \A x : Copies(x)' \in Nat /\ (x \in BagToSet(net)' <=> Copies(x)' > 0)
        /\ \A x : x # m => Copies(x)' = Copies(x)
        /\ Copies(m)' = Copies(m) - 1
    BY <1>5, <2>1, ReceiveOne
  <2>3. Shape'
    BY <1>1, <1>5, <2>1, <2>2 DEF Shape
  <2>4. \A d : Wake(d) # m /\ Reset(d, re) # m
    BY <1>1, Types
  <2>5. \A ph \in {0, 1} : Phased(ph) => Phased(ph)'
    BY <1>1, <2>2, <2>4 DEF Phased
  <2>6. Base'
    BY <1>5, <1>10, <2>3, <2>5 DEF Base
  <2>7. \A d \in Cores : Copies(Reset(d, Again))' = Copies(Reset(d, Again))
    <3>1. \A d \in Cores : Copies(Reset(d, re))' = Copies(Reset(d, re))
      BY <2>2, <2>4
    <3> QED BY <1>3, <1>7, <3>1
  <2>8. ToReset' = ToReset
    BY <2>7 DEF ToReset
  <2>9. temporary_waking_cores_out' = Cardinality(ToReset)' + Copies(ResetDone(Again))'
        /\ temporary_waking_cores_out' >= 1
    <3>1. Copies(ResetDone(Again))' = Copies(m) - 1
      BY <1>3, <1>4, <1>7, <2>2
    <3> QED BY <1>1, <1>5, <1>6, <1>8, <1>9, <1>12, <2>8, <3>1
  <2>10. BagToSet(net)' \subseteq ByMsgs \union ResetMsgs
    BY <1>2, <1>6, <2>2 DEF Resetting
  <2>11. Resetting'
    <3>1. \A d \in Cores : /\ Copies(Reset(d, Again))' <= 1
                           /\ d \in ToReset' => Main(d) \in cv'[d]
                           /\ d \notin ToReset' => Main(d) \in temporary_waking_cv'[d]
                                                   /\ event_in_progress'[d] = recurring'
      BY <1>1, <1>2, <2>7, <2>8 DEF Resetting
    <3>2. reenroll_count' \in {0, Again'} /\ (master_core \notin ToReset' => reenroll_count' = 0)
      BY <1>2, <1>7, <2>1, <2>8 DEF Resetting
    <3>3. task'[User].pc = "started" /\ (\A t \in Mains : task'[t].pc = "wait")
          /\ (\A d \in Cores : count'[d] = 0) /\ cores_out' = 0
      BY <1>1, <1>2, <2>1 DEF Resetting
    <3> QED BY <1>7, <2>9, <2>10, <3>1, <3>2, <3>3 DEF Resetting
  <2> QED BY <2>6, <2>11 DEF Inv
<1>13. CASE temporary_waking_cores_out' = 0
  <2> DEFINE ms == {Wake(d) : d \in Cores}
  <2>1. Copies(m) = 1 /\ ToReset = {}
    <3>1. Cardinality(ToReset) = 0 /\ Copies(m) = 1
      BY <1>1, <1>2, <1>5, <1>6, <1>8, <1>9, <1>13
    <3> QED BY <1>8, <3>1, FS_EmptySet
  <2>2. IsFiniteSet(ms) /\ m \notin ms
    <3>1. IsFiniteSet(ms)
      BY SentSets
    <3> QED BY <1>1, <3>1, Types
  <2>3. net' = Receive(m, ms)
    BY <1>1, <1>13
  <2>4. /\ FiniteBag(net)'
        /\ \A x : Copies(x)' \in Nat /\ (x \in BagToSet(net)' <=> Copies(x)' > 0)
        /\ \A x : x # m /\ x \notin ms => Copies(x)' = Copies(x)
        /\ Copies(m)' = Copies(m) - 1
        /\ \A x \in ms : Copies(x)' = Copies(x) + 1
    <3> HIDE DEF ms
    <3> QED BY <1>5, <2>2, <2>3, AnswerNew
  <2>5. \A d \in Cores : Copies(Wake(d))' = 1
    BY <1>11, <2>4
  <2>6. BagToSet(net)' \subseteq ByMsgs \union {Wake(d) : d \in Cores}
    <3>1. \A x : Copies(x) > 0 => x \in ByMsgs \/ x = m
      <4>1. \A x \in ResetMsgs : Copies(x) > 0 => x = m
        <5>1. \A d \in Cores : Copies(Reset(d, Again)) = 0
          BY <1>6, <2>1 DEF ToReset
        <5> QED BY <1>3, <1>4, <5>1 DEF ResetMsgs
      <4> QED BY <1>2, <1>6, <4>1 DEF Resetting
    <3> QED BY <1>6, <2>1, <2>4, <3>1
  <2> HIDE DEF ms
  <2>7. \E ph \in {0, 1} : Phased(ph)'
    <3>1. PICK ph \in {0, 1} : Phased(ph)
      BY <1>5 DEF Base
    <3>2. \A d \in Cores : task'[Main(d)].phase = ph
      BY <1>1, <1>11, <3>1 DEF Phased
    <3>3. \A k \in Kids : task'[k].pc = "idle"
      BY <1>7 DEF Quiet
    <3>4. 1 - ph \in {0, 1} /\ 1 - (1 - ph) = ph
      OBVIOUS
    <3>5. \A d \in Cores : task'[Main(d)].phase = IF Copies(Wake(d))' > 0 THEN 1 - (1 - ph) ELSE 1 - ph
      BY <2>5, <3>2, <3>4
    <3>6. Phased(1 - ph)'
      BY <3>3, <3>5 DEF Phased
    <3> QED BY <3>4, <3>6
  <2>8. \A d \in Cores : Main(d) \in temporary_waking_cv'[d] /\ event_in_progress'[d] = recurring
    BY <1>1, <1>2, <2>1 DEF Resetting
  <2>9. /\ task'[User].pc = "started" /\ \A t \in Mains : task'[t].pc = "wait"
        /\ reenroll_count = 0 /\ cores_out = 0 /\ \A d \in Cores : count[d] = 0
    BY <1>1, <1>2, <2>1 DEF Resetting
  <2>10. CASE recurring
    <3>1. re = NumCores /\ Again = NumCores
      BY <1>3, <2>10 DEF Again
    <3>2. /\ count' = [count EXCEPT ![master_core] = NumCores]
          /\ cores_out' = 1 /\ reenroll_count' = NumCores
      BY <1>1, <1>4, <1>5, <1>13, <3>1
    <3>3. Shape'
      BY <1>1, <1>5, <2>4, <3>2 DEF Shape
    <3>4. Base'
      BY <1>10, <2>7, <3>3 DEF Base
    <3>5. Origin = master_core
      BY <1>5, <2>10 DEF Base, Places
    <3>6. \A d \in Cores : count'[d] = IF d = Origin' THEN NumCores ELSE 0
      BY <1>5, <1>7, <2>9, <3>2, <3>5
    <3>7. Under'
      <4>1. BagToSet(net)' \subseteq ByMsgs \union WorkMsgs
        BY <2>6 DEF WorkMsgs
      <4> QED BY <1>7, <1>13, <2>8, <2>9, <2>10, <3>1, <3>2, <4>1 DEF Under
    <3>8. Wakes'
      <4>1. \A d \in Cores : task'[Main(d)].pc = "wait"
        BY <2>9, Names
      <4>2. recurring'
        BY <1>1, <2>10
      <4>3. \A d \in Cores : Copies(Wake(d))' <= 1 /\ Copies(Wake(d))' # 0
        BY <2>5
      <4> QED BY <2>8, <4>1, <4>2, <4>3 DEF Wakes
    <3>9. \A t \in Mains : Active(t)' /\ task'[t].pc # "call"
      <4>1. \A t \in Mains : t \notin Kids /\ t[2] \in Cores /\ t = Main(t[2])
        BY Names
      <4>2. \A d \in Cores : task'[Main(d)].core = d
        BY <1>10 DEF Places
      <4>3. \A t \in Mains : Copies(Wake(task[t].core))' > 0
        <5> TAKE t \in Mains
        <5>1. task'[t].core \in Cores /\ task'[t].core = task[t].core
          BY <1>1, <4>1, <4>2
        <5>2. Copies(Wake(task[t].core))' = 1
          BY <1>1, <2>5, <5>1
        <5> QED BY <5>2
      <4> QED BY <2>9, <4>1, <4>3 DEF Active
    <3>10. Fresh'
      BY <1>7, <2>6, <3>2, <3>4, <3>6, <3>7, <3>8, <3>9 DEF Fresh
    <3> QED BY <3>10, FreshInv
  <2>11. CASE ~recurring
    <3>1. re = 0
      BY <1>3, <2>11 DEF Again
    <3>2. UNCHANGED <<count, cores_out, reenroll_count>>
      BY <1>1, <1>4, <1>13, <3>1
    <3>3. Shape'
      BY <1>1, <1>5, <2>4, <3>2 DEF Shape
    <3>4. Base'
      BY <1>10, <2>7, <3>3 DEF Base
    <3>5. \A d \in Cores : task'[Main(d)].pc = "wait" /\ Copies(Wake(d))' = 1
                           /\ Main(d) \in temporary_waking_cv'[d]
      BY <2>5, <2>8, <2>9, Names
    <3>6. \A d \in Cores : count'[d] = 0 /\ event_in_progress'[d] = FALSE
      BY <1>5, <2>8, <2>9, <2>11, <3>2
    <3>7. Waking'
      BY <1>1, <1>7, <1>13, <2>6, <2>9, <2>11, <3>2, <3>5, <3>6 DEF Waking
    <3> QED BY <3>4, <3>7 DEF Inv
  <2> QED BY <2>10, <2>11
<1> QED BY <1>12, <1>13

\* Who is woken on core c returns from wait().
LEMMA WakeTasks ==
    ASSUME Base, NEW c \in Cores, Main(c) \in temporary_waking_cv[c],
           task' = [t \in Tasks |-> IF t \in temporary_waking_cv[c] THEN Returned(t) ELSE task[t]]
    PROVE  /\ task' \in [Tasks -> TaskType]
           /\ task'[Main(c)].pc = IF recurring THEN "run" ELSE "done"
           /\ task'[Main(c)].core = c /\ task'[Main(c)].phase = 1 - task[Main(c)].phase
           /\ task'[User] = task[User]
           /\ \A t \in Workers : t # Main(c) => task'[t] = task[t]
           /\ task'[Bystander].pc \in {"idle", "query", "wait"}
<1>1. /\ task \in [Tasks -> TaskType] /\ temporary_waking_cv[c] \subseteq {Main(c), Bystander}
      /\ task[Main(c)].core = c /\ recurring \in BOOLEAN
      /\ task[Bystander].pc \in {"idle", "query", "wait"}
  BY DEF Base, Shape, Places, Programs
<1>2. /\ Main(c) \in Mains /\ Main(c)[2] = c /\ Fuel[c] \in Nat /\ Main(c) \in Workers
      /\ Bystander \notin Mains /\ Main(c) # Bystander /\ User \in Tasks /\ Bystander \in Tasks
      /\ User # Main(c) /\ User # Bystander
      /\ \A t \in Workers : t \in Tasks /\ t # Bystander /\ t # User
  BY Names DEF Workers
<1> DEFINE r == task[Main(c)]
           p == IF recurring THEN "run" ELSE "done"
<1>3. r \in TaskType /\ p \in PCs /\ 1 - r.phase \in Phases
  BY <1>1, <1>2 DEF PCs, TaskType, Phases
<1> DEFINE h == 1 - r.phase
           f == Fuel[c]
<1>4. task'[Main(c)] = [r EXCEPT !.pc = p, !.fuel = f, !.phase = h]
  BY <1>2, <1>3 DEF Returned, TaskType
<1> HIDE DEF r, p, h, f
<1>5. /\ task'[Main(c)] \in TaskType /\ task'[Main(c)].pc = p /\ task'[Main(c)].core = r.core
      /\ task'[Main(c)].phase = h
  <2>1. f \in Nat /\ h \in Phases
    BY <1>2, <1>3 DEF f, h
  <2>2. r \in TaskType /\ p \in PCs
    BY <1>3
  <2>3. LET q == [r EXCEPT !.pc = p, !.fuel = f, !.phase = h]
        IN  q \in TaskType /\ q.pc = p /\ q.core = r.core /\ q.phase = h
    BY <2>1, <2>2 DEF TaskType
  <2> QED BY <1>4, <2>3
<1>6. task'[Bystander] \in TaskType /\ task'[Bystander].pc \in {"idle", "query", "wait"}
  <2>1. task'[Bystander] = [task[Bystander] EXCEPT !.pc = "idle"] \/ task'[Bystander] = task[Bystander]
    BY <1>2 DEF Returned
  <2>2. "idle" \in PCs /\ task[Bystander] \in TaskType
    BY <1>1, <1>2 DEF PCs
  <2> QED BY <1>1, <2>1, <2>2 DEF TaskType
<1>7. \A t \in Tasks : t # Main(c) /\ t # Bystander => task'[t] = task[t]
  BY <1>1
<1>8. task' \in [Tasks -> TaskType]
  BY <1>1, <1>2, <1>5, <1>6, <1>7
<1> QED BY <1>1, <1>2, <1>5, <1>6, <1>7, <1>8 DEF r, p, h

\* The loop returns to the user task.
LEMMA LoopInv == Inv /\ LoopReturns => Inv'
<1> SUFFICES ASSUME Inv, LoopReturns PROVE Inv'
  OBVIOUS
<1>1. /\ task[User].pc = "started" /\ \A t \in Mains : task[t].pc = "done"
      /\ task' = [t \in Tasks |->
            IF t \in Mains \union {User} THEN [task[t] EXCEPT !.pc = "idle"] ELSE task[t]]
      /\ UNCHANGED <<count, event_in_progress, cv, temporary_waking_cv, cores_out,
                     temporary_waking_cores_out, reenroll_count, completion_msgs, net,
                     recurring, fatal>>
  BY DEF LoopReturns
<1>2. \A c \in Cores : Main(c) \in Mains /\ task[Main(c)].pc = "done"
  BY <1>1, Names
<1>3. Waking
  <2>1. master_core \in Cores /\ task[Main(master_core)].pc = "done" /\ Main(master_core) \in Mains
    BY <1>2, Names
  <2> QED BY <1>1, <2>1 DEF Inv, Resting, Starting, AtWork, Under, Resetting
<1>4. Base /\ Shape /\ FiniteBag(net) /\ task \in [Tasks -> TaskType]
  BY DEF Inv, Base, Shape
<1>5. \A t \in Mains \union {User} :
         /\ task'[t] = [task[t] EXCEPT !.pc = "idle"] /\ task'[t] \in TaskType /\ task'[t].pc = "idle"
         /\ task'[t].core = task[t].core /\ task'[t].phase = task[t].phase
  <2> TAKE t \in Mains \union {User}
  <2>1. t \in Tasks /\ task[t] \in TaskType /\ "idle" \in PCs
    BY <1>4, Names DEF Workers, PCs
  <2>2. task'[t] = [task[t] EXCEPT !.pc = "idle"]
    BY <1>1, <2>1
  <2> QED BY <2>1, <2>2 DEF TaskType
<1>6. \A t \in Tasks : t \notin Mains \union {User} => task'[t] = task[t]
  BY <1>1
<1>7. task' \in [Tasks -> TaskType]
  BY <1>1, <1>4, <1>5, <1>6
<1>8. \A t \in Kids \union {Bystander} : task'[t] = task[t]
  BY <1>6, Names DEF Workers
<1>9. \A x : Copies(x)' = Copies(x)
  BY <1>1 DEF Copies
<1>10. Shape'
  BY <1>1, <1>4, <1>7 DEF Shape
<1>11. Origin' = Origin
  BY <1>5 DEF Origin
<1>12. Programs' /\ Places' /\ Queues' /\ Quiet'
  <2>1. Programs'
    BY <1>4, <1>5, <1>8 DEF Base, Programs
  <2>2. Places'
    <3>1. \A c \in Cores : task'[Main(c)].core = task[Main(c)].core
      BY <1>2, <1>5
    <3> QED BY <1>1, <1>4, <1>11, <3>1 DEF Base, Places
  <2>3. Queues' /\ Quiet'
    BY <1>1, <1>3, <1>4, <1>8 DEF Base, Queues, Waking, Quiet
  <2> QED BY <2>1, <2>2, <2>3
<1>13. \A ph \in {0, 1} : Phased(ph) => Phased(ph)'
  <2>1. \A c \in Cores : task'[Main(c)].phase = task[Main(c)].phase
    BY <1>2, <1>5
  <2>2. \A c \in Cores : Copies(Wake(c))' = Copies(Wake(c))
    BY <1>9
  <2>3. \A k \in Kids : task'[k] = task[k]
    BY <1>8
  <2> QED BY <2>1, <2>2, <2>3 DEF Phased
<1>14. Base'
  BY <1>4, <1>10, <1>12, <1>13 DEF Base
<1>15. BagToSet(net)' \subseteq ByMsgs
  <2>1. \A c \in Cores : Copies(Wake(c)) = 0
    BY <1>2, <1>3 DEF Waking
  <2>2. \A x : Copies(x) \in Nat /\ (x \in BagToSet(net) <=> Copies(x) > 0)
    BY <1>4, NetMembers
  <2>3. BagToSet(net) \subseteq ByMsgs
    BY <1>3, <2>1, <2>2 DEF Waking
  <2> QED BY <1>1, <2>3
<1>16. Resting'
  BY <1>1, <1>3, <1>5, <1>12, <1>15 DEF Waking, Resting
<1> QED BY <1>14, <1>16 DEF Inv

\* A wake-up arrives at core c.
LEMMA WakeBase ==
    ASSUME Base, NEW c \in Cores, NEW m \in Arriving, m = Wake(c), net' = Receive(m, {}),
           Copies(Wake(c)) = 1, Main(c) \in temporary_waking_cv[c],
           task' = [t \in Tasks |-> IF t \in temporary_waking_cv[c] THEN Returned(t) ELSE task[t]],
           temporary_waking_cv' = [temporary_waking_cv EXCEPT ![c] = {}],
           UNCHANGED <<count, event_in_progress, cv, cores_out, temporary_waking_cores_out,
                       reenroll_count, completion_msgs, recurring, fatal>>
    PROVE  /\ Base' /\ task'[User] = task[User]
           /\ \A x : Copies(x) \in Nat /\ (x \in BagToSet(net) <=> Copies(x) > 0)
           /\ \A x : Copies(x)' \in Nat /\ (x \in BagToSet(net)' <=> Copies(x)' > 0)
           /\ \A x : x # Wake(c) => Copies(x)' = Copies(x)
           /\ Copies(Wake(c))' = 0
           /\ \A d \in Cores : d # c => Copies(Wake(d))' = Copies(Wake(d))
           /\ task'[Main(c)].pc = IF recurring THEN "run" ELSE "done"
           /\ task'[Main(c)].core = c
           /\ \A t \in Workers : t # Main(c) => task'[t] = task[t]
           /\ \A d \in Cores : d # c => task'[Main(d)] = task[Main(d)]
           /\ \A k \in Kids : task'[k] = task[k]
           /\ \A d \in Cores : d # c => temporary_waking_cv'[d] = temporary_waking_cv[d]
<1>1. Base /\ Shape /\ FiniteBag(net) /\ Main(c) \in Mains /\ Mains \subseteq Workers /\ Kids \subseteq Workers
  BY Names DEF Base, Shape, Workers
<1>2. \A x : Copies(x) \in Nat /\ (x \in BagToSet(net) <=> Copies(x) > 0)
  BY <1>1, NetMembers
<1>3. /\ FiniteBag(net)' /\ Copies(m) > 0
      /\ \A x : Copies(x)' \in Nat /\ (x \in BagToSet(net)' <=> Copies(x)' > 0)
      /\ \A x : x # m => Copies(x)' = Copies(x)
      /\ Copies(m)' = Copies(m) - 1
  BY <1>1, ReceiveOne
<1>5. /\ task' \in [Tasks -> TaskType]
      /\ task'[Main(c)].pc = IF recurring THEN "run" ELSE "done"
      /\ task'[Main(c)].core = c /\ task'[Main(c)].phase = 1 - task[Main(c)].phase
      /\ task'[User] = task[User]
      /\ \A t \in Workers : t # Main(c) => task'[t] = task[t]
      /\ task'[Bystander].pc \in {"idle", "query", "wait"}
  BY <1>1, WakeTasks
<1>6. \A d \in Cores : d # c => Wake(d) # m /\ Main(d) # Main(c) /\ Main(d) \in Workers
  BY <1>1, Types, Names
<1>7. /\ Copies(Wake(c))' = 0 /\ \A d \in Cores : d # c => Copies(Wake(d))' = Copies(Wake(d))
      /\ \A d \in Cores : d # c => task'[Main(d)] = task[Main(d)]
      /\ \A k \in Kids : task'[k] = task[k]
  <2>1. \A k \in Kids : k # Main(c) /\ k \in Workers
    BY <1>1, Names
  <2> QED BY <1>3, <1>5, <1>6, <2>1
<1>8. temporary_waking_cv' \in [Cores -> SUBSET Tasks]
      /\ \A d \in Cores : temporary_waking_cv'[d] = IF d = c THEN {} ELSE temporary_waking_cv[d]
  BY <1>1 DEF Shape
<1>9. Shape'
  BY <1>1, <1>3, <1>5, <1>8 DEF Shape
<1>10. \A t \in Mains : t = Main(c) \/ task'[t] = task[t]
  BY <1>1, <1>5
<1>11. Programs' /\ Places' /\ Queues'
  <2>1. Programs'
    BY <1>1, <1>5, <1>7, <1>10 DEF Base, Programs
  <2>2. Origin' = Origin
    BY <1>5 DEF Origin
  <2>3. Places'
    BY <1>1, <1>5, <1>7, <1>8, <2>2 DEF Base, Places
  <2>4. Queues'
    BY <1>1, <1>7 DEF Base, Queues
  <2> QED BY <2>1, <2>3, <2>4
<1>12. ASSUME NEW ph \in {0, 1}, Phased(ph) PROVE Phased(ph)'
  <2>1. task[Main(c)].phase = 1 - ph
    BY <1>12 DEF Phased
  <2>2. task'[Main(c)].phase = ph
    BY <1>5, <2>1
  <2> QED BY <1>7, <1>12, <2>2 DEF Phased
<1>13. Base'
  BY <1>1, <1>9, <1>11, <1>12 DEF Base
<1> QED BY <1>2, <1>3, <1>5, <1>7, <1>8, <1>13

\* The loop does not recur: its task on core c is done.
LEMMA WakeWaking ==
    ASSUME Inv, Waking, NEW c \in Cores, NEW m \in Arriving, m = Wake(c), net' = Receive(m, {}),
           task' = [t \in Tasks |-> IF t \in temporary_waking_cv[c] THEN Returned(t) ELSE task[t]],
           temporary_waking_cv' = [temporary_waking_cv EXCEPT ![c] = {}],
           UNCHANGED <<count, event_in_progress, cv, cores_out, temporary_waking_cores_out,
                       reenroll_count, completion_msgs, recurring, fatal>>
    PROVE  Inv'
<1>1. Base /\ Copies(m) > 0
  BY Arrivals DEF Inv
<1>2. Copies(Wake(c)) = 1 /\ Main(c) \in temporary_waking_cv[c] /\ ~recurring
  BY <1>1 DEF Waking
<1>3. /\ Base' /\ task'[User] = task[User]
      /\ \A x : Copies(x) \in Nat /\ (x \in BagToSet(net) <=> Copies(x) > 0)
      /\ \A x : Copies(x)' \in Nat /\ (x \in BagToSet(net)' <=> Copies(x)' > 0)
      /\ \A x : x # Wake(c) => Copies(x)' = Copies(x)
      /\ Copies(Wake(c))' = 0
      /\ \A d \in Cores : d # c => Copies(Wake(d))' = Copies(Wake(d))
      /\ task'[Main(c)].pc = "done"
      /\ \A d \in Cores : d # c => task'[Main(d)] = task[Main(d)]
      /\ \A k \in Kids : task'[k] = task[k]
      /\ \A d \in Cores : d # c => temporary_waking_cv'[d] = temporary_waking_cv[d]
  BY <1>1, <1>2, WakeBase
<1>4. Quiet'
  BY <1>3 DEF Waking, Quiet
<1>5. BagToSet(net)' \subseteq ByMsgs \union {Wake(d) : d \in Cores}
  BY <1>3 DEF Waking
<1>6. \A d \in Cores :
          \/ task'[Main(d)].pc = "wait" /\ Copies(Wake(d))' = 1 /\ Main(d) \in temporary_waking_cv'[d]
          \/ task'[Main(d)].pc = "done" /\ Copies(Wake(d))' = 0
  BY <1>3 DEF Waking
<1>7. Waking'
  BY <1>3, <1>4, <1>5, <1>6 DEF Waking
<1> QED BY <1>3, <1>7 DEF Inv

(***************************************************************************)
(* Tasks at work.                                                          *)
(***************************************************************************)

\* What is known of the state.
LEMMA WorkFacts ==
    ASSUME Inv, AtWork
    PROVE  /\ Base /\ Shape /\ FiniteBag(net) /\ task \in [Tasks -> TaskType]
           /\ count \in [Cores -> Nat] /\ completion_msgs \in [Cores -> [Cores -> Queue]]
           /\ Mains \subseteq Workers /\ Kids \subseteq Workers /\ Workers \subseteq Tasks
           /\ User \in Tasks /\ User \notin Workers /\ Bystander \notin Workers
           /\ \A c \in Cores : Main(c) \in Mains
           /\ Origin \in Cores /\ master_core \in Cores
           /\ \A t \in Tasks : task[t] \in TaskType /\ task[t].core \in Cores /\ task[t].target \in Cores
           /\ \A x : Copies(x) \in Nat /\ (x \in BagToSet(net) <=> Copies(x) > 0)
           /\ \A x : Copies(x) > 0 => x \in ByMsgs \union WorkMsgs
           /\ IsFiniteSet(Callers) /\ IsFiniteSet(Busy)
           /\ Cardinality(Callers) \in Nat /\ Cardinality(Busy) \in Nat
           /\ \A c \in Cores : IsFiniteSet(Owing(c)) /\ Cardinality(Owing(c)) \in Nat
           /\ \A c \in Cores : MergedIn(completion_msgs, c) \in Nat /\ SentIn(net, c) \in Nat
<1>1. /\ Base /\ Shape /\ FiniteBag(net) /\ task \in [Tasks -> TaskType]
      /\ count \in [Cores -> Nat] /\ completion_msgs \in [Cores -> [Cores -> Queue]]
  BY DEF Inv, Base, Shape, Queue
<1>2. /\ Mains \subseteq Workers /\ Kids \subseteq Workers /\ Workers \subseteq Tasks
      /\ User \in Tasks /\ User \notin Workers /\ Bystander \notin Workers
      /\ master_core \in Cores /\ \A c \in Cores : Main(c) \in Mains
  BY Names DEF Workers
<1>3. \A t \in Tasks : task[t] \in TaskType /\ task[t].core \in Cores /\ task[t].target \in Cores
  BY <1>1, TaskFields
<1>4. Origin \in Cores
  BY <1>2, <1>3 DEF Origin
<1>5. \A x : Copies(x) \in Nat /\ (x \in BagToSet(net) <=> Copies(x) > 0)
  BY <1>1, NetMembers
<1>6. \A x : Copies(x) > 0 => x \in ByMsgs \union WorkMsgs
  BY <1>5 DEF AtWork, Under
<1>7. IsFiniteSet(Callers) /\ Cardinality(Callers) \in Nat
  BY Finite, FS_Subset, FS_CardinalityType DEF Callers
<1>8. IsFiniteSet(Busy) /\ Cardinality(Busy) \in Nat
  BY Finite, FS_Subset, FS_CardinalityType DEF Busy
<1>9. \A c \in Cores : IsFiniteSet(Owing(c)) /\ Cardinality(Owing(c)) \in Nat
  BY Finite, FS_Subset, FS_CardinalityType DEF Owing
<1>10. \A c \in Cores : MergedIn(completion_msgs, c) \in Nat /\ SentIn(net, c) \in Nat
  BY <1>1, MergedFacts, SentFacts
<1> QED BY <1>1, <1>2, <1>3, <1>4, <1>5, <1>6, <1>7, <1>8, <1>9, <1>10

\* A core to which a task is still to complete has work; so has one with a call.
LEMMA ActiveCounts ==
    ASSUME Inv, AtWork
    PROVE  /\ \A t \in Workers : Active(t) => Tgt(t) \in Cores /\ count[Tgt(t)] > 0
           /\ \A t \in Workers : task[t].pc \in {"run", "call", "new"} => Active(t)
           /\ \A t \in Workers : task[t].pc = "call" => count[task[t].core] > 0
           /\ \A t \in Callers : t \in Workers /\ task[t].pc = "call"
<1>1. \A t \in Tasks : task[t].core \in Cores /\ task[t].target \in Cores
  BY WorkFacts
<1>2. Workers \subseteq Tasks /\ Kids \subseteq Workers /\ Origin \in Cores
  BY WorkFacts
<1>3. ASSUME NEW t \in Workers, Active(t) PROVE Tgt(t) \in Cores /\ count[Tgt(t)] > 0
  <2>1. Tgt(t) \in Cores
    BY <1>1, <1>2 DEF Tgt
  <2>2. PICK c \in Cores : c = Tgt(t)
    BY <2>1
  <2>3. t \in Owing(c)
    BY <1>3, <2>2 DEF Owing
  <2>4. /\ IsFiniteSet(Owing(c)) /\ Cardinality(Owing(c)) \in Nat
        /\ MergedIn(completion_msgs, c) \in Nat /\ SentIn(net, c) \in Nat
    BY WorkFacts
  <2>5. Cardinality(Owing(c)) > 0
    BY <2>3, <2>4, FS_EmptySet
  <2>6. count[c] = Cardinality(Owing(c)) + MergedIn(completion_msgs, c) + SentIn(net, c)
    BY DEF AtWork, Counted
  <2> QED BY <2>2, <2>4, <2>5, <2>6
<1>4. \A t \in Workers : task[t].pc \in {"run", "call", "new"} => Active(t)
  BY DEF Active
<1>5. ASSUME NEW t \in Workers, task[t].pc = "call" PROVE count[task[t].core] > 0
  <2>1. /\ task[t].child \in Kids /\ task[task[t].child].pc = "new"
        /\ task[task[t].child].target = task[t].core
    BY <1>5 DEF AtWork, Calls
  <2>2. Active(task[t].child) /\ Tgt(task[t].child) = task[t].core
    BY <2>1 DEF Active, Tgt
  <2> QED BY <1>2, <1>3, <2>1, <2>2
<1>6. \A t \in Callers : t \in Workers /\ task[t].pc = "call"
  <2> TAKE t \in Callers
  <2>1. t \in Workers /\ Copies(Increment(t)) > 0
    BY DEF Callers
  <2>2. Copies(Increment(t)) # 0
    BY <2>1
  <2> QED BY <2>1, <2>2 DEF AtWork, Calls
<1> QED BY <1>3, <1>4, <1>5, <1>6

\* More cores have work than are still to be counted, while a task is active.
LEMMA Ahead ==
    ASSUME Inv, AtWork, NEW a \in Workers, Active(a)
    PROVE  Cardinality(Busy) >= Cardinality(Callers) + 1
<1>1. /\ IsFiniteSet(Callers) /\ IsFiniteSet(Busy)
      /\ Cardinality(Callers) \in Nat /\ Cardinality(Busy) \in Nat
      /\ count \in [Cores -> Nat]
      /\ Workers \subseteq Tasks /\ \A t \in Tasks : task[t].core \in Cores
  BY WorkFacts
<1>2. PICK b \in Busy : \A u \in Callers : task[u].core # b
  <2>1. CASE Callers = {}
    <3>1. Tgt(a) \in Cores /\ count[Tgt(a)] > 0
      BY ActiveCounts
    <3>2. Tgt(a) \in Busy
      BY <1>1, <3>1 DEF Busy
    <3> QED BY <2>1, <3>2
  <2>2. CASE Callers # {}
    <3>1. PICK t \in Callers : \A u \in Callers : task[u].core # Tgt(t)
      BY <2>2 DEF AtWork, Ordered
    <3>2. t \in Workers /\ Active(t)
      BY ActiveCounts
    <3>3. Tgt(t) \in Cores /\ count[Tgt(t)] > 0
      BY <3>2, ActiveCounts
    <3>4. Tgt(t) \in Busy
      BY <1>1, <3>3 DEF Busy
    <3> QED BY <3>1, <3>4
  <2> QED BY <2>1, <2>2
<1> DEFINE R == Busy \ {b}
           f == [t \in Callers |-> task[t].core]
<1>3. f \in [Callers -> R] /\ \A t, u \in Callers : f[t] = f[u] => t = u
  <2>1. \A t \in Callers : t \in Workers /\ task[t].pc = "call" /\ task[t].core \in Cores
                           /\ count[task[t].core] > 0
    BY <1>1, ActiveCounts
  <2>2. \A t \in Callers : task[t].core \in R
    BY <1>1, <1>2, <2>1 DEF Busy
  <2>3. \A t, u \in Callers : task[t].core = task[u].core => t = u
    BY <2>1 DEF AtWork, Apart
  <2> QED BY <2>2, <2>3
<1>4. IsFiniteSet(R) /\ Cardinality(R) = Cardinality(Busy) - 1
  BY <1>1, FS_RemoveElement
<1> HIDE DEF R, f
<1>5. f \in Injection(Callers, R)
  BY <1>3 DEF Injection, IsInjective
<1>6. Cardinality(Callers) <= Cardinality(R)
  BY <1>4, <1>5, FS_Injection
<1> QED BY <1>1, <1>4, <1>6

\* A step that leaves callers, what they name and their messages alone.
LEMMA CallsKeep ==
    ASSUME Inv, AtWork, Origin' = Origin,
           \A t \in Workers : task[t].pc = "call" => task'[t] = task[t],
           \A t \in Workers : task[t].pc # "call" => task'[t].pc # "call",
           \A k \in Kids : task[k].pc = "new" => task'[k] = task[k],
           \A t \in Workers : Copies(Increment(t))' = Copies(Increment(t)),
           \A t \in Workers, v \in Nat \ {0, 1} : Copies(Reply(t, v))' = Copies(Reply(t, v))
    PROVE  Calls' /\ Apart' /\ Ordered' /\ Callers' = Callers
<1>1. Calls /\ Apart /\ Ordered
  BY DEF AtWork
<1>2. Callers' = Callers
  BY DEF Callers
<1>3. ASSUME NEW t \in Workers, task'[t].pc = "call"
      PROVE  task[t].pc = "call" /\ task'[t] = task[t]
  BY <1>3
<1>4. ASSUME NEW t \in Workers, task'[t].pc = "call"
      PROVE  /\ task'[t].core # master_core /\ task'[t].child \in Kids
             /\ task'[task'[t].child].pc = "new" /\ task'[task'[t].child].target = task'[t].core
  <2>1. task[t].pc = "call" /\ task'[t] = task[t]
    BY <1>3, <1>4
  <2>2. /\ task[t].core # master_core /\ task[t].child \in Kids
        /\ task[task[t].child].pc = "new" /\ task[task[t].child].target = task[t].core
    BY <1>1, <2>1 DEF Calls
  <2>3. task'[task[t].child] = task[task[t].child]
    BY <2>2
  <2> QED BY <2>1, <2>2, <2>3
<1>5. Calls'
  <2>1. ASSUME NEW t \in Workers, task'[t].pc # "call" PROVE task[t].pc # "call"
    BY <2>1
  <2> QED BY <1>1, <1>4, <2>1 DEF Calls
<1>6. Apart'
  <2> SUFFICES ASSUME NEW t \in Workers, NEW u \in Workers,
                      task'[t].pc = "call", task'[u].pc = "call", t # u
               PROVE  task'[t].core # task'[u].core /\ task'[t].child # task'[u].child
    BY DEF Apart
  <2>1. task[t].pc = "call" /\ task'[t] = task[t] /\ task[u].pc = "call" /\ task'[u] = task[u]
    BY <1>3
  <2> QED BY <1>1, <2>1 DEF Apart
<1>7. \A t \in Callers : task'[t] = task[t] /\ Tgt(t)' = Tgt(t)
  <2> TAKE t \in Callers
  <2>1. t \in Workers /\ task'[t] = task[t]
    BY ActiveCounts
  <2> QED BY <2>1 DEF Tgt
<1>8. Ordered'
  <2> SUFFICES ASSUME NEW D \in SUBSET Callers, D # {}
               PROVE  \E t \in D : \A u \in D : task'[u].core # Tgt(t)'
    BY <1>2 DEF Ordered
  <2>1. PICK t \in D : \A u \in D : task[u].core # Tgt(t)
    BY <1>1 DEF Ordered
  <2> QED BY <1>7, <2>1
<1> QED BY <1>2, <1>5, <1>6, <1>8

\* Completions under way, after a step.
LEMMA SentKeep ==
    ASSUME NEW c, \A x \in Completes(c) : Copies(x)' = Copies(x)
    PROVE  SentIn(net', c) = SentIn(net, c)
<1>1. \A x \in Completes(c) : In(x, net') = In(x, net)
  BY DEF In, Copies
<1> QED BY <1>1, SentSame

\* Messages that complete are told from the others.
LEMMA CompleteTypes ==
    \A c : \A x \in Completes(c) : x.type = "complete" /\ x.core = c
BY Types DEF Completes

\* A task of the loop that recurs begins its next round.
LEMMA WakeWork ==
    ASSUME Inv, AtWork, NEW c \in Cores, NEW m \in Arriving, m = Wake(c), net' = Receive(m, {}),
           task' = [t \in Tasks |-> IF t \in temporary_waking_cv[c] THEN Returned(t) ELSE task[t]],
           temporary_waking_cv' = [temporary_waking_cv EXCEPT ![c] = {}],
           UNCHANGED <<count, event_in_progress, cv, cores_out, temporary_waking_cores_out,
                       reenroll_count, completion_msgs, recurring, fatal>>
    PROVE  Inv'
<1>1. Base /\ Copies(m) > 0
  BY Arrivals DEF Inv
<1>2. /\ Copies(Wake(c)) = 1 /\ Main(c) \in temporary_waking_cv[c] /\ recurring
      /\ task[Main(c)].pc = "wait"
  <2>1. Copies(Wake(c)) <= 1 /\ Copies(Wake(c)) \in Nat
    BY WorkFacts DEF AtWork, Wakes
  <2> QED BY <1>1, <2>1 DEF AtWork, Wakes
<1>3. /\ Base' /\ task'[User] = task[User]
      /\ \A x : Copies(x) \in Nat /\ (x \in BagToSet(net) <=> Copies(x) > 0)
      /\ \A x : Copies(x)' \in Nat /\ (x \in BagToSet(net)' <=> Copies(x)' > 0)
      /\ \A x : x # Wake(c) => Copies(x)' = Copies(x)
      /\ Copies(Wake(c))' = 0
      /\ \A d \in Cores : d # c => Copies(Wake(d))' = Copies(Wake(d))
      /\ task'[Main(c)].pc = "run"
      /\ task'[Main(c)].core = c
      /\ \A t \in Workers : t # Main(c) => task'[t] = task[t]
      /\ \A d \in Cores : d # c => task'[Main(d)] = task[Main(d)]
      /\ \A k \in Kids : task'[k] = task[k]
      /\ \A d \in Cores : d # c => temporary_waking_cv'[d] = temporary_waking_cv[d]
  BY <1>1, <1>2, WakeBase
<1>4. Main(c) \in Mains /\ Mains \subseteq Workers /\ Origin' = Origin
  BY <1>3, WorkFacts DEF Origin
<1>5. /\ \A t \in Workers : Copies(Increment(t))' = Copies(Increment(t))
      /\ \A t \in Workers, v \in Nat \ {0, 1} : Copies(Reply(t, v))' = Copies(Reply(t, v))
      /\ Copies(Enter)' = Copies(Enter)
      /\ \A d \in Cores : \A x \in Completes(d) : Copies(x)' = Copies(x)
  <2>1. \A t : Increment(t) # Wake(c)
    BY Types
  <2>2. \A t, v : Reply(t, v) # Wake(c)
    BY Types
  <2>3. Enter # Wake(c)
    BY Types
  <2>4. \A d : \A x \in Completes(d) : x # Wake(c)
    BY Types, CompleteTypes
  <2> QED BY <1>3, <2>1, <2>2, <2>3, <2>4
<1>6. Calls' /\ Apart' /\ Ordered' /\ Callers' = Callers
  <2>1. \A t \in Workers : task[t].pc = "call" => task'[t] = task[t]
    BY <1>2, <1>3
  <2>2. \A t \in Workers : task[t].pc # "call" => task'[t].pc # "call"
    BY <1>3
  <2>3. \A k \in Kids : task[k].pc = "new" => task'[k] = task[k]
    BY <1>3
  <2> QED BY <1>4, <1>5, <2>1, <2>2, <2>3, CallsKeep
<1>7. Under'
  <2>1. BagToSet(net)' \subseteq ByMsgs \union WorkMsgs
    BY <1>3 DEF AtWork, Under
  <2>2. \A t \in Mains : task'[t].pc \in {"run", "call", "wait"}
    BY <1>3, <1>4 DEF AtWork, Under
  <2>3. Again' = Again
    BY DEF Again
  <2> QED BY <1>3, <2>1, <2>2, <2>3 DEF AtWork, Under
<1>8. Wakes'
  BY <1>3 DEF AtWork, Wakes
<1>9. \A t \in Workers : (Active(t)' <=> Active(t)) /\ Tgt(t)' = Tgt(t)
  <2> TAKE t \in Workers
  <2>1. CASE t = Main(c)
    <3>1. t \notin Kids /\ task[t].core = c
      BY <1>1, <2>1, Names DEF Base, Places
    <3> QED BY <1>2, <1>3, <1>4, <2>1, <3>1 DEF Active, Tgt
  <2>2. CASE t \in Kids
    BY <1>3, <2>2 DEF Active, Tgt
  <2>3. CASE t # Main(c) /\ t \notin Kids
    <3>1. t \in Mains
      BY <2>3 DEF Workers
    <3>2. PICK d \in Cores : t = Main(d)
      BY <3>1, Names
    <3>3. d # c /\ task[t].core = d /\ task'[t] = task[t]
      BY <1>1, <1>3, <2>3, <3>2 DEF Base, Places
    <3> QED BY <1>3, <1>4, <2>3, <3>3 DEF Active, Tgt
  <2> QED BY <2>1, <2>2, <2>3
<1>10. Counted'
  <2>1. \A d \in Cores : Owing(d)' = Owing(d)
    BY <1>9 DEF Owing
  <2>2. \A d \in Cores : SentIn(net', d) = SentIn(net, d)
    BY <1>5, SentKeep
  <2> QED BY <2>1, <2>2 DEF AtWork, Counted
<1>11. Reported'
  BY <1>5, <1>6 DEF AtWork, Reported, Busy
<1> QED BY <1>3, <1>6, <1>7, <1>8, <1>10, <1>11 DEF Inv, AtWork

\* The master counts a core: some other core has work, so it is not the first.
LEMMA IncrementWork ==
    ASSUME Inv, AtWork, NEW t \in Workers, NEW m \in Arriving, m = Increment(t),
           cores_out' = cores_out + 1, net' = Receive(m, {Reply(t, cores_out')}),
           UNCHANGED <<count, event_in_progress, cv, temporary_waking_cv,
                       temporary_waking_cores_out, reenroll_count, completion_msgs,
                       task, recurring, fatal>>
    PROVE  Inv'
<1>1. /\ Base /\ Shape /\ FiniteBag(net)
      /\ \A x : Copies(x) \in Nat /\ (x \in BagToSet(net) <=> Copies(x) > 0)
      /\ \A x : Copies(x) > 0 => x \in ByMsgs \union WorkMsgs
  BY WorkFacts
<1>2. PICK v : v = cores_out + 1
  OBVIOUS
<1>3. Reply(t, v) # m
  BY Types
<1>4. /\ FiniteBag(net)' /\ Copies(m) > 0
      /\ \A x : Copies(x)' \in Nat /\ (x \in BagToSet(net)' <=> Copies(x)' > 0)
      /\ \A x : x # m /\ x # Reply(t, v) => Copies(x)' = Copies(x)
      /\ Copies(m)' = Copies(m) - 1 /\ Copies(Reply(t, v))' = Copies(Reply(t, v)) + 1
  BY <1>1, <1>2, <1>3, AnswerOne
<1>5. t \in Callers /\ task[t].pc = "call" /\ Active(t)
  <2>1. t \in Callers
    BY <1>4 DEF Callers
  <2>2. task[t].pc = "call"
    BY <2>1, ActiveCounts
  <2> QED BY <2>1, <2>2, ActiveCounts
<1>6. v \in Nat \ {0, 1}
  <2>1. Cardinality(Busy) >= Cardinality(Callers) + 1
    BY <1>5, Ahead
  <2>2. /\ Cardinality(Busy) \in Nat /\ Cardinality(Callers) \in Nat /\ Copies(Enter) \in Nat
        /\ cores_out = Cardinality(Busy) - Cardinality(Callers) + Copies(Enter)
    BY WorkFacts DEF AtWork, Reported
  <2> QED BY <1>2, <2>1, <2>2
<1>7. /\ Copies(Enter)' = Copies(Enter)
      /\ \A c \in Cores : Copies(Wake(c))' = Copies(Wake(c))
      /\ \A c \in Cores : \A x \in Completes(c) : Copies(x)' = Copies(x)
      /\ \A u : u # t => Copies(Increment(u))' = Copies(Increment(u))
      /\ \A u, w : u # t \/ w # v => Copies(Reply(u, w))' = Copies(Reply(u, w))
  <2>1. Enter # m /\ Enter # Reply(t, v)
    BY Types
  <2>2. \A c : Wake(c) # m /\ Wake(c) # Reply(t, v)
    BY Types
  <2>3. \A c : \A x \in Completes(c) : x # m /\ x # Reply(t, v)
    BY Types, CompleteTypes
  <2>4. \A u : u # t => Increment(u) # m /\ Increment(u) # Reply(t, v)
    BY Types
  <2>5. \A u, w : u # t \/ w # v => Reply(u, w) # m /\ Reply(u, w) # Reply(t, v)
    BY Types
  <2> QED BY <1>4, <2>1, <2>2, <2>3, <2>4, <2>5
<1>8. /\ Copies(Increment(t)) = 1 /\ Copies(Increment(t))' = 0
      /\ \A w \in Nat \ {0, 1} : Copies(Reply(t, w)) = 0
      /\ Copies(Reply(t, v))' = 1
  <2>1. /\ Copies(Increment(t)) <= 1
        /\ \A w \in Nat \ {0, 1} : Copies(Reply(t, w)) > 0 => Copies(Increment(t)) = 0
    BY DEF AtWork, Calls
  <2>2. Copies(Increment(t)) = 1
    BY <1>1, <1>4, <2>1
  <2>3. ASSUME NEW w \in Nat \ {0, 1} PROVE Copies(Reply(t, w)) = 0
    <3>1. ~(Copies(Reply(t, w)) > 0) /\ Copies(Reply(t, w)) \in Nat
      BY <1>1, <2>1, <2>2
    <3> QED BY <3>1
  <2> QED BY <1>4, <1>6, <2>2, <2>3
<1>9. Base'
  <2>1. Shape'
    <3>1. cores_out' \in Nat
      BY <1>1 DEF Shape
    <3> QED BY <1>1, <1>4, <3>1 DEF Shape
  <2>2. Programs' /\ Places' /\ Queues'
    BY <1>1 DEF Base, Programs, Places, Queues, Origin
  <2>3. \A ph \in {0, 1} : Phased(ph) => Phased(ph)'
    BY <1>7 DEF Phased
  <2> QED BY <1>1, <2>1, <2>2, <2>3 DEF Base
<1>10. Calls'
  <2> SUFFICES ASSUME NEW u \in Workers
               PROVE  (/\ Copies(Increment(u)) <= 1
                       /\ \A x \in Nat \ {0, 1} : Copies(Reply(u, x)) <= 1
                       /\ \A x \in Nat \ {0, 1} : Copies(Reply(u, x)) > 0 => Copies(Increment(u)) = 0
                       /\ \A x, w \in Nat \ {0, 1} :
                             Copies(Reply(u, x)) > 0 /\ Copies(Reply(u, w)) > 0 => x = w
                       /\ task[u].pc # "call" =>
                             Copies(Increment(u)) = 0 /\ \A x \in Nat \ {0, 1} : Copies(Reply(u, x)) = 0
                       /\ task[u].pc = "call" =>
                             /\ task[u].core # master_core /\ task[u].child \in Kids
                             /\ task[task[u].child].pc = "new"
                             /\ task[task[u].child].target = task[u].core)'
    BY DEF Calls
  <2>1. CASE u # t
    BY <1>7, <2>1 DEF AtWork, Calls
  <2>2. CASE u = t
    <3>1. \A x \in Nat \ {0, 1} : Copies(Reply(u, x))' = IF x = v THEN 1 ELSE 0
      BY <1>7, <1>8, <2>2
    <3>2. /\ task[u].core # master_core /\ task[u].child \in Kids
          /\ task[task[u].child].pc = "new"
          /\ task[task[u].child].target = task[u].core
      BY <1>5, <2>2 DEF AtWork, Calls
    <3>3. Copies(Increment(u))' = 0 /\ task'[u].pc = "call"
      BY <1>5, <1>8, <2>2
    <3> QED BY <3>1, <3>2, <3>3
  <2> QED BY <2>1, <2>2
<1>11. Callers' = Callers \ {t}
  BY <1>7, <1>8 DEF Callers
<1>12. Apart' /\ Ordered'
  <2>1. Apart'
    BY DEF AtWork, Apart
  <2>2. \A u : Tgt(u)' = Tgt(u)
    BY DEF Tgt, Origin
  <2>3. SUBSET Callers' \subseteq SUBSET Callers
    BY <1>11
  <2>4. Ordered'
    BY <2>2, <2>3 DEF AtWork, Ordered
  <2> QED BY <2>1, <2>4
<1>13. Under'
  <2>1. Reply(t, v) \in WorkMsgs
    BY <1>6 DEF WorkMsgs
  <2>2. BagToSet(net)' \subseteq ByMsgs \union WorkMsgs
    <3> SUFFICES ASSUME NEW x \in BagToSet(net)' PROVE x \in ByMsgs \union WorkMsgs
      OBVIOUS
    <3>1. CASE x = Reply(t, v)
      BY <2>1, <3>1
    <3>2. CASE x = m
      BY <1>1, <1>4, <3>2
    <3>3. CASE x # m /\ x # Reply(t, v)
      BY <1>1, <1>4, <3>3
    <3> QED BY <3>1, <3>2, <3>3
  <2> QED BY <2>2 DEF AtWork, Under, Again
<1>14. Wakes'
  BY <1>7 DEF AtWork, Wakes
<1>15. Counted'
  <2>1. \A d \in Cores : Owing(d)' = Owing(d)
    <3>1. \A u \in Workers : Active(u)' <=> Active(u)
      <4> TAKE u \in Workers
      <4>1. task[u].core \in Cores
        BY WorkFacts
      <4> QED BY <1>7, <4>1 DEF Active
    <3> QED BY <3>1 DEF Owing, Tgt, Origin
  <2>2. \A d \in Cores : SentIn(net', d) = SentIn(net, d)
    BY <1>7, SentKeep
  <2> QED BY <2>1, <2>2 DEF AtWork, Counted
<1>16. Reported'
  <2>1. Cardinality(Callers') = Cardinality(Callers) - 1
    BY <1>5, <1>11, WorkFacts, FS_RemoveElement
  <2>2. /\ Cardinality(Busy) \in Nat /\ Cardinality(Callers) \in Nat /\ Copies(Enter) \in Nat
        /\ cores_out = Cardinality(Busy) - Cardinality(Callers) + Copies(Enter)
    BY WorkFacts DEF AtWork, Reported
  <2>3. Busy' = Busy
    BY DEF Busy
  <2> QED BY <1>7, <2>1, <2>2, <2>3 DEF Reported
<1> QED BY <1>9, <1>10, <1>12, <1>13, <1>14, <1>15, <1>16 DEF Inv, AtWork

\* A task goes on once it has enrolled the child it has named.
LEMMA EnrolledTask ==
    ASSUME NEW tk \in [Tasks -> TaskType], NEW t \in Workers, NEW k \in Kids, tk[t].child = k, k # t
    PROVE  LET nt == Enrolled(tk, t)
           IN  /\ nt \in [Tasks -> TaskType]
               /\ nt[t].pc = "run" /\ nt[t].core = tk[t].core /\ nt[t].target = tk[t].target
               /\ nt[t].phase = tk[t].phase
               /\ nt[k].pc = "run" /\ nt[k].core = tk[k].core /\ nt[k].target = tk[k].target
               /\ nt[k].phase = tk[k].phase
               /\ \A u \in Tasks : u # t /\ u # k => nt[u] = tk[u]
<1>1. t \in Tasks /\ t # User /\ k \in Tasks
  BY Names DEF Workers
<1> DEFINE nt == Enrolled(tk, t)
           r == tk[t]
           q == tk[k]
<1>2. nt = [tk EXCEPT ![t].pc = "run", ![t].child = User, ![k].pc = "run"]
  BY <1>1 DEF Enrolled
<1>3. r \in TaskType /\ q \in TaskType /\ "run" \in PCs /\ User \in Named
  BY <1>1 DEF PCs, Named
<1>4. /\ nt[t] = [r EXCEPT !.pc = "run", !.child = User] /\ nt[k] = [q EXCEPT !.pc = "run"]
      /\ \A u \in Tasks : u # t /\ u # k => nt[u] = tk[u]
      /\ nt = [u \in Tasks |-> nt[u]]
  BY <1>1, <1>2, <1>3 DEF TaskType
<1> HIDE DEF nt, r, q
<1>5. LET s == [r EXCEPT !.pc = "run", !.child = User]
      IN  /\ s \in TaskType /\ s.pc = "run" /\ s.core = r.core /\ s.target = r.target
          /\ s.phase = r.phase
  BY <1>3 DEF TaskType
<1>6. LET s == [q EXCEPT !.pc = "run"]
      IN  /\ s \in TaskType /\ s.pc = "run" /\ s.core = q.core /\ s.target = q.target
          /\ s.phase = q.phase
  BY <1>3 DEF TaskType
<1>7. \A u \in Tasks : nt[u] \in TaskType
  BY <1>4, <1>5, <1>6
<1>8. nt \in [Tasks -> TaskType]
  BY <1>4, <1>7
<1> QED BY <1>4, <1>5, <1>6, <1>8 DEF nt, r, q

\* What a step of tasks at work does to their programs, places and phases.
LEMMA WorkPlaces ==
    ASSUME Inv, AtWork, task'[User] = task[User], task'[Bystander] = task[Bystander],
           \A t \in Mains : /\ task'[t].core = task[t].core /\ task'[t].phase = task[t].phase
                            /\ task'[t].pc \in {"run", "call", "wait"},
           \A k \in Kids : task'[k].pc \in {"idle", "new", "run", "call"},
           \A k \in Kids : task'[k].pc # "idle" =>
              \/ task[k].pc # "idle" /\ task'[k].phase = task[k].phase
              \/ \E u \in Workers : task[u].pc = "run" /\ task'[k].phase = task[u].phase,
           \A c \in Cores : Copies(Wake(c))' = Copies(Wake(c)),
           \A c \in Cores : cv'[c] \subseteq {Main(c), Bystander},
           UNCHANGED <<temporary_waking_cv, recurring>>
    PROVE  Programs' /\ Places' /\ Origin' = Origin /\ \E ph \in {0, 1} : Phased(ph)'
<1>1. Base /\ task[User].pc = "started" /\ \A c \in Cores : Main(c) \in Mains
  BY WorkFacts DEF AtWork, Under
<1>2. Origin' = Origin
  BY DEF Origin
<1>3. Programs'
  BY <1>1 DEF Base, Programs
<1>4. Places'
  <2>1. \A c \in Cores : task'[Main(c)].core = task[Main(c)].core
    BY <1>1
  <2> QED BY <1>1, <1>2, <2>1 DEF Base, Places
<1>5. PICK ph \in {0, 1} : Phased(ph)
  BY <1>1 DEF Base
<1>6. ASSUME NEW u \in Workers, task[u].pc = "run" PROVE task[u].phase = ph
  <2>1. CASE u \in Kids
    BY <1>5, <1>6, <2>1 DEF Phased
  <2>2. CASE u \in Mains
    <3>1. PICK c \in Cores : u = Main(c)
      BY <2>2, Names
    <3>2. ~(Copies(Wake(c)) > 0)
      BY <1>6, <3>1 DEF AtWork, Wakes
    <3> QED BY <1>5, <3>1, <3>2 DEF Phased
  <2> QED BY <2>1, <2>2 DEF Workers
<1>7. \A k \in Kids : task'[k].pc # "idle" => task'[k].phase = ph
  BY <1>5, <1>6 DEF Phased
<1>8. \A c \in Cores : task'[Main(c)].phase = task[Main(c)].phase
  BY <1>1
<1>9. Phased(ph)'
  BY <1>5, <1>7, <1>8 DEF Phased
<1> QED BY <1>2, <1>3, <1>4, <1>9

\* Who still owes a completion depends on the tasks and the wake-ups.
LEMMA WorkActive ==
    ASSUME Inv, AtWork, Origin' = Origin, \A c \in Cores : Copies(Wake(c))' = Copies(Wake(c)),
           NEW t \in Workers,
           \/ task'[t] = task[t]
           \/ /\ task[t].pc \in {"run", "call", "new"} /\ task'[t].pc \in {"run", "call", "new"}
              /\ task'[t].target = task[t].target
    PROVE  (Active(t)' <=> Active(t)) /\ Tgt(t)' = Tgt(t)
<1>1. task[t].core \in Cores
  BY WorkFacts
<1>2. CASE task'[t] = task[t]
  <2>1. Copies(Wake(task[t].core))' = Copies(Wake(task[t].core))
    <3>1. PICK c \in Cores : c = task[t].core
      BY <1>1
    <3> QED BY <1>2, <3>1
  <2> QED BY <1>2, <2>1 DEF Active, Tgt
<1>3. CASE /\ task[t].pc \in {"run", "call", "new"} /\ task'[t].pc \in {"run", "call", "new"}
           /\ task'[t].target = task[t].target
  BY <1>3 DEF Active, Tgt
<1> QED BY <1>2, <1>3

\* The master has counted the core of t: t goes on, and so does the child.
LEMMA ReturnWork ==
    ASSUME Inv, AtWork, NEW t \in Workers, NEW v \in Nat \ {0, 1}, NEW m \in Arriving,
           m = Reply(t, v), task[t].pc = "call",
           event_in_progress' = [event_in_progress EXCEPT ![task[t].core] = @ \/ v = 1],
           net' = Receive(m, CallOnAllCores(t, task[t].core, v)),
           task' = AfterCall(task, t, v),
           fatal' = (v # 1 /\ count[task[t].core] <= 0),
           UNCHANGED <<count, cv, temporary_waking_cv, cores_out, temporary_waking_cores_out,
                       reenroll_count, completion_msgs, recurring>>
    PROVE  Inv'
<1>1. Base /\ Shape /\ FiniteBag(net) /\ task \in [Tasks -> TaskType]
      /\ (\A x : Copies(x) \in Nat /\ (x \in BagToSet(net) <=> Copies(x) > 0))
      /\ (\A x : Copies(x) > 0 => x \in ByMsgs \union WorkMsgs)
      /\ Mains \subseteq Workers /\ Kids \subseteq Workers /\ Workers \subseteq Tasks
      /\ count \in [Cores -> Nat] /\ task[t].core \in Cores
      /\ User \in Tasks /\ Bystander \in Tasks /\ User \notin Workers /\ Bystander \notin Workers
  BY WorkFacts, Names
<1>2. net' = Receive(m, {}) /\ task' = Enrolled(task, t)
  BY DEF CallOnAllCores, AfterCall
<1>3. /\ FiniteBag(net)' /\ Copies(m) > 0
      /\ \A x : Copies(x)' \in Nat /\ (x \in BagToSet(net)' <=> Copies(x)' > 0)
      /\ \A x : x # m => Copies(x)' = Copies(x)
      /\ Copies(m)' = Copies(m) - 1
  BY <1>1, <1>2, ReceiveOne
<1>4. PICK k \in Kids : /\ k = task[t].child /\ task[k].pc = "new" /\ k # t /\ k \in Workers
                        /\ \A u \in Workers : task[u].pc = "call" /\ u # t => task[u].child # k
  <2>1. task[t].child \in Kids /\ task[task[t].child].pc = "new"
    BY DEF AtWork, Calls
  <2>2. \A u \in Workers : task[u].pc = "call" /\ u # t => task[u].child # task[t].child
    BY DEF AtWork, Apart
  <2> QED BY <1>1, <2>1, <2>2
<1>5. /\ task' \in [Tasks -> TaskType]
      /\ task'[t].pc = "run" /\ task'[t].core = task[t].core /\ task'[t].target = task[t].target
      /\ task'[t].phase = task[t].phase
      /\ task'[k].pc = "run" /\ task'[k].core = task[k].core /\ task'[k].target = task[k].target
      /\ task'[k].phase = task[k].phase
      /\ \A u \in Tasks : u # t /\ u # k => task'[u] = task[u]
  BY <1>1, <1>2, <1>4, EnrolledTask
<1>6. fatal' = FALSE
  <2>1. count[task[t].core] > 0 /\ count[task[t].core] \in Nat
    BY <1>1, ActiveCounts
  <2>2. ~(count[task[t].core] <= 0)
    BY <2>1
  <2> QED BY <2>2
<1>7. event_in_progress' = event_in_progress
  <2>1. event_in_progress \in [Cores -> BOOLEAN] /\ \A c \in Cores : event_in_progress[c] = TRUE
    BY <1>1 DEF Shape, AtWork, Under
  <2> QED BY <1>1, <2>1
<1>8. /\ Copies(Enter)' = Copies(Enter)
      /\ \A c \in Cores : Copies(Wake(c))' = Copies(Wake(c))
      /\ \A c \in Cores : \A x \in Completes(c) : Copies(x)' = Copies(x)
      /\ \A u : Copies(Increment(u))' = Copies(Increment(u))
      /\ \A u, w : u # t \/ w # v => Copies(Reply(u, w))' = Copies(Reply(u, w))
  <2>1. Enter # m
    BY Types
  <2>2. \A c : Wake(c) # m
    BY Types
  <2>3. \A c : \A x \in Completes(c) : x # m
    BY Types, CompleteTypes
  <2>4. \A u : Increment(u) # m
    BY Types
  <2>5. \A u, w : u # t \/ w # v => Reply(u, w) # m
    BY Types
  <2> QED BY <1>3, <2>1, <2>2, <2>3, <2>4, <2>5
<1>9. Copies(Increment(t)) = 0 /\ \A w \in Nat \ {0, 1} : Copies(Reply(t, w))' = 0
  <2>1. /\ Copies(Increment(t)) = 0 /\ Copies(Reply(t, v)) <= 1
        /\ \A w \in Nat \ {0, 1} : Copies(Reply(t, w)) > 0 => v = w
    BY <1>3 DEF AtWork, Calls
  <2>2. Copies(Reply(t, v))' = 0
    BY <1>1, <1>3, <2>1
  <2>3. ASSUME NEW w \in Nat \ {0, 1}, w # v PROVE Copies(Reply(t, w))' = 0
    <3>1. ~(Copies(Reply(t, w)) > 0) /\ Copies(Reply(t, w)) \in Nat
      BY <1>1, <2>1, <2>3
    <3> QED BY <1>8, <2>3, <3>1
  <2> QED BY <2>1, <2>2, <2>3
<1>10. \A u \in Workers : u = t \/ u = k \/ task'[u] = task[u]
  BY <1>1, <1>5
<1>11. Base' /\ Origin' = Origin
  <2>1. Shape'
    BY <1>1, <1>3, <1>5, <1>6, <1>7 DEF Shape
  <2>2. task'[User] = task[User] /\ task'[Bystander] = task[Bystander]
    BY <1>1, <1>4, <1>5
  <2>3. \A u \in Mains : /\ task'[u].core = task[u].core /\ task'[u].phase = task[u].phase
                         /\ task'[u].pc \in {"run", "call", "wait"}
    BY <1>1, <1>5, <1>10 DEF AtWork, Under
  <2>4. \A u \in Kids : task'[u].pc \in {"idle", "new", "run", "call"}
    BY <1>1, <1>5, <1>10 DEF Base, Programs
  <2>5. \A u \in Kids : task'[u].pc # "idle" => task[u].pc # "idle" /\ task'[u].phase = task[u].phase
    BY <1>1, <1>4, <1>5, <1>10
  <2>6. \A c \in Cores : cv'[c] \subseteq {Main(c), Bystander}
    BY <1>1 DEF Base, Places
  <2>7. Programs' /\ Places' /\ Origin' = Origin /\ \E ph \in {0, 1} : Phased(ph)'
    BY <1>8, <2>2, <2>3, <2>4, <2>5, <2>6, WorkPlaces
  <2>8. Queues'
    BY <1>1 DEF Base, Queues
  <2> QED BY <2>1, <2>7, <2>8 DEF Base
<1>12. Under' /\ Wakes'
  <2>1. BagToSet(net)' \subseteq ByMsgs \union WorkMsgs
    BY <1>1, <1>3
  <2>2. \A u \in Mains : task'[u].pc \in {"run", "call", "wait"}
    BY <1>1, <1>5, <1>10 DEF AtWork, Under
  <2>3. task'[User] = task[User]
    BY <1>1, <1>4, <1>5
  <2>4. Under'
    BY <1>7, <2>1, <2>2, <2>3 DEF AtWork, Under, Again
  <2>5. \A c \in Cores : task'[Main(c)].pc = "wait" <=> task[Main(c)].pc = "wait"
    <3>1. \A c \in Cores : Main(c) \in Workers /\ Main(c) # k
      BY <1>1, Names
    <3> QED BY <1>5, <1>10, <3>1
  <2>6. Wakes'
    BY <1>8, <2>5 DEF AtWork, Wakes
  <2> QED BY <2>4, <2>6
<1>13. Calls'
  <2> SUFFICES ASSUME NEW u \in Workers
               PROVE  (/\ Copies(Increment(u)) <= 1
                       /\ \A x \in Nat \ {0, 1} : Copies(Reply(u, x)) <= 1
                       /\ \A x \in Nat \ {0, 1} : Copies(Reply(u, x)) > 0 => Copies(Increment(u)) = 0
                       /\ \A x, w \in Nat \ {0, 1} :
                             Copies(Reply(u, x)) > 0 /\ Copies(Reply(u, w)) > 0 => x = w
                       /\ task[u].pc # "call" =>
                             Copies(Increment(u)) = 0 /\ \A x \in Nat \ {0, 1} : Copies(Reply(u, x)) = 0
                       /\ task[u].pc = "call" =>
                             /\ task[u].core # master_core /\ task[u].child \in Kids
                             /\ task[task[u].child].pc = "new"
                             /\ task[task[u].child].target = task[u].core)'
    BY DEF Calls
  <2>1. CASE u = t
    BY <1>5, <1>8, <1>9, <2>1
  <2>2. CASE u = k
    <3>1. task[u].pc # "call" /\ task'[u].pc # "call" /\ u # t
      BY <1>4, <1>5, <2>2
    <3> QED BY <1>8, <3>1 DEF AtWork, Calls
  <2>3. CASE u # t /\ u # k
    <3>1. task'[u] = task[u]
      BY <1>10, <2>3
    <3>2. ASSUME task[u].pc = "call"
          PROVE  task[u].child \in Kids /\ task'[task[u].child] = task[task[u].child]
      <4>1. task[u].child \in Kids /\ task[task[u].child].pc = "new"
        BY <3>2 DEF AtWork, Calls
      <4>2. task[u].child # k /\ task[u].child # t /\ task[u].child \in Workers
        BY <1>1, <1>4, <2>3, <3>2, <4>1
      <4> QED BY <1>10, <4>1, <4>2
    <3> QED BY <1>8, <2>3, <3>1, <3>2 DEF AtWork, Calls
  <2> QED BY <2>1, <2>2, <2>3
<1>14. \A u \in Workers : task'[u].pc = "call" => task[u].pc = "call" /\ task'[u] = task[u]
  BY <1>5, <1>10
<1>15. Apart'
  <2> SUFFICES ASSUME NEW u \in Workers, NEW w \in Workers,
                      task'[u].pc = "call", task'[w].pc = "call", u # w
               PROVE  task'[u].core # task'[w].core /\ task'[u].child # task'[w].child
    BY DEF Apart
  <2>1. task[u].pc = "call" /\ task'[u] = task[u] /\ task[w].pc = "call" /\ task'[w] = task[w]
    BY <1>14
  <2> QED BY <2>1 DEF AtWork, Apart
<1>16. Callers' = Callers
  BY <1>8 DEF Callers
<1>17. Ordered'
  <2>1. \A u \in Callers : task'[u] = task[u] /\ Tgt(u)' = Tgt(u)
    <3> TAKE u \in Callers
    <3>1. u \in Workers /\ task[u].pc = "call" /\ u # t
      <4>1. ~(Copies(Increment(t)) > 0)
        BY <1>9
      <4> QED BY <4>1, ActiveCounts DEF Callers
    <3>2. task'[u] = task[u]
      BY <1>4, <1>10, <3>1
    <3> QED BY <1>11, <3>2 DEF Tgt
  <2> SUFFICES ASSUME NEW D \in SUBSET Callers, D # {}
               PROVE  \E u \in D : \A w \in D : task'[w].core # Tgt(u)'
    BY <1>16 DEF Ordered
  <2>2. PICK u \in D : \A w \in D : task[w].core # Tgt(u)
    BY DEF AtWork, Ordered
  <2> QED BY <2>1, <2>2
<1>18. Counted'
  <2>1. \A d \in Cores : Owing(d)' = Owing(d)
    <3>1. ASSUME NEW u \in Workers PROVE (Active(u)' <=> Active(u)) /\ Tgt(u)' = Tgt(u)
      <4>1. \/ task'[u] = task[u]
            \/ /\ task[u].pc \in {"run", "call", "new"} /\ task'[u].pc \in {"run", "call", "new"}
               /\ task'[u].target = task[u].target
        BY <1>4, <1>5, <1>10
      <4> QED BY <1>8, <1>11, <4>1, WorkActive
    <3> QED BY <3>1 DEF Owing
  <2>2. \A d \in Cores : SentIn(net', d) = SentIn(net, d)
    BY <1>8, SentKeep
  <2> QED BY <2>1, <2>2 DEF AtWork, Counted
<1>19. Reported'
  BY <1>8, <1>16 DEF AtWork, Reported, Busy
<1> QED BY <1>11, <1>12, <1>13, <1>15, <1>17, <1>18, <1>19 DEF Inv, AtWork

\* A step that moves completions and entries to the barrier only.
LEMMA TasksKeep ==
    ASSUME Inv, AtWork,
           BagToSet(net)' \subseteq ByMsgs \union WorkMsgs,
           \A c \in Cores : Copies(Wake(c))' = Copies(Wake(c)),
           \A t \in Workers : Copies(Increment(t))' = Copies(Increment(t)),
           \A t \in Workers, v \in Nat \ {0, 1} : Copies(Reply(t, v))' = Copies(Reply(t, v)),
           UNCHANGED <<event_in_progress, cv, temporary_waking_cv, temporary_waking_cores_out,
                       reenroll_count, task, recurring>>
    PROVE  /\ Programs' /\ Places' /\ \E ph \in {0, 1} : Phased(ph)'
           /\ Under' /\ Wakes' /\ Calls' /\ Apart' /\ Ordered' /\ Callers' = Callers
           /\ \A c \in Cores : Owing(c)' = Owing(c)
<1>1. Base
  BY WorkFacts
<1>2. Programs' /\ Places' /\ Origin' = Origin
  BY <1>1 DEF Base, Programs, Places, Origin
<1>3. \A ph \in {0, 1} : Phased(ph) => Phased(ph)'
  BY DEF Phased
<1>4. Under'
  BY DEF AtWork, Under, Again
<1>5. Wakes'
  BY DEF AtWork, Wakes
<1>6. Calls' /\ Apart' /\ Ordered' /\ Callers' = Callers
  BY <1>2, CallsKeep
<1>7. \A t \in Workers : (Active(t)' <=> Active(t)) /\ Tgt(t)' = Tgt(t)
  BY <1>2, WorkActive
<1>8. \A c \in Cores : Owing(c)' = Owing(c)
  BY <1>7 DEF Owing
<1> QED BY <1>1, <1>2, <1>3, <1>4, <1>5, <1>6, <1>8 DEF Base

\* Completions under way, after a step that sends or receives one.
LEMMA SentPlus ==
    ASSUME FiniteBag(net), FiniteBag(net)', NEW c, NEW m \in Completes(c),
           Copies(m)' = Copies(m) + 1, \A x : x # m => Copies(x)' = Copies(x)
    PROVE  SentIn(net', c) = SentIn(net, c) + m.dec
<1>1. In(m, net') = In(m, net) + 1 /\ \A x \in Completes(c) \ {m} : In(x, net') = In(x, net)
  BY DEF In, Copies
<1> QED BY <1>1, SentMore

\* and one that arrives takes it away.
LEMMA SentMinus ==
    ASSUME FiniteBag(net), FiniteBag(net)', NEW c, NEW m \in Completes(c),
           Copies(m) = Copies(m)' + 1, \A x \in Completes(c) \ {m} : Copies(x)' = Copies(x)
    PROVE  SentIn(net, c) = SentIn(net', c) + m.dec
<1>1. In(m, net) = In(m, net') + 1 /\ \A x \in Completes(c) \ {m} : In(x, net) = In(x, net')
  BY DEF In, Copies
<1> QED BY <1>1, SentMore

\* The aggregator takes a message: its completions are under way, and what was
\* merged meanwhile is queued.
LEMMA SentWork ==
    ASSUME Inv, AtWork, NEW c \in Cores, NEW o \in Cores, completion_msgs[c][o].queued,
           net' = Send({DoComplete(o, completion_msgs[c][o].dec)}),
           completion_msgs' = [completion_msgs EXCEPT ![c][o] =
                 [queued |-> completion_msgs[c][o].completes_to_send > 0,
                  dec |-> completion_msgs[c][o].completes_to_send,
                  completes_to_send |-> 0]],
           UNCHANGED <<count, event_in_progress, cv, temporary_waking_cv, cores_out,
                       temporary_waking_cores_out, reenroll_count, task, recurring, fatal>>
    PROVE  Inv'
<1>1. Base /\ Shape /\ FiniteBag(net) /\ completion_msgs \in [Cores -> [Cores -> Queue]]
      /\ (\A x : Copies(x) \in Nat /\ (x \in BagToSet(net) <=> Copies(x) > 0))
      /\ (\A x : Copies(x) > 0 => x \in ByMsgs \union WorkMsgs)
  BY WorkFacts
<1>2. PICK cm \in Queue : cm = completion_msgs[c][o]
  BY <1>1
<1>3. cm.queued /\ cm.dec \in Nat \ {0} /\ cm.completes_to_send \in Nat
  <2>1. cm.dec \in Nat /\ cm.completes_to_send \in Nat
    BY DEF Queue
  <2>2. cm.dec >= 1
    BY <1>1, <1>2 DEF Base, Queues
  <2> QED BY <1>2, <2>1, <2>2
<1> DEFINE q == [queued |-> cm.completes_to_send > 0, dec |-> cm.completes_to_send,
                 completes_to_send |-> 0]
           y == DoComplete(o, cm.dec)
<1>4. /\ q \in Queue /\ Waiting(q) = cm.completes_to_send /\ (q.queued => q.dec >= 1)
      /\ q.completes_to_send = 0
  <2>1. q \in Queue
    <3>1. (cm.completes_to_send > 0) \in BOOLEAN
      BY <1>3
    <3> QED BY <1>3, <3>1 DEF Queue
  <2>2. (q.queued <=> cm.completes_to_send > 0) /\ q.dec = cm.completes_to_send /\ q.completes_to_send = 0
    OBVIOUS
  <2> HIDE DEF q
  <2>3. Waiting(q) = cm.completes_to_send
    <3>1. CASE cm.completes_to_send > 0
      BY <1>3, <2>2, <3>1 DEF Waiting
    <3>2. CASE cm.completes_to_send = 0
      BY <1>3, <2>2, <3>2 DEF Waiting
    <3> QED BY <1>3, <3>1, <3>2
  <2>4. q.queued => q.dec >= 1
    BY <1>3, <2>2
  <2> QED BY <2>1, <2>2, <2>3, <2>4
<1>5. completion_msgs' = [completion_msgs EXCEPT ![c][o] = q]
  BY <1>2
<1>6. y \in Completes(o) /\ y \in WorkMsgs /\ y.dec = cm.dec
  <2>1. y \in Completes(o)
    BY <1>3 DEF Completes
  <2> QED BY <2>1, Types DEF WorkMsgs
<1>7. net' = Send({y})
  BY <1>2
<1>8. \A e \in Cores : \A x \in Completes(e) : x = y => e = o
  BY Types, CompleteTypes
<1>9. Waiting(cm) = cm.dec + cm.completes_to_send
  BY <1>3 DEF Waiting
<1> HIDE DEF q, y
<1>10. /\ FiniteBag(net)'
       /\ \A x : Copies(x)' \in Nat /\ (x \in BagToSet(net)' <=> Copies(x)' > 0)
       /\ \A x : x # y => Copies(x)' = Copies(x)
       /\ Copies(y)' = Copies(y) + 1
  BY <1>1, <1>7, SendOne
<1>11. y.type = "complete"
  BY <1>6, CompleteTypes
<1>12. /\ Copies(Enter)' = Copies(Enter)
       /\ \A d \in Cores : Copies(Wake(d))' = Copies(Wake(d))
       /\ \A t \in Workers : Copies(Increment(t))' = Copies(Increment(t))
       /\ \A t \in Workers, v \in Nat \ {0, 1} : Copies(Reply(t, v))' = Copies(Reply(t, v))
  <2>1. Enter # y
    BY <1>11, Types
  <2>2. \A d : Wake(d) # y
    BY <1>11, Types
  <2>3. \A t : Increment(t) # y
    BY <1>11, Types
  <2>4. \A t, v : Reply(t, v) # y
    BY <1>11, Types
  <2> QED BY <1>10, <2>1, <2>2, <2>3, <2>4
<1>13. BagToSet(net)' \subseteq ByMsgs \union WorkMsgs
  BY <1>1, <1>6, <1>10
<1>14. /\ Programs' /\ Places' /\ \E ph \in {0, 1} : Phased(ph)'
       /\ Under' /\ Wakes' /\ Calls' /\ Apart' /\ Ordered' /\ Callers' = Callers
       /\ \A d \in Cores : Owing(d)' = Owing(d)
  BY <1>12, <1>13, TasksKeep
<1>15. /\ completion_msgs' \in [Cores -> [Cores -> Queue]]
       /\ completion_msgs'[c][o] = q
       /\ \A d, e \in Cores : d # c \/ e # o => completion_msgs'[d][e] = completion_msgs[d][e]
       /\ \A d \in Cores : d # o => MergedIn(completion_msgs', d) = MergedIn(completion_msgs, d)
       /\ MergedIn(completion_msgs', o) = MergedIn(completion_msgs, o) + Waiting(q) - Waiting(cm)
  <2>1. /\ completion_msgs' \in [Cores -> [Cores -> Queue]]
        /\ completion_msgs'[c][o] = q
        /\ \A d, e \in Cores : d # c \/ e # o => completion_msgs'[d][e] = completion_msgs[d][e]
    BY <1>1, <1>4, <1>5
  <2>2. PICK b \in [Cores -> [Cores -> Queue]] : b = completion_msgs'
    BY <2>1
  <2>3. \A d, e \in Cores : d # c \/ e # o => b[d][e] = completion_msgs[d][e]
    BY <2>1, <2>2
  <2>4. /\ \A d \in Cores : d # o => MergedIn(b, d) = MergedIn(completion_msgs, d)
        /\ MergedIn(b, o) = MergedIn(completion_msgs, o) + Waiting(b[c][o]) - Waiting(completion_msgs[c][o])
    BY <1>1, <2>3, MergedStep
  <2>5. Waiting(b[c][o]) = Waiting(q) /\ Waiting(completion_msgs[c][o]) = Waiting(cm)
    BY <1>2, <2>1, <2>2
  <2> QED BY <2>1, <2>2, <2>4, <2>5
<1>16. Base'
  <2>1. Shape'
    BY <1>1, <1>10, <1>15 DEF Shape, Queue
  <2>2. Queues'
    BY <1>1, <1>4, <1>15 DEF Base, Queues
  <2> QED BY <1>14, <2>1, <2>2 DEF Base
<1>17. Counted'
  <2> SUFFICES ASSUME NEW d \in Cores
               PROVE  count[d] = Cardinality(Owing(d)) + MergedIn(completion_msgs', d) + SentIn(net', d)
    BY <1>14 DEF Counted
  <2>1. /\ count[d] = Cardinality(Owing(d)) + MergedIn(completion_msgs, d) + SentIn(net, d)
        /\ Cardinality(Owing(d)) \in Nat /\ MergedIn(completion_msgs, d) \in Nat /\ SentIn(net, d) \in Nat
    BY WorkFacts DEF AtWork, Counted
  <2>2. CASE d = o
    <3>1. SentIn(net', d) = SentIn(net, d) + cm.dec
      BY <1>1, <1>6, <1>10, <2>2, SentPlus
    <3>2. MergedIn(completion_msgs', d) = MergedIn(completion_msgs, d) - cm.dec
      <4>1. MergedIn(completion_msgs', d) = MergedIn(completion_msgs, d) + Waiting(q) - Waiting(cm)
        BY <1>15, <2>2
      <4> QED BY <1>3, <1>4, <1>9, <2>1, <4>1
    <3> QED BY <1>3, <2>1, <3>1, <3>2
  <2>3. CASE d # o
    <3>1. \A x \in Completes(d) : Copies(x)' = Copies(x)
      BY <1>8, <1>10, <2>3
    <3>2. SentIn(net', d) = SentIn(net, d)
      BY <3>1, SentKeep
    <3>3. MergedIn(completion_msgs', d) = MergedIn(completion_msgs, d)
      BY <1>15, <2>1, <2>3
    <3> QED BY <2>1, <3>2, <3>3
  <2> QED BY <2>2, <2>3
<1>18. Reported'
  BY <1>12, <1>14 DEF AtWork, Reported, Busy
<1> QED BY <1>14, <1>16, <1>17, <1>18 DEF Inv, AtWork

\* A core completes: it has no work left when its count is what it completes.
LEMMA CountDown ==
    ASSUME count \in [Cores -> Nat], NEW c \in Cores, NEW d \in Nat \ {0}, d <= count[c],
           count' = [count EXCEPT ![c] = @ - d]
    PROVE  /\ count' \in [Cores -> Nat] /\ count'[c] = count[c] - d
           /\ \A o \in Cores : o # c => count'[o] = count[o]
           /\ count[c] = d => Cardinality(Busy)' = Cardinality(Busy) - 1
           /\ count[c] # d => Cardinality(Busy)' = Cardinality(Busy)
<1>1. count[c] \in Nat /\ count[c] - d \in Nat
  OBVIOUS
<1>2. /\ count' \in [Cores -> Nat] /\ count'[c] = count[c] - d
      /\ \A o \in Cores : o # c => count'[o] = count[o]
  BY <1>1
<1>3. IsFiniteSet(Busy) /\ c \in Busy
  <2>1. count[c] # 0
    OBVIOUS
  <2> QED BY <2>1, Finite, FS_Subset DEF Busy
<1>4. ASSUME count[c] = d PROVE Cardinality(Busy)' = Cardinality(Busy) - 1
  <2>1. count'[c] = 0
    BY <1>1, <1>2, <1>4
  <2>2. Busy' = Busy \ {c}
    BY <1>2, <2>1 DEF Busy
  <2> QED BY <1>3, <2>2, FS_RemoveElement
<1>5. ASSUME count[c] # d PROVE Cardinality(Busy)' = Cardinality(Busy)
  <2>1. count'[c] # 0 /\ count[c] # 0
    BY <1>1, <1>2, <1>5
  <2>2. Busy' = Busy
    BY <1>2, <2>1 DEF Busy
  <2> QED BY <2>2
<1> QED BY <1>2, <1>4, <1>5

\* A completion arrives.
LEMMA CompleteWork ==
    ASSUME Inv, AtWork, NEW c \in Cores, NEW d \in Nat \ {0}, NEW m \in Arriving,
           m = DoComplete(c, d), count' = [count EXCEPT ![c] = @ - d],
           net' = Receive(m, Entering(c, d)),
           UNCHANGED <<event_in_progress, cv, temporary_waking_cv, cores_out,
                       temporary_waking_cores_out, reenroll_count, completion_msgs,
                       task, recurring, fatal>>
    PROVE  Inv'
<1>1. Base /\ Shape /\ FiniteBag(net) /\ count \in [Cores -> Nat]
      /\ (\A x : Copies(x) \in Nat /\ (x \in BagToSet(net) <=> Copies(x) > 0))
      /\ (\A x : Copies(x) > 0 => x \in ByMsgs \union WorkMsgs)
  BY WorkFacts
<1>2. m \in Completes(c) /\ m.dec = d /\ m \in BagToSet(net) /\ m.type = "complete"
  BY Types, Arrivals DEF Completes
<1>3. d <= count[c]
  <2>1. /\ count[c] = Cardinality(Owing(c)) + MergedIn(completion_msgs, c) + SentIn(net, c)
        /\ Cardinality(Owing(c)) \in Nat /\ MergedIn(completion_msgs, c) \in Nat /\ SentIn(net, c) \in Nat
    BY WorkFacts DEF AtWork, Counted
  <2>2. m.dec <= SentIn(net, c)
    BY <1>1, <1>2, SentFacts
  <2> QED BY <1>2, <2>1, <2>2
<1>4. /\ count' \in [Cores -> Nat] /\ count'[c] = count[c] - d
      /\ \A o \in Cores : o # c => count'[o] = count[o]
      /\ count[c] = d => Cardinality(Busy)' = Cardinality(Busy) - 1
      /\ count[c] # d => Cardinality(Busy)' = Cardinality(Busy)
  BY <1>1, <1>3, CountDown
<1>5. Enter # m /\ Enter \in WorkMsgs
  BY Types DEF WorkMsgs
<1>6. /\ FiniteBag(net)'
      /\ \A x : Copies(x)' \in Nat /\ (x \in BagToSet(net)' <=> Copies(x)' > 0)
      /\ \A x : x # m /\ x # Enter => Copies(x)' = Copies(x)
      /\ Copies(m)' = Copies(m) - 1
      /\ Copies(Enter)' = Copies(Enter) + Cardinality(Busy) - Cardinality(Busy)'
  <2>1. Cardinality(Busy) \in Nat /\ Copies(Enter) \in Nat
    BY WorkFacts
  <2>2. /\ count[c] = d => Entering(c, d) = {Enter}
        /\ count[c] # d => Entering(c, d) = {}
    BY DEF Entering
  <2>3. IsFiniteSet(Entering(c, d)) /\ m \notin Entering(c, d)
    BY <1>5, <2>2, FS_Singleton, FS_EmptySet
  <2>4. /\ FiniteBag(net)' /\ Copies(m) > 0
        /\ \A x : Copies(x)' \in Nat /\ (x \in BagToSet(net)' <=> Copies(x)' > 0)
        /\ \A x : x # m /\ x \notin Entering(c, d) => Copies(x)' = Copies(x)
        /\ Copies(m)' = Copies(m) - 1
        /\ \A x \in Entering(c, d) : Copies(x)' = Copies(x) + 1
    BY <1>1, <2>3, AnswerNew
  <2>5. \A x : x # m /\ x # Enter => Copies(x)' = Copies(x)
    BY <2>2, <2>4
  <2>6. Copies(Enter)' = Copies(Enter) + Cardinality(Busy) - Cardinality(Busy)'
    <3>1. CASE count[c] = d
      BY <1>4, <2>1, <2>2, <2>4, <3>1
    <3>2. CASE count[c] # d
      BY <1>4, <1>5, <2>1, <2>2, <2>4, <3>2
    <3> QED BY <3>1, <3>2
  <2> QED BY <2>4, <2>5, <2>6
<1>7. /\ \A o \in Cores : Copies(Wake(o))' = Copies(Wake(o))
      /\ \A t \in Workers : Copies(Increment(t))' = Copies(Increment(t))
      /\ \A t \in Workers, v \in Nat \ {0, 1} : Copies(Reply(t, v))' = Copies(Reply(t, v))
  <2>1. \A o : Wake(o) # m /\ Wake(o) # Enter
    BY <1>2, Types
  <2>2. \A t : Increment(t) # m /\ Increment(t) # Enter
    BY <1>2, Types
  <2>3. \A t, v : Reply(t, v) # m /\ Reply(t, v) # Enter
    BY <1>2, Types
  <2> QED BY <1>6, <2>1, <2>2, <2>3
<1>8. BagToSet(net)' \subseteq ByMsgs \union WorkMsgs
  <2> SUFFICES ASSUME NEW x \in BagToSet(net)' PROVE x \in ByMsgs \union WorkMsgs
    OBVIOUS
  <2>1. CASE x = Enter
    BY <1>5, <2>1
  <2>2. CASE x = m
    BY <1>1, <1>2, <2>2
  <2>3. CASE x # m /\ x # Enter
    BY <1>1, <1>6, <2>3
  <2> QED BY <2>1, <2>2, <2>3
<1>9. /\ Programs' /\ Places' /\ \E ph \in {0, 1} : Phased(ph)'
      /\ Under' /\ Wakes' /\ Calls' /\ Apart' /\ Ordered' /\ Callers' = Callers
      /\ \A o \in Cores : Owing(o)' = Owing(o)
  BY <1>7, <1>8, TasksKeep
<1>10. Base'
  <2>1. Shape'
    BY <1>1, <1>4, <1>6 DEF Shape
  <2>2. Queues'
    BY <1>1 DEF Base, Queues
  <2> QED BY <1>9, <2>1, <2>2 DEF Base
<1>11. Counted'
  <2> SUFFICES ASSUME NEW o \in Cores
               PROVE  count'[o] = Cardinality(Owing(o)) + MergedIn(completion_msgs, o) + SentIn(net', o)
    BY <1>9 DEF Counted
  <2>1. /\ count[o] = Cardinality(Owing(o)) + MergedIn(completion_msgs, o) + SentIn(net, o)
        /\ Cardinality(Owing(o)) \in Nat /\ MergedIn(completion_msgs, o) \in Nat /\ SentIn(net, o) \in Nat
    BY WorkFacts DEF AtWork, Counted
  <2>2. \A x \in Completes(o) : x # Enter /\ (x = m => o = c)
    BY <1>2, CompleteTypes, Types
  <2>3. CASE o = c
    <3>1. \A x \in Completes(o) \ {m} : Copies(x)' = Copies(x)
      BY <1>6, <2>2
    <3>2. Copies(m) = Copies(m)' + 1
      BY <1>1, <1>6
    <3>3. SentIn(net, o) = SentIn(net', o) + d
      BY <1>1, <1>2, <1>6, <2>3, <3>1, <3>2, SentMinus
    <3>4. SentIn(net', o) \in Nat
      BY <1>6, SentFacts
    <3> QED BY <1>4, <2>1, <2>3, <3>3, <3>4
  <2>4. CASE o # c
    <3>1. \A x \in Completes(o) : Copies(x)' = Copies(x)
      BY <1>6, <2>2, <2>4
    <3>2. SentIn(net', o) = SentIn(net, o)
      BY <3>1, SentKeep
    <3> QED BY <1>4, <2>1, <2>4, <3>2
  <2> QED BY <2>3, <2>4
<1>12. Reported'
  <2>1. /\ Cardinality(Busy) \in Nat /\ Cardinality(Callers) \in Nat /\ Copies(Enter) \in Nat
        /\ cores_out = Cardinality(Busy) - Cardinality(Callers) + Copies(Enter)
    BY WorkFacts DEF AtWork, Reported
  <2>2. Cardinality(Busy)' \in Nat
    <3>1. IsFiniteSet(Busy')
      BY Finite, FS_Subset DEF Busy
    <3> QED BY <3>1, FS_CardinalityType
  <2> QED BY <1>6, <1>9, <2>1, <2>2 DEF Reported
<1> QED BY <1>9, <1>10, <1>11, <1>12 DEF Inv, AtWork

\* No more cores are still to be counted than have work.
LEMMA NotBehind ==
    ASSUME Inv, AtWork
    PROVE  Cardinality(Busy) >= Cardinality(Callers)
<1>1. Cardinality(Busy) \in Nat /\ Cardinality(Callers) \in Nat /\ IsFiniteSet(Callers)
  BY WorkFacts
<1>2. CASE \E a \in Workers : Active(a)
  <2>1. Cardinality(Busy) >= Cardinality(Callers) + 1
    BY <1>2, Ahead
  <2> QED BY <1>1, <2>1
<1>3. CASE \A a \in Workers : ~Active(a)
  <2>1. Callers = {}
    BY <1>3, ActiveCounts
  <2>2. Cardinality(Callers) = 0
    BY <2>1, FS_EmptySet
  <2> QED BY <1>1, <2>2
<1> QED BY <1>2, <1>3

\* Nobody is at work: nothing is queued, and nothing under way but what entered.
LEMMA NobodyWorks ==
    ASSUME Inv, AtWork, \A a \in Workers : ~Active(a), Cardinality(Busy) = 0
    PROVE  /\ \A c \in Cores : count[c] = 0
           /\ Quiet /\ \A t \in Mains : task[t].pc = "wait"
           /\ \A c \in Cores : Main(c) \in cv[c]
           /\ BagToSet(net) \subseteq ByMsgs \union {Enter}
<1>1. Base /\ Shape /\ FiniteBag(net) /\ completion_msgs \in [Cores -> [Cores -> Queue]]
      /\ (\A x : Copies(x) \in Nat /\ (x \in BagToSet(net) <=> Copies(x) > 0))
      /\ (\A x : Copies(x) > 0 => x \in ByMsgs \union WorkMsgs)
      /\ Mains \subseteq Workers /\ Kids \subseteq Workers /\ IsFiniteSet(Busy)
      /\ \A c \in Cores : Main(c) \in Mains
  BY WorkFacts
<1>2. \A c \in Cores : count[c] = 0
  <2>1. Busy = {}
    BY <1>1, FS_EmptySet
  <2> QED BY <2>1 DEF Busy
<1>3. \A c \in Cores : MergedIn(completion_msgs, c) = 0 /\ SentIn(net, c) = 0
  <2> TAKE c \in Cores
  <2>1. /\ count[c] = Cardinality(Owing(c)) + MergedIn(completion_msgs, c) + SentIn(net, c)
        /\ Cardinality(Owing(c)) \in Nat /\ MergedIn(completion_msgs, c) \in Nat /\ SentIn(net, c) \in Nat
    BY WorkFacts DEF AtWork, Counted
  <2>2. count[c] = 0
    BY <1>2
  <2> QED BY <2>1, <2>2
<1>4. \A k \in Kids : task[k].pc = "idle"
  BY <1>1 DEF Active
<1>5. \A t \in Mains : task[t].pc = "wait" /\ ~(Copies(Wake(task[t].core)) > 0)
  <2> TAKE t \in Mains
  <2>1. t \notin Kids /\ ~Active(t)
    BY <1>1, Names
  <2> QED BY <2>1 DEF Active
<1>6. \A c \in Cores : Main(c) \in cv[c] /\ Copies(Wake(c)) = 0
  <2> TAKE c \in Cores
  <2>1. task[Main(c)].core = c /\ task[Main(c)].pc = "wait" /\ ~(Copies(Wake(c)) > 0)
    BY <1>1, <1>5 DEF Base, Places
  <2>2. Copies(Wake(c)) = 0
    BY <1>1, <2>1
  <2> QED BY <2>1, <2>2 DEF AtWork, Wakes
<1>7. \A c \in Cores, o \in Cores : ~completion_msgs[c][o].queued
  <2> SUFFICES ASSUME NEW c \in Cores, NEW o \in Cores, completion_msgs[c][o].queued PROVE FALSE
    OBVIOUS
  <2>1. PICK q \in Queue : q = completion_msgs[c][o]
    BY <1>1
  <2>2. q.queued /\ q.dec >= 1 /\ q.dec \in Nat /\ q.completes_to_send \in Nat
    BY <1>1, <2>1 DEF Base, Queues, Queue
  <2>3. Waiting(completion_msgs[c][o]) <= MergedIn(completion_msgs, o)
    BY <1>1, MergedFacts
  <2>4. q.dec + q.completes_to_send <= 0
    BY <1>3, <2>1, <2>2, <2>3 DEF Waiting
  <2> QED BY <2>2, <2>4
<1>8. Quiet
  BY <1>4, <1>7 DEF Quiet
<1>9. ASSUME NEW x \in BagToSet(net), x \in WorkMsgs PROVE x = Enter
  <2>1. Copies(x) > 0
    BY <1>1
  <2>2. CASE x.type = "increment"
    <3>1. x.task \in Workers /\ x = Increment(x.task)
      BY <1>9, <2>2, StageMsgs
    <3>2. x.task \in Callers
      BY <2>1, <3>1 DEF Callers
    <3> QED BY <3>1, <3>2, ActiveCounts
  <2>3. CASE x.type = "reply"
    <3>1. x.task \in Workers /\ x.value \in Nat \ {0, 1} /\ x = Reply(x.task, x.value)
      BY <1>9, <2>3, StageMsgs
    <3>2. task[x.task].pc # "call"
      BY <1>4, <1>5, <3>1 DEF Workers
    <3>3. Copies(Reply(x.task, x.value)) = 0
      BY <3>1, <3>2 DEF AtWork, Calls
    <3> QED BY <2>1, <3>1, <3>3
  <2>4. CASE x.type = "wake"
    <3>1. x.core \in Cores /\ x = Wake(x.core)
      BY <1>9, <2>4, StageMsgs
    <3> QED BY <1>6, <2>1, <3>1
  <2>5. CASE x.type = "complete"
    <3>1. x.core \in Cores /\ x.dec \in Nat \ {0} /\ x \in Completes(x.core)
      BY <1>9, <2>5, StageMsgs
    <3>2. x.dec <= SentIn(net, x.core)
      BY <1>1, <3>1, SentFacts
    <3> QED BY <1>3, <3>1, <3>2
  <2>6. CASE x.type = "enter"
    BY <1>9, <2>6, StageMsgs
  <2> QED BY <1>9, <2>2, <2>3, <2>4, <2>5, <2>6, StageMsgs
<1>10. BagToSet(net) \subseteq ByMsgs \union {Enter}
  BY <1>1, <1>9
<1> QED BY <1>2, <1>5, <1>6, <1>8, <1>10

\* A core enters the barrier, not the last.
LEMMA EnterWork ==
    ASSUME Inv, AtWork, Enter \in Arriving, cores_out' = cores_out - 1,
           net' = Receive(Enter, {}),
           UNCHANGED <<count, event_in_progress, cv, temporary_waking_cv, reenroll_count,
                       completion_msgs, task, recurring, fatal, temporary_waking_cores_out>>
    PROVE  Inv'
<1>1. Base /\ Shape /\ FiniteBag(net) /\ count \in [Cores -> Nat]
      /\ (\A x : Copies(x) \in Nat /\ (x \in BagToSet(net) <=> Copies(x) > 0))
      /\ (\A x : Copies(x) > 0 => x \in ByMsgs \union WorkMsgs)
  BY WorkFacts
<1>2. PICK m \in Arriving : m = Enter
  OBVIOUS
<1>3. /\ FiniteBag(net)' /\ Copies(m) > 0
      /\ \A x : Copies(x)' \in Nat /\ (x \in BagToSet(net)' <=> Copies(x)' > 0)
      /\ \A x : x # m => Copies(x)' = Copies(x)
      /\ Copies(m)' = Copies(m) - 1
  BY <1>1, <1>2, ReceiveOne
<1>4. /\ \A o \in Cores : Copies(Wake(o))' = Copies(Wake(o))
      /\ \A t \in Workers : Copies(Increment(t))' = Copies(Increment(t))
      /\ \A t \in Workers, v \in Nat \ {0, 1} : Copies(Reply(t, v))' = Copies(Reply(t, v))
      /\ \A o \in Cores : \A x \in Completes(o) : Copies(x)' = Copies(x)
  <2>1. \A o : Wake(o) # m
    BY <1>2, Types
  <2>2. \A t : Increment(t) # m
    BY <1>2, Types
  <2>3. \A t, v : Reply(t, v) # m
    BY <1>2, Types
  <2>4. \A o \in Cores : \A x \in Completes(o) : x # m
    BY <1>2, Types, CompleteTypes
  <2> QED BY <1>3, <2>1, <2>2, <2>3, <2>4
<1>5. BagToSet(net)' \subseteq ByMsgs \union WorkMsgs
  <2> SUFFICES ASSUME NEW x \in BagToSet(net)' PROVE x \in ByMsgs \union WorkMsgs
    OBVIOUS
  <2>1. CASE x = m
    BY <1>1, <1>3, <2>1
  <2>2. CASE x # m
    BY <1>1, <1>3, <2>2
  <2> QED BY <2>1, <2>2
<1>6. /\ Programs' /\ Places' /\ \E ph \in {0, 1} : Phased(ph)'
      /\ Under' /\ Wakes' /\ Calls' /\ Apart' /\ Ordered' /\ Callers' = Callers
      /\ \A o \in Cores : Owing(o)' = Owing(o)
  BY <1>4, <1>5, TasksKeep
<1>7. /\ Cardinality(Busy) \in Nat /\ Cardinality(Callers) \in Nat /\ Copies(m) \in Nat
      /\ cores_out = Cardinality(Busy) - Cardinality(Callers) + Copies(m)
      /\ Cardinality(Busy) >= Cardinality(Callers)
  BY <1>2, WorkFacts, NotBehind DEF AtWork, Reported
<1>8. Base'
  <2>1. cores_out' \in Nat
    BY <1>3, <1>7
  <2>2. Shape'
    BY <1>1, <1>3, <2>1 DEF Shape
  <2>3. Queues'
    BY <1>1 DEF Base, Queues
  <2> QED BY <1>6, <2>2, <2>3 DEF Base
<1>9. Counted'
  <2>1. \A o \in Cores : SentIn(net', o) = SentIn(net, o)
    BY <1>4, SentKeep
  <2> QED BY <1>6, <2>1 DEF AtWork, Counted
<1>10. Reported'
  <2>1. Busy' = Busy
    BY DEF Busy
  <2>2. cores_out' = Cardinality(Busy) - Cardinality(Callers) + Copies(m)'
    BY <1>3, <1>7
  <2> QED BY <1>2, <1>6, <2>1, <2>2 DEF Reported
<1> QED BY <1>6, <1>8, <1>9, <1>10 DEF Inv, AtWork

\* The last core enters the barrier: every core is told to reset.
LEMMA EnterLast ==
    ASSUME Inv, AtWork, Enter \in Arriving, cores_out' = cores_out - 1, cores_out' = 0,
           fatal' = (count[master_core] # 0),
           temporary_waking_cores_out' = NumCores,
           net' = Receive(Enter, {Reset(c, reenroll_count) : c \in Cores}),
           UNCHANGED <<count, event_in_progress, cv, temporary_waking_cv, reenroll_count,
                       completion_msgs, task, recurring>>
    PROVE  Inv'
<1>1. Base /\ Shape /\ FiniteBag(net) /\ count \in [Cores -> Nat] /\ master_core \in Cores
      /\ (\A x : Copies(x) \in Nat /\ (x \in BagToSet(net) <=> Copies(x) > 0))
  BY WorkFacts
<1>2. PICK m \in Arriving : m = Enter
  OBVIOUS
<1>3. Copies(m) > 0
  BY Arrivals
<1>4. /\ Cardinality(Busy) \in Nat /\ Cardinality(Callers) \in Nat /\ Copies(m) \in Nat
      /\ cores_out = Cardinality(Busy) - Cardinality(Callers) + Copies(m)
      /\ Cardinality(Busy) >= Cardinality(Callers)
  BY <1>2, WorkFacts, NotBehind DEF AtWork, Reported
<1>5. cores_out = 1
  BY <1>4
<1>6. Cardinality(Busy) = Cardinality(Callers) /\ Copies(m) = 1
  <2>1. \A b, c, e \in Nat : b >= c /\ e > 0 /\ 1 = b - c + e => b = c /\ e = 1
    OBVIOUS
  <2>2. 1 = Cardinality(Busy) - Cardinality(Callers) + Copies(m)
    BY <1>4, <1>5
  <2> QED BY <1>3, <1>4, <2>1, <2>2
<1>7. \A a \in Workers : ~Active(a)
  <2> SUFFICES ASSUME NEW a \in Workers, Active(a) PROVE FALSE
    OBVIOUS
  <2>1. Cardinality(Busy) >= Cardinality(Callers) + 1
    BY Ahead
  <2> QED BY <1>4, <1>6, <2>1
<1>8. Cardinality(Busy) = 0
  <2>1. Callers = {}
    BY <1>7, ActiveCounts
  <2> QED BY <1>6, <2>1, FS_EmptySet
<1>9. /\ \A c \in Cores : count[c] = 0
      /\ Quiet /\ \A t \in Mains : task[t].pc = "wait"
      /\ \A c \in Cores : Main(c) \in cv[c]
      /\ BagToSet(net) \subseteq ByMsgs \union {Enter}
  BY <1>7, <1>8, NobodyWorks
<1>10. PICK re : re = Again
  OBVIOUS
<1>11. reenroll_count = re /\ Again' = re /\ task[User].pc = "started"
  BY <1>10 DEF AtWork, Under, Again
<1> DEFINE ms == {Reset(c, re) : c \in Cores}
<1>12. IsFiniteSet(ms) /\ m \notin ms /\ net' = Receive(m, ms)
  <2>1. IsFiniteSet(ms)
    BY SentSets
  <2>2. m \notin ms
    BY <1>2, Types
  <2> QED BY <1>2, <1>11, <2>1, <2>2
<1>13. /\ \A c \in Cores : Reset(c, re) \in ms
       /\ \A c : Wake(c) \notin ms /\ Wake(c) # m
       /\ ResetDone(re) \notin ms /\ ResetDone(re) # m
  BY <1>2, Types
<1>14. ms \subseteq ResetMsgs'
  BY <1>11 DEF ResetMsgs
<1>15. \A c \in Cores : Copies(Reset(c, re)) = 0
  <2> TAKE c \in Cores
  <2>1. Reset(c, re) \notin ByMsgs
    BY StageMsgs, Types
  <2>2. Reset(c, re) # Enter
    BY Types
  <2> QED BY <1>1, <1>9, <2>1, <2>2
<1>16. Copies(ResetDone(re)) = 0
  <2>1. ResetDone(re) \notin ByMsgs
    BY StageMsgs, Types
  <2>2. ResetDone(re) # Enter
    BY Types
  <2> QED BY <1>1, <1>9, <2>1, <2>2
<1> HIDE DEF ms
<1>17. /\ FiniteBag(net)' /\ Copies(m) > 0
       /\ \A x : Copies(x)' \in Nat /\ (x \in BagToSet(net)' <=> Copies(x)' > 0)
       /\ \A x : x # m /\ x \notin ms => Copies(x)' = Copies(x)
       /\ Copies(m)' = Copies(m) - 1
       /\ \A x \in ms : Copies(x)' = Copies(x) + 1
  BY <1>1, <1>12, AnswerNew
<1>18. /\ \A c \in Cores : Copies(Wake(c))' = Copies(Wake(c))
       /\ \A c \in Cores : Copies(Reset(c, re))' = 1
       /\ Copies(ResetDone(re))' = 0
  BY <1>13, <1>15, <1>16, <1>17
<1>19. Base'
  <2>1. fatal' = FALSE
    BY <1>1, <1>9
  <2>2. temporary_waking_cores_out' \in 0 .. NumCores
    BY Names
  <2>3. cores_out' \in Nat
    OBVIOUS
  <2>4. Shape'
    BY <1>1, <1>17, <2>1, <2>2, <2>3 DEF Shape
  <2>5. Programs' /\ Places' /\ Queues'
    BY <1>1 DEF Base, Programs, Places, Queues, Origin
  <2>6. \A ph \in {0, 1} : Phased(ph) => Phased(ph)'
    BY <1>18 DEF Phased
  <2> QED BY <1>1, <2>4, <2>5, <2>6 DEF Base
<1>20. BagToSet(net)' \subseteq ByMsgs \union ResetMsgs'
  <2> SUFFICES ASSUME NEW x \in BagToSet(net)' PROVE x \in ByMsgs \union ResetMsgs'
    OBVIOUS
  <2>1. Copies(x)' > 0
    BY <1>17
  <2>2. CASE x \in ms
    BY <1>14, <2>2
  <2>3. CASE x = m
    BY <1>6, <1>17, <2>1, <2>3
  <2>4. CASE x # m /\ x \notin ms
    <3>1. Copies(x) > 0
      BY <1>17, <2>1, <2>4
    <3> QED BY <1>1, <1>2, <1>9, <2>4, <3>1
  <2> QED BY <2>2, <2>3, <2>4
<1>21. ToReset' = Cores
  BY <1>11, <1>18 DEF ToReset
<1>22. /\ Copies(ResetDone(Again))' = 0
       /\ \A c \in Cores : Copies(Reset(c, Again))' = 1
  BY <1>11, <1>18
<1>23. Resetting'
  <2>1. Quiet'
    BY <1>9 DEF Quiet
  <2>2. /\ temporary_waking_cores_out' >= 1
        /\ temporary_waking_cores_out' = Cardinality(ToReset') + Copies(ResetDone(Again))'
    BY <1>21, <1>22, Finite, Names
  <2>3. \A c \in Cores : Copies(Reset(c, Again))' <= 1
    BY <1>22
  <2>4. reenroll_count' \in {0, Again'}
    BY <1>11
  <2> QED BY <1>1, <1>9, <1>11, <1>20, <1>21, <2>1, <2>2, <2>3, <2>4 DEF Resetting
<1> QED BY <1>19, <1>23 DEF Inv

\* A task completes: its completion is counted here, merged or queued.
LEMMA CompletionSent ==
    ASSUME Inv, AtWork, NEW c \in Cores, NEW o \in Cores, NEW t \in Workers, Active(t), Tgt(t) = o,
           send_completion(c, o, 1, {}), cores_out' = cores_out
    PROVE  /\ FiniteBag(net)' /\ count' \in [Cores -> Nat]
           /\ completion_msgs' \in [Cores -> [Cores -> Queue]] /\ Queues' /\ fatal' = FALSE
           /\ BagToSet(net)' \subseteq ByMsgs \union WorkMsgs
           /\ \A x : x # Enter => Copies(x)' = Copies(x)
           /\ (\A d \in Cores : Owing(d)' = Owing(d) \ {t}) => Counted'
           /\ Callers' = Callers => Reported'
<1>1. Base /\ Shape /\ FiniteBag(net) /\ count \in [Cores -> Nat]
      /\ completion_msgs \in [Cores -> [Cores -> Queue]] /\ fatal = FALSE
      /\ (\A x : Copies(x) \in Nat /\ (x \in BagToSet(net) <=> Copies(x) > 0))
      /\ (\A x : Copies(x) > 0 => x \in ByMsgs \union WorkMsgs)
      /\ Cardinality(Busy) \in Nat /\ Cardinality(Callers) \in Nat
  BY WorkFacts DEF Shape
<1>2. \A d \in Cores :
         /\ count[d] = Cardinality(Owing(d)) + MergedIn(completion_msgs, d) + SentIn(net, d)
         /\ Cardinality(Owing(d)) \in Nat /\ IsFiniteSet(Owing(d))
         /\ MergedIn(completion_msgs, d) \in Nat /\ SentIn(net, d) \in Nat
  BY WorkFacts DEF AtWork, Counted
<1>3. t \in Owing(o) /\ \A d \in Cores : d # o => t \notin Owing(d)
  BY DEF Owing
<1>4. /\ Cardinality(Owing(o) \ {t}) = Cardinality(Owing(o)) - 1
      /\ \A d \in Cores : d # o => Owing(d) \ {t} = Owing(d)
  <2>1. \A d \in Cores : d # o => Owing(d) \ {t} = Owing(d)
    BY <1>3
  <2> QED BY <1>2, <1>3, <2>1, FS_RemoveElement
<1>5. Enter \in WorkMsgs /\ \A d : \A x \in Completes(d) : x # Enter
  BY Types, CompleteTypes DEF WorkMsgs
<1>6. cores_out = Cardinality(Busy) - Cardinality(Callers) + Copies(Enter)
  BY DEF AtWork, Reported
<1> DEFINE Goal == /\ FiniteBag(net)' /\ count' \in [Cores -> Nat]
                   /\ completion_msgs' \in [Cores -> [Cores -> Queue]] /\ Queues' /\ fatal' = FALSE
                   /\ \A x : Copies(x)' \in Nat /\ (x \in BagToSet(net)' <=> Copies(x)' > 0)
                   /\ \A x : x # Enter => Copies(x)' = Copies(x)
                   /\ \A d \in Cores :
                         count'[d] = Cardinality(Owing(d) \ {t}) + MergedIn(completion_msgs', d)
                                     + SentIn(net', d)
                   /\ cores_out = Cardinality(Busy)' - Cardinality(Callers) + Copies(Enter)'
<1>7. ASSUME o = c, count' = [count EXCEPT ![c] = @ - 1],
             net' = Send(Entering(c, 1) \union {}), UNCHANGED <<completion_msgs, fatal>>
      PROVE  Goal
  <2>1. 1 <= count[c] /\ 1 \in Nat \ {0}
    <3>1. count[o] > 0 /\ count[o] \in Nat
      BY <1>1, ActiveCounts
    <3> QED BY <1>7, <3>1
  <2>2. /\ count' \in [Cores -> Nat] /\ count'[c] = count[c] - 1
        /\ \A d \in Cores : d # c => count'[d] = count[d]
        /\ count[c] = 1 => Cardinality(Busy)' = Cardinality(Busy) - 1
        /\ count[c] # 1 => Cardinality(Busy)' = Cardinality(Busy)
    BY <1>1, <1>7, <2>1, CountDown
  <2>3. /\ count[c] = 1 => Entering(c, 1) = {Enter}
        /\ count[c] # 1 => Entering(c, 1) = {}
    BY DEF Entering
  <2>4. IsFiniteSet(Entering(c, 1)) /\ net' = Send(Entering(c, 1))
    <3>1. Entering(c, 1) \union {} = Entering(c, 1)
      OBVIOUS
    <3>2. net' = Send(Entering(c, 1))
      BY <1>7, <3>1
    <3> QED BY <2>3, <3>2, FS_Singleton, FS_EmptySet
  <2>5. /\ FiniteBag(net)'
        /\ \A x : Copies(x)' \in Nat /\ (x \in BagToSet(net)' <=> Copies(x)' > 0)
        /\ \A x : x \notin Entering(c, 1) => Copies(x)' = Copies(x)
        /\ \A x \in Entering(c, 1) : Copies(x)' = Copies(x) + 1
    BY <1>1, <2>4, SendNew
  <2>6. \A x : x # Enter => Copies(x)' = Copies(x)
    BY <2>3, <2>5
  <2>7. cores_out = Cardinality(Busy)' - Cardinality(Callers) + Copies(Enter)'
    <3>1. CASE count[c] = 1
      <4>1. Cardinality(Busy)' = Cardinality(Busy) - 1 /\ Copies(Enter)' = Copies(Enter) + 1
        BY <2>2, <2>3, <2>5, <3>1
      <4>2. Copies(Enter) \in Nat
        BY <1>1
      <4> QED BY <1>1, <1>6, <4>1, <4>2
    <3>2. CASE count[c] # 1
      <4>1. Cardinality(Busy)' = Cardinality(Busy) /\ Copies(Enter)' = Copies(Enter)
        BY <2>2, <2>3, <2>5, <3>2
      <4> QED BY <1>6, <4>1
    <3> QED BY <3>1, <3>2
  <2>8. \A d \in Cores :
           count'[d] = Cardinality(Owing(d) \ {t}) + MergedIn(completion_msgs', d) + SentIn(net', d)
    <3> TAKE d \in Cores
    <3>1. SentIn(net', d) = SentIn(net, d)
      BY <1>5, <2>6, SentKeep
    <3>2. MergedIn(completion_msgs', d) = MergedIn(completion_msgs, d)
      BY <1>7
    <3>3. CASE d = o
      BY <1>2, <1>4, <1>7, <2>2, <3>1, <3>2, <3>3
    <3>4. CASE d # o
      BY <1>2, <1>4, <1>7, <2>2, <3>1, <3>2, <3>4
    <3> QED BY <3>3, <3>4
  <2>9. completion_msgs' \in [Cores -> [Cores -> Queue]] /\ Queues' /\ fatal' = FALSE
    BY <1>1, <1>7 DEF Base, Queues
  <2> QED BY <2>2, <2>5, <2>6, <2>7, <2>8, <2>9
<1>8. ASSUME NEW q \in Queue, o # c,
             completion_msgs' = [completion_msgs EXCEPT ![c][o] = q],
             Waiting(q) = Waiting(completion_msgs[c][o]) + 1,
             q.queued, q.dec >= 1, net' = Send({}), count' = count, fatal' = FALSE
      PROVE  Goal
  <2>1. /\ completion_msgs' \in [Cores -> [Cores -> Queue]]
        /\ completion_msgs'[c][o] = q
        /\ \A d, e \in Cores : d # c \/ e # o => completion_msgs'[d][e] = completion_msgs[d][e]
    BY <1>1, <1>8
  <2>2. PICK b \in [Cores -> [Cores -> Queue]] : b = completion_msgs'
    BY <2>1
  <2>3. \A d, e \in Cores : d # c \/ e # o => b[d][e] = completion_msgs[d][e]
    BY <2>1, <2>2
  <2>4. /\ \A d \in Cores : d # o => MergedIn(b, d) = MergedIn(completion_msgs, d)
        /\ MergedIn(b, o) = MergedIn(completion_msgs, o) + Waiting(b[c][o]) - Waiting(completion_msgs[c][o])
    <3>1. PICK a \in [Cores -> [Cores -> Queue]] : a = completion_msgs
      BY <1>1
    <3>2. \A d, e \in Cores : d # c \/ e # o => b[d][e] = a[d][e]
      BY <2>3, <3>1
    <3>3. /\ \A d \in Cores : d # o => MergedIn(b, d) = MergedIn(a, d)
          /\ MergedIn(b, o) = MergedIn(a, o) + Waiting(b[c][o]) - Waiting(a[c][o])
      BY <3>2, MergedStep
    <3> QED BY <3>1, <3>3
  <2>5. Waiting(b[c][o]) = Waiting(completion_msgs[c][o]) + 1 /\ Waiting(completion_msgs[c][o]) \in Nat
    BY <1>1, <1>8, <2>1, <2>2, MergedFacts
  <2>6. MergedIn(completion_msgs', o) = MergedIn(completion_msgs, o) + 1
    <3>1. MergedIn(completion_msgs, o) \in Nat
      BY <1>2
    <3>2. MergedIn(b, o) = MergedIn(completion_msgs, o) + 1
      BY <2>4, <2>5, <3>1
    <3> QED BY <2>2, <3>2
  <2>7. /\ FiniteBag(net)'
        /\ \A x : Copies(x)' \in Nat /\ (x \in BagToSet(net)' <=> Copies(x)' > 0)
        /\ \A x : Copies(x)' = Copies(x)
    <3>1. IsFiniteSet({})
      BY FS_EmptySet
    <3>2. /\ FiniteBag(net)'
          /\ \A x : Copies(x)' \in Nat /\ (x \in BagToSet(net)' <=> Copies(x)' > 0)
          /\ \A x : x \notin {} => Copies(x)' = Copies(x)
      BY <1>1, <1>8, <3>1, SendNew
    <3> QED BY <3>2
  <2>8. \A d \in Cores :
           count'[d] = Cardinality(Owing(d) \ {t}) + MergedIn(completion_msgs', d) + SentIn(net', d)
    <3> TAKE d \in Cores
    <3>1. SentIn(net', d) = SentIn(net, d)
      BY <2>7, SentKeep
    <3>2. CASE d = o
      BY <1>2, <1>4, <1>8, <2>6, <3>1, <3>2
    <3>3. CASE d # o
      <4>1. MergedIn(completion_msgs', d) = MergedIn(completion_msgs, d)
        BY <2>2, <2>4, <3>3
      <4> QED BY <1>2, <1>4, <1>8, <3>1, <3>3, <4>1
    <3> QED BY <3>2, <3>3
  <2>9. Queues'
    <3>1. \A d, e \in Cores :
             /\ completion_msgs[d][e].queued => completion_msgs[d][e].dec >= 1
             /\ ~completion_msgs[d][e].queued => completion_msgs[d][e].completes_to_send = 0
      BY <1>1 DEF Base, Queues
    <3>2. \A d, e \in Cores :
             /\ completion_msgs'[d][e].queued => completion_msgs'[d][e].dec >= 1
             /\ ~completion_msgs'[d][e].queued => completion_msgs'[d][e].completes_to_send = 0
      BY <1>8, <2>1, <3>1
    <3> QED BY <3>2 DEF Queues
  <2>10. cores_out = Cardinality(Busy)' - Cardinality(Callers) + Copies(Enter)'
    <3>1. Busy' = Busy /\ Copies(Enter)' = Copies(Enter)
      BY <1>8, <2>7 DEF Busy
    <3> QED BY <1>6, <3>1
  <2>11. count' \in [Cores -> Nat]
    BY <1>1, <1>8
  <2> QED BY <1>8, <2>1, <2>7, <2>8, <2>9, <2>10, <2>11
<1>9. PICK cm \in Queue : cm = completion_msgs[c][o]
  BY <1>1
<1>10. cm.dec \in Nat /\ cm.completes_to_send \in Nat /\ cm.queued \in BOOLEAN
  BY DEF Queue
<1>11. (cm.queued => cm.dec >= 1) /\ (~cm.queued => cm.completes_to_send = 0)
  BY <1>1, <1>9 DEF Base, Queues
<1>12. ASSUME o # c, cm.queued,
              completion_msgs' = [completion_msgs EXCEPT ![c][o].completes_to_send = @ + 1],
              net' = Send({}), UNCHANGED <<count, fatal>>
       PROVE  Goal
  <2> DEFINE q == [cm EXCEPT !.completes_to_send = @ + 1]
  <2>1. q \in Queue /\ (q.queued <=> cm.queued) /\ q.dec = cm.dec
        /\ q.completes_to_send = cm.completes_to_send + 1
    BY <1>10 DEF Queue
  <2>2. completion_msgs' = [completion_msgs EXCEPT ![c][o] = q]
    BY <1>1, <1>9, <1>12
  <2> HIDE DEF q
  <2>3. Waiting(q) = Waiting(cm) + 1
    BY <1>10, <1>12, <2>1 DEF Waiting
  <2>4. /\ Waiting(q) = Waiting(completion_msgs[c][o]) + 1 /\ q.queued /\ q.dec >= 1
        /\ count' = count /\ fatal' = FALSE
    BY <1>1, <1>9, <1>11, <1>12, <2>1, <2>3
  <2> HIDE DEF Goal
  <2> QED BY <1>8, <1>12, <2>1, <2>2, <2>4
<1>13. ASSUME o # c, ~cm.queued,
              completion_msgs' = [completion_msgs EXCEPT ![c][o].queued = TRUE, ![c][o].dec = 1],
              fatal' = (cm.completes_to_send # 0), net' = Send({}), UNCHANGED count
       PROVE  Goal
  <2> DEFINE q == [cm EXCEPT !.queued = TRUE, !.dec = 1]
  <2>1. q \in Queue /\ q.queued = TRUE /\ q.dec = 1 /\ q.completes_to_send = cm.completes_to_send
    BY <1>10 DEF Queue
  <2>2. completion_msgs' = [completion_msgs EXCEPT ![c][o] = q]
    BY <1>1, <1>9, <1>13
  <2> HIDE DEF q
  <2>3. Waiting(q) = Waiting(cm) + 1
    BY <1>10, <1>11, <1>13, <2>1 DEF Waiting
  <2>4. /\ Waiting(q) = Waiting(completion_msgs[c][o]) + 1 /\ q.queued /\ q.dec >= 1
        /\ count' = count /\ fatal' = FALSE
    <3>1. cm.completes_to_send = 0 /\ fatal' = (cm.completes_to_send # 0)
      BY <1>11, <1>13
    <3>2. fatal' = FALSE
      BY <3>1
    <3>3. Waiting(q) = Waiting(completion_msgs[c][o]) + 1
      BY <1>9, <2>3
    <3>4. q.queued /\ q.dec >= 1
      BY <2>1
    <3> QED BY <1>13, <3>2, <3>3, <3>4
  <2> HIDE DEF Goal
  <2> QED BY <1>8, <1>13, <2>1, <2>2, <2>4
<1> HIDE DEF Goal
<1>14. Goal
  BY <1>7, <1>9, <1>12, <1>13 DEF send_completion
<1>15. BagToSet(net)' \subseteq ByMsgs \union WorkMsgs
  <2> SUFFICES ASSUME NEW x \in BagToSet(net)' PROVE x \in ByMsgs \union WorkMsgs
    OBVIOUS
  <2>1. CASE x = Enter
    BY <1>5, <2>1
  <2>2. CASE x # Enter
    BY <1>1, <1>14, <2>2 DEF Goal
  <2> QED BY <2>1, <2>2
<1>16. (\A d \in Cores : Owing(d)' = Owing(d) \ {t}) => Counted'
  BY <1>14 DEF Goal, Counted
<1>17. Callers' = Callers => Reported'
  BY <1>14 DEF Goal, Reported
<1> QED BY <1>14, <1>15, <1>16, <1>17 DEF Goal

\* A task completes, and ends or waits.
LEMMA Departs ==
    ASSUME Inv, AtWork, NEW t \in Workers, task[t].pc = "run", NEW c \in Cores, NEW o \in Cores,
           Tgt(t) = o, send_completion(c, o, 1, {}),
           task' \in [Tasks -> TaskType], \A u \in Tasks : u # t => task'[u] = task[u],
           t \in Kids => task'[t].pc = "idle",
           t \in Mains => /\ task'[t].pc = "wait" /\ task'[t].core = task[t].core
                          /\ task'[t].phase = task[t].phase /\ t \in cv'[task[t].core],
           cv' \in [Cores -> SUBSET Tasks],
           \A d \in Cores : cv[d] \subseteq cv'[d] /\ cv'[d] \subseteq {Main(d), Bystander},
           UNCHANGED <<event_in_progress, temporary_waking_cv, cores_out,
                       temporary_waking_cores_out, reenroll_count, recurring>>
    PROVE  Inv'
<1>1. Base /\ Shape /\ FiniteBag(net) /\ task \in [Tasks -> TaskType]
      /\ (\A x : Copies(x) \in Nat /\ (x \in BagToSet(net) <=> Copies(x) > 0))
      /\ Mains \subseteq Workers /\ Kids \subseteq Workers /\ Workers \subseteq Tasks
      /\ User \in Tasks /\ Bystander \in Tasks /\ User # t /\ Bystander # t
      /\ \A d \in Cores : Main(d) \in Mains
  BY WorkFacts, Names
<1>2. Active(t)
  BY ActiveCounts
<1>3. /\ FiniteBag(net)' /\ count' \in [Cores -> Nat]
      /\ completion_msgs' \in [Cores -> [Cores -> Queue]] /\ Queues' /\ fatal' = FALSE
      /\ BagToSet(net)' \subseteq ByMsgs \union WorkMsgs
      /\ \A x : x # Enter => Copies(x)' = Copies(x)
      /\ (\A d \in Cores : Owing(d)' = Owing(d) \ {t}) => Counted'
      /\ Callers' = Callers => Reported'
  BY <1>2, CompletionSent
<1>4. /\ \A d \in Cores : Copies(Wake(d))' = Copies(Wake(d))
      /\ \A u \in Workers : Copies(Increment(u))' = Copies(Increment(u))
      /\ \A u \in Workers, v \in Nat \ {0, 1} : Copies(Reply(u, v))' = Copies(Reply(u, v))
  <2>1. \A d : Wake(d) # Enter
    BY Types
  <2>2. \A u : Increment(u) # Enter
    BY Types
  <2>3. \A u, v : Reply(u, v) # Enter
    BY Types
  <2> QED BY <1>3, <2>1, <2>2, <2>3
<1>5. \A u \in Workers : u # t => task'[u] = task[u]
  BY <1>1
<1>6. task'[User] = task[User] /\ task'[Bystander] = task[Bystander]
  BY <1>1
<1>7. Base' /\ Origin' = Origin
  <2>1. Shape'
    BY <1>1, <1>3 DEF Shape, Queue
  <2>2. \A u \in Mains : /\ task'[u].core = task[u].core /\ task'[u].phase = task[u].phase
                         /\ task'[u].pc \in {"run", "call", "wait"}
    BY <1>1, <1>5 DEF AtWork, Under
  <2>3. \A k \in Kids : task'[k].pc \in {"idle", "new", "run", "call"}
    BY <1>1, <1>5 DEF Base, Programs
  <2>4. \A k \in Kids : task'[k].pc # "idle" => task[k].pc # "idle" /\ task'[k].phase = task[k].phase
    BY <1>1, <1>5
  <2>5. \A d \in Cores : cv'[d] \subseteq {Main(d), Bystander}
    OBVIOUS
  <2>6. Programs' /\ Places' /\ Origin' = Origin /\ \E ph \in {0, 1} : Phased(ph)'
    BY <1>4, <1>6, <2>2, <2>3, <2>4, <2>5, WorkPlaces
  <2> QED BY <1>3, <2>1, <2>6 DEF Base
<1>8. Under'
  <2>1. \A u \in Mains : task'[u].pc \in {"run", "call", "wait"}
    BY <1>1, <1>5 DEF AtWork, Under
  <2> QED BY <1>3, <1>6, <2>1 DEF AtWork, Under, Again
<1>9. \A d \in Cores : Main(d) = t => Copies(Wake(d)) = 0 /\ task[t].core = d
  <2> SUFFICES ASSUME NEW d \in Cores, Main(d) = t
               PROVE  Copies(Wake(d)) = 0 /\ task[t].core = d
    OBVIOUS
  <2>1. ~(Copies(Wake(d)) > 0) /\ Copies(Wake(d)) \in Nat
    BY <1>1 DEF AtWork, Wakes
  <2>2. task[t].core = d
    BY <1>1 DEF Base, Places
  <2> QED BY <2>1, <2>2
<1>10. Wakes'
  <2> SUFFICES ASSUME NEW d \in Cores
               PROVE  (/\ Copies(Wake(d)) <= 1
                       /\ Copies(Wake(d)) > 0 =>
                             recurring /\ task[Main(d)].pc = "wait" /\ Main(d) \in temporary_waking_cv[d]
                       /\ task[Main(d)].pc = "wait" /\ Copies(Wake(d)) = 0 => Main(d) \in cv[d])'
    BY DEF Wakes
  <2>1. CASE Main(d) = t
    <3>1. Copies(Wake(d))' = 0 /\ task[t].core = d /\ t \in Mains
      BY <1>1, <1>4, <1>9, <2>1
    <3> QED BY <2>1, <3>1
  <2>2. CASE Main(d) # t
    <3>1. task'[Main(d)] = task[Main(d)] /\ Copies(Wake(d))' = Copies(Wake(d))
      BY <1>1, <1>4, <1>5, <2>2
    <3> QED BY <3>1 DEF AtWork, Wakes
  <2> QED BY <2>1, <2>2
<1>11. Calls' /\ Apart' /\ Ordered' /\ Callers' = Callers
  <2>1. \A u \in Workers : task[u].pc = "call" => task'[u] = task[u]
    BY <1>5
  <2>2. \A u \in Workers : task[u].pc # "call" => task'[u].pc # "call"
    BY <1>5 DEF Workers
  <2>3. \A k \in Kids : task[k].pc = "new" => task'[k] = task[k]
    BY <1>1, <1>5
  <2> QED BY <1>4, <1>7, <2>1, <2>2, <2>3, CallsKeep
<1>12. \A d \in Cores : Owing(d)' = Owing(d) \ {t}
  <2>1. ~Active(t)'
    <3>1. CASE t \in Kids
      BY <3>1 DEF Active
    <3>2. CASE t \in Mains
      <4>1. PICK d \in Cores : Main(d) = t
        BY <3>2, Names
      <4>2. Copies(Wake(d))' = 0 /\ task'[t].core = d /\ t \notin Kids
        BY <1>4, <1>9, <3>2, <4>1, Names
      <4> QED BY <3>2, <4>2 DEF Active
    <3> QED BY <3>1, <3>2 DEF Workers
  <2>2. \A u \in Workers : u # t => (Active(u)' <=> Active(u)) /\ Tgt(u)' = Tgt(u)
    BY <1>4, <1>5, <1>7, WorkActive
  <2> QED BY <2>1, <2>2 DEF Owing
<1> QED BY <1>3, <1>7, <1>8, <1>10, <1>11, <1>12 DEF Inv, AtWork

\* A task runs only at work.
LEMMA RunsAtWork ==
    ASSUME Inv, NEW t \in Workers, task[t].pc = "run"
    PROVE  AtWork
<1>1. t \in Mains \/ t \in Kids
  BY DEF Workers
<1>2. \A u \in Mains : \E c \in Cores : u = Main(c)
  BY Names
<1> QED BY <1>1, <1>2 DEF Inv, Resting, Starting, Resetting, Waking, Quiet

\* A spawned task ends.
LEMMA FinishInv ==
    ASSUME Dec = 1, Inv, NEW k \in Kids, Finish(k)
    PROVE  Inv'
<1>1. task[k].pc = "run" /\ k \in Workers /\ k \notin Mains
  BY Names DEF Finish, Runs, Workers
<1>2. AtWork
  BY <1>1, RunsAtWork
<1>3. /\ task \in [Tasks -> TaskType] /\ k \in Tasks /\ task[k].core \in Cores /\ task[k].target \in Cores
      /\ Base /\ Shape
  BY <1>1, <1>2, WorkFacts
<1>4. Idle(0) \in TaskType /\ Idle(0).pc = "idle"
  BY Names DEF Idle, TaskType, PCs, Cores, master_core, Named, AckCounts, Phases
<1>5. task' \in [Tasks -> TaskType] /\ (\A u \in Tasks : u # k => task'[u] = task[u]) /\ task'[k].pc = "idle"
  BY <1>3, <1>4 DEF Finish
<1>6. Tgt(k) = task[k].target
  BY DEF Tgt
<1>7. send_completion(task[k].core, task[k].target, 1, {})
  BY DEF Finish
<1>8. /\ cv' \in [Cores -> SUBSET Tasks]
      /\ \A d \in Cores : cv[d] \subseteq cv'[d] /\ cv'[d] \subseteq {Main(d), Bystander}
  BY <1>3 DEF Finish, Base, Shape, Places
<1>9. UNCHANGED <<event_in_progress, temporary_waking_cv, cores_out,
                  temporary_waking_cores_out, reenroll_count, recurring>>
  BY DEF Finish
<1> QED BY <1>1, <1>2, <1>3, <1>5, <1>6, <1>7, <1>8, <1>9, Departs

\* A task of the loop completes and waits.
LEMMA CompleteAndWaitInv ==
    ASSUME Inv, NEW t \in Mains, CompleteAndWait(t)
    PROVE  Inv'
<1>1. task[t].pc = "run" /\ t \in Workers /\ t \notin Kids
  BY Names DEF CompleteAndWait, Runs, Workers
<1>2. AtWork
  BY <1>1, RunsAtWork
<1>3. /\ task \in [Tasks -> TaskType] /\ t \in Tasks /\ task[t].core \in Cores /\ Origin \in Cores
      /\ Base /\ Shape
  BY <1>1, <1>2, WorkFacts
<1>4. PICK c \in Cores : c = task[t].core /\ t = Main(c)
  <2>1. PICK c \in Cores : t = Main(c)
    BY Names
  <2> QED BY <1>3, <2>1 DEF Base, Places
<1>5. event_in_progress[c] = TRUE
  BY <1>2 DEF AtWork, Under
<1>6. /\ cv' = [cv EXCEPT ![c] = @ \union {t}]
      /\ task' = [task EXCEPT ![t].pc = "wait"]
  BY <1>4, <1>5 DEF CompleteAndWait, wait
<1>7. send_completion(c, Origin, 1, {})
  <2>1. WaitSends(t, c) = {}
    BY <1>5 DEF WaitSends
  <2> QED BY <1>4, <2>1 DEF CompleteAndWait, Origin
<1>8. /\ task' \in [Tasks -> TaskType] /\ \A u \in Tasks : u # t => task'[u] = task[u]
      /\ task'[t].pc = "wait" /\ task'[t].core = task[t].core /\ task'[t].phase = task[t].phase
  <2>1. PICK r \in TaskType : r = task[t]
    BY <1>3
  <2>2. "wait" \in PCs
    BY DEF PCs
  <2>3. task'[t] = [r EXCEPT !.pc = "wait"]
    BY <1>3, <1>6, <2>1
  <2>4. LET q == [r EXCEPT !.pc = "wait"]
        IN  q \in TaskType /\ q.pc = "wait" /\ q.core = r.core /\ q.phase = r.phase
    BY <2>2 DEF TaskType
  <2>5. task'[t] \in TaskType
    BY <2>3, <2>4
  <2>6. task' \in [Tasks -> TaskType] /\ \A u \in Tasks : u # t => task'[u] = task[u]
    BY <1>3, <1>6, <2>5
  <2> QED BY <2>1, <2>3, <2>4, <2>6
<1>9. Tgt(t) = Origin
  BY <1>1 DEF Tgt
<1>10. /\ cv' \in [Cores -> SUBSET Tasks]
       /\ \A d \in Cores : cv[d] \subseteq cv'[d] /\ cv'[d] \subseteq {Main(d), Bystander}
       /\ t \in cv'[task[t].core]
  <2>1. cv \in [Cores -> SUBSET Tasks] /\ \A d \in Cores : cv[d] \subseteq {Main(d), Bystander}
    BY <1>3 DEF Base, Shape, Places
  <2>2. cv' \in [Cores -> SUBSET Tasks] /\ cv'[c] = cv[c] \union {t}
        /\ \A d \in Cores : d # c => cv'[d] = cv[d]
    BY <1>3, <1>6, <2>1
  <2> QED BY <1>4, <2>1, <2>2
<1>11. UNCHANGED <<event_in_progress, temporary_waking_cv, cores_out,
                   temporary_waking_cores_out, reenroll_count, recurring>>
  BY DEF CompleteAndWait
<1> QED BY <1>1, <1>2, <1>3, <1>4, <1>7, <1>8, <1>9, <1>10, <1>11, Departs

\* A core enrolls one task: it has work.
LEMMA CountUp ==
    ASSUME count \in [Cores -> Nat], NEW c \in Cores, count' = [count EXCEPT ![c] = @ + 1]
    PROVE  /\ count' \in [Cores -> Nat] /\ count'[c] = count[c] + 1
           /\ \A o \in Cores : o # c => count'[o] = count[o]
           /\ count[c] = 0 => Cardinality(Busy)' = Cardinality(Busy) + 1
           /\ count[c] # 0 => Cardinality(Busy)' = Cardinality(Busy)
<1>1. /\ count' \in [Cores -> Nat] /\ count'[c] = count[c] + 1 /\ count[c] \in Nat
      /\ \A o \in Cores : o # c => count'[o] = count[o]
  OBVIOUS
<1>2. IsFiniteSet(Busy) /\ Busy' = Busy \union {c}
  <2>1. count'[c] # 0
    BY <1>1
  <2> QED BY <1>1, <2>1, Finite, FS_Subset DEF Busy
<1>3. ASSUME count[c] = 0 PROVE Cardinality(Busy)' = Cardinality(Busy) + 1
  <2>1. c \notin Busy
    BY <1>3 DEF Busy
  <2> QED BY <1>2, <2>1, FS_AddElement
<1>4. ASSUME count[c] # 0 PROVE Cardinality(Busy)' = Cardinality(Busy)
  <2>1. c \in Busy
    BY <1>4 DEF Busy
  <2>2. Busy' = Busy
    BY <1>2, <2>1
  <2> QED BY <2>2
<1> QED BY <1>1, <1>3, <1>4

\* Task t enrolls child k on its core c: what holds wherever t goes on.
LEMMA Spawned ==
    ASSUME Inv, AtWork, NEW t \in Workers, task[t].pc = "run", NEW k \in Kids, task[k].pc = "idle",
           k # t, NEW c \in Cores, c = task[t].core,
           task' \in [Tasks -> TaskType],
           task'[t].pc \in {"run", "call"}, task'[t].core = c, task'[t].target = task[t].target,
           task'[t].phase = task[t].phase,
           task'[k].pc \in {"run", "new"}, task'[k].target = c, task'[k].phase = task[t].phase,
           \A u \in Tasks : u # t /\ u # k => task'[u] = task[u],
           count' = [count EXCEPT ![c] = @ + 1], cores_out' \in Nat,
           FiniteBag(net)', BagToSet(net)' \subseteq ByMsgs \union WorkMsgs,
           \A o \in Cores : Copies(Wake(o))' = Copies(Wake(o)),
           \A o \in Cores : \A x \in Completes(o) : Copies(x)' = Copies(x),
           UNCHANGED <<event_in_progress, cv, temporary_waking_cv, temporary_waking_cores_out,
                       reenroll_count, completion_msgs, recurring, fatal>>
    PROVE  /\ Base' /\ Origin' = Origin /\ Under' /\ Wakes' /\ Counted'
           /\ count[c] = 0 => Cardinality(Busy)' = Cardinality(Busy) + 1
           /\ count[c] # 0 => Cardinality(Busy)' = Cardinality(Busy)
<1>1. Base /\ Shape /\ task \in [Tasks -> TaskType] /\ count \in [Cores -> Nat]
      /\ (\A x : Copies(x) \in Nat /\ (x \in BagToSet(net) <=> Copies(x) > 0))
      /\ Mains \subseteq Workers /\ Kids \subseteq Workers /\ Workers \subseteq Tasks
      /\ User \in Tasks /\ Bystander \in Tasks /\ User # t /\ Bystander # t
      /\ User # k /\ Bystander # k /\ k \notin Mains
      /\ \A d \in Cores : Main(d) \in Mains
  BY WorkFacts, Names
<1>2. /\ count' \in [Cores -> Nat] /\ count'[c] = count[c] + 1
      /\ \A o \in Cores : o # c => count'[o] = count[o]
      /\ count[c] = 0 => Cardinality(Busy)' = Cardinality(Busy) + 1
      /\ count[c] # 0 => Cardinality(Busy)' = Cardinality(Busy)
  BY <1>1, CountUp
<1>3. \A u \in Workers : u = t \/ u = k \/ task'[u] = task[u]
  BY <1>1
<1>4. task'[User] = task[User] /\ task'[Bystander] = task[Bystander]
  BY <1>1
<1>5. \A u \in Mains : /\ task'[u].core = task[u].core /\ task'[u].phase = task[u].phase
                       /\ task'[u].pc \in {"run", "call", "wait"}
  BY <1>1, <1>3 DEF AtWork, Under
<1>6. Base' /\ Origin' = Origin
  <2>1. Shape'
    BY <1>1, <1>2 DEF Shape
  <2>2. \A u \in Kids : task'[u].pc \in {"idle", "new", "run", "call"}
    BY <1>1, <1>3 DEF Base, Programs
  <2>3. \A u \in Kids : task'[u].pc # "idle" =>
              \/ task[u].pc # "idle" /\ task'[u].phase = task[u].phase
              \/ \E w \in Workers : task[w].pc = "run" /\ task'[u].phase = task[w].phase
    BY <1>1, <1>3
  <2>4. \A d \in Cores : cv'[d] \subseteq {Main(d), Bystander}
    BY <1>1 DEF Base, Places
  <2>5. Programs' /\ Places' /\ Origin' = Origin /\ \E ph \in {0, 1} : Phased(ph)'
    BY <1>4, <1>5, <2>2, <2>3, <2>4, WorkPlaces
  <2>6. Queues'
    BY <1>1 DEF Base, Queues
  <2> QED BY <2>1, <2>5, <2>6 DEF Base
<1>7. Under'
  BY <1>4, <1>5 DEF AtWork, Under, Again
<1>8. Wakes'
  <2>1. \A d \in Cores : task'[Main(d)].pc = "wait" <=> task[Main(d)].pc = "wait"
    <3>1. \A d \in Cores : Main(d) \in Workers /\ Main(d) # k
      BY <1>1
    <3> QED BY <1>3, <3>1
  <2> QED BY <2>1 DEF AtWork, Wakes
<1>9. /\ k \notin Owing(c) /\ Owing(c)' = Owing(c) \union {k}
      /\ \A d \in Cores : d # c => Owing(d)' = Owing(d)
  <2>1. ~Active(k) /\ Active(k)' /\ Tgt(k)' = c
    BY DEF Active, Tgt
  <2>2. ASSUME NEW u \in Workers, u # k PROVE (Active(u)' <=> Active(u)) /\ Tgt(u)' = Tgt(u)
    <3>1. \/ task'[u] = task[u]
          \/ /\ task[u].pc \in {"run", "call", "new"} /\ task'[u].pc \in {"run", "call", "new"}
             /\ task'[u].target = task[u].target
      BY <1>3, <2>2
    <3> QED BY <1>6, <3>1, WorkActive
  <2> QED BY <1>1, <2>1, <2>2 DEF Owing
<1>10. Counted'
  <2> SUFFICES ASSUME NEW o \in Cores
               PROVE  count'[o] = Cardinality(Owing(o))' + MergedIn(completion_msgs', o) + SentIn(net', o)
    BY DEF Counted
  <2>1. /\ count[o] = Cardinality(Owing(o)) + MergedIn(completion_msgs, o) + SentIn(net, o)
        /\ Cardinality(Owing(o)) \in Nat /\ MergedIn(completion_msgs, o) \in Nat /\ SentIn(net, o) \in Nat
        /\ IsFiniteSet(Owing(o))
    BY WorkFacts DEF AtWork, Counted
  <2>2. SentIn(net', o) = SentIn(net, o)
    BY SentKeep
  <2>3. MergedIn(completion_msgs', o) = MergedIn(completion_msgs, o)
    OBVIOUS
  <2>4. CASE o = c
    <3>1. Cardinality(Owing(o))' = Cardinality(Owing(o)) + 1
      BY <1>9, <2>1, <2>4, FS_AddElement
    <3> QED BY <1>2, <2>1, <2>2, <2>3, <2>4, <3>1
  <2>5. CASE o # c
    BY <1>2, <1>9, <2>1, <2>2, <2>3, <2>5
  <2> QED BY <2>4, <2>5
<1> QED BY <1>2, <1>6, <1>7, <1>8, <1>10

\* The task table once t has named its child k.
LEMMA SpawnTable ==
    ASSUME task \in [Tasks -> TaskType], NEW t \in Workers, NEW k \in Kids, k # t, task[t].fuel > 0,
           NEW d \in Cores, NEW f \in 0 .. task[t].fuel - 1, NEW tk,
           tk = [task EXCEPT ![t].fuel = @ - 1 - f, ![t].child = k,
                             ![k] = [pc |-> "new", core |-> d, target |-> task[t].core,
                                     fuel |-> f, child |-> User, acks |-> 0,
                                     phase |-> task[t].phase]]
    PROVE  /\ tk \in [Tasks -> TaskType]
           /\ tk[t].pc = task[t].pc /\ tk[t].core = task[t].core /\ tk[t].target = task[t].target
           /\ tk[t].phase = task[t].phase /\ tk[t].child = k
           /\ tk[k].pc = "new" /\ tk[k].target = task[t].core /\ tk[k].phase = task[t].phase
           /\ \A u \in Tasks : u # t /\ u # k => tk[u] = task[u]
<1>1. t \in Tasks /\ k \in Tasks
  BY Names DEF Workers
<1>2. PICK r \in TaskType : r = task[t]
  BY <1>1
<1>3. r.fuel \in Nat /\ r.core \in Cores /\ r.phase \in Phases
  BY DEF TaskType
<1>4. f \in Nat /\ r.fuel - 1 - f \in Nat
  BY <1>2, <1>3
<1> DEFINE n == r.fuel - 1 - f
           q == [pc |-> "new", core |-> d, target |-> r.core,
                 fuel |-> f, child |-> User, acks |-> 0, phase |-> r.phase]
<1>5. q \in TaskType /\ q.pc = "new" /\ q.target = r.core /\ q.phase = r.phase
  <2>1. "new" \in PCs /\ User \in Named /\ 0 \in AckCounts
    BY Names DEF PCs, Named, AckCounts
  <2> QED BY <1>3, <1>4, <2>1 DEF TaskType
<1>6. /\ tk[t] = [r EXCEPT !.fuel = n, !.child = k] /\ tk[k] = q
      /\ \A u \in Tasks : u # t /\ u # k => tk[u] = task[u]
      /\ tk = [u \in Tasks |-> tk[u]]
  BY <1>1, <1>2 DEF TaskType
<1>7. n \in Nat /\ k \in Named
  BY <1>4 DEF Named
<1> HIDE DEF n, q
<1>8. LET s == [r EXCEPT !.fuel = n, !.child = k]
      IN  /\ s \in TaskType /\ s.pc = r.pc /\ s.core = r.core /\ s.target = r.target
          /\ s.phase = r.phase /\ s.child = k
  BY <1>7 DEF TaskType
<1>9. \A u \in Tasks : tk[u] \in TaskType
  BY <1>5, <1>6, <1>8
<1>10. tk \in [Tasks -> TaskType]
  BY <1>6, <1>9
<1> QED BY <1>2, <1>5, <1>6, <1>8, <1>10

\* The core of t is counted already, or is the master: t goes on at once.
LEMMA SpawnOn ==
    ASSUME Inv, AtWork, NEW t \in Workers, task[t].pc = "run", NEW k \in Kids, task[k].pc = "idle",
           k # t, NEW c \in Cores, c = task[t].core,
           NEW tk \in [Tasks -> TaskType],
           tk[t].core = c, tk[t].target = task[t].target, tk[t].phase = task[t].phase, tk[t].child = k,
           tk[k].target = c, tk[k].phase = task[t].phase,
           \A u \in Tasks : u # t /\ u # k => tk[u] = task[u],
           task' = Enrolled(tk, t), count' = [count EXCEPT ![c] = @ + 1],
           FiniteBag(net)', \A x : Copies(x)' = Copies(x),
           cores_out' = IF count[c] = 0 THEN cores_out + 1 ELSE cores_out,
           UNCHANGED <<event_in_progress, cv, temporary_waking_cv, temporary_waking_cores_out,
                       reenroll_count, completion_msgs, recurring, fatal>>
    PROVE  Inv'
<1>1. (\A x : Copies(x) \in Nat /\ (x \in BagToSet(net) <=> Copies(x) > 0))
      /\ (\A x : Copies(x) > 0 => x \in ByMsgs \union WorkMsgs)
      /\ Mains \subseteq Workers /\ Kids \subseteq Workers /\ Workers \subseteq Tasks /\ Shape
  BY WorkFacts
<1>2. /\ task' \in [Tasks -> TaskType]
      /\ task'[t].pc = "run" /\ task'[t].core = c /\ task'[t].target = task[t].target
      /\ task'[t].phase = task[t].phase
      /\ task'[k].pc = "run" /\ task'[k].target = c /\ task'[k].phase = task[t].phase
      /\ \A u \in Tasks : u # t /\ u # k => task'[u] = task[u]
  <2>1. PICK nt : nt = Enrolled(tk, t)
    OBVIOUS
  <2>2. /\ nt \in [Tasks -> TaskType]
        /\ nt[t].pc = "run" /\ nt[t].core = tk[t].core /\ nt[t].target = tk[t].target
        /\ nt[t].phase = tk[t].phase
        /\ nt[k].pc = "run" /\ nt[k].target = tk[k].target /\ nt[k].phase = tk[k].phase
        /\ \A u \in Tasks : u # t /\ u # k => nt[u] = tk[u]
    BY <2>1, EnrolledTask
  <2>3. task' = nt
    BY <2>1
  <2> QED BY <2>2, <2>3
<1>3. BagToSet(net)' \subseteq ByMsgs \union WorkMsgs
  BY <1>1, NextMembers
<1>4. cores_out' \in Nat
  BY <1>1 DEF Shape
<1>5. /\ Base' /\ Origin' = Origin /\ Under' /\ Wakes' /\ Counted'
      /\ count[c] = 0 => Cardinality(Busy)' = Cardinality(Busy) + 1
      /\ count[c] # 0 => Cardinality(Busy)' = Cardinality(Busy)
  BY <1>2, <1>3, <1>4, Spawned
<1>6. Calls' /\ Apart' /\ Ordered' /\ Callers' = Callers
  <2>1. \A u \in Workers : u = t \/ u = k \/ task'[u] = task[u]
    BY <1>1, <1>2
  <2>2. \A u \in Workers : task[u].pc = "call" => task'[u] = task[u]
    BY <2>1
  <2>3. \A u \in Workers : task[u].pc # "call" => task'[u].pc # "call"
    BY <1>2, <2>1
  <2>4. \A u \in Kids : task[u].pc = "new" => task'[u] = task[u]
    BY <1>1, <2>1
  <2> QED BY <1>5, <2>2, <2>3, <2>4, CallsKeep
<1>7. Reported'
  <2>1. /\ Cardinality(Busy) \in Nat /\ Cardinality(Callers) \in Nat /\ Copies(Enter) \in Nat
        /\ cores_out = Cardinality(Busy) - Cardinality(Callers) + Copies(Enter)
        /\ Copies(Enter)' = Copies(Enter)
    BY WorkFacts DEF AtWork, Reported
  <2>2. cores_out' = Cardinality(Busy)' - Cardinality(Callers) + Copies(Enter)
    BY <1>5, <2>1
  <2> QED BY <1>6, <2>1, <2>2 DEF Reported
<1> QED BY <1>5, <1>6, <1>7 DEF Inv, AtWork

\* The core of t gets its first work: t calls the master, and the child waits.
LEMMA SpawnCall ==
    ASSUME Inv, AtWork, NEW t \in Workers, task[t].pc = "run", NEW k \in Kids, task[k].pc = "idle",
           k # t, NEW c \in Cores, c = task[t].core, c # master_core, count[c] = 0,
           task' \in [Tasks -> TaskType],
           task'[t].pc = "call", task'[t].core = c, task'[t].target = task[t].target,
           task'[t].phase = task[t].phase, task'[t].child = k,
           task'[k].pc = "new", task'[k].target = c, task'[k].phase = task[t].phase,
           \A u \in Tasks : u # t /\ u # k => task'[u] = task[u],
           count' = [count EXCEPT ![c] = @ + 1], net' = Send({Increment(t)}),
           UNCHANGED <<event_in_progress, cv, temporary_waking_cv, temporary_waking_cores_out,
                       reenroll_count, completion_msgs, recurring, fatal, cores_out>>
    PROVE  Inv'
<1>1. (\A x : Copies(x) \in Nat /\ (x \in BagToSet(net) <=> Copies(x) > 0))
      /\ (\A x : Copies(x) > 0 => x \in ByMsgs \union WorkMsgs) /\ FiniteBag(net)
      /\ Mains \subseteq Workers /\ Kids \subseteq Workers /\ Workers \subseteq Tasks /\ Shape
  BY WorkFacts
<1>2. /\ FiniteBag(net)'
      /\ \A x : Copies(x)' \in Nat /\ (x \in BagToSet(net)' <=> Copies(x)' > 0)
      /\ \A x : x # Increment(t) => Copies(x)' = Copies(x)
      /\ Copies(Increment(t))' = Copies(Increment(t)) + 1
  BY <1>1, SendOne
<1>3. BagToSet(net)' \subseteq ByMsgs \union WorkMsgs
  <2>1. Increment(t) \in WorkMsgs
    BY DEF WorkMsgs
  <2> SUFFICES ASSUME NEW x \in BagToSet(net)' PROVE x \in ByMsgs \union WorkMsgs
    OBVIOUS
  <2>2. CASE x = Increment(t)
    BY <2>1, <2>2
  <2>3. CASE x # Increment(t)
    BY <1>1, <1>2, <2>3
  <2> QED BY <2>2, <2>3
<1>4. /\ Copies(Enter)' = Copies(Enter)
      /\ \A o \in Cores : Copies(Wake(o))' = Copies(Wake(o))
      /\ \A o \in Cores : \A x \in Completes(o) : Copies(x)' = Copies(x)
      /\ \A u : u # t => Copies(Increment(u))' = Copies(Increment(u))
      /\ \A u, v : Copies(Reply(u, v))' = Copies(Reply(u, v))
  <2>1. Enter # Increment(t)
    BY Types
  <2>2. \A o : Wake(o) # Increment(t)
    BY Types
  <2>3. \A o : \A x \in Completes(o) : x # Increment(t)
    BY Types, CompleteTypes
  <2>4. \A u : u # t => Increment(u) # Increment(t)
    BY Types
  <2>5. \A u, v : Reply(u, v) # Increment(t)
    BY Types
  <2> QED BY <1>2, <2>1, <2>2, <2>3, <2>4, <2>5
<1>5. /\ Base' /\ Origin' = Origin /\ Under' /\ Wakes' /\ Counted'
      /\ Cardinality(Busy)' = Cardinality(Busy) + 1
  <2>1. cores_out' \in Nat
    BY <1>1 DEF Shape
  <2> QED BY <1>2, <1>3, <1>4, <2>1, Spawned
<1>6. /\ Copies(Increment(t)) = 0 /\ Copies(Increment(t))' = 1
      /\ \A v \in Nat \ {0, 1} : Copies(Reply(t, v)) = 0
  <2>1. Copies(Increment(t)) = 0 /\ \A v \in Nat \ {0, 1} : Copies(Reply(t, v)) = 0
    BY DEF AtWork, Calls
  <2> QED BY <1>2, <2>1
<1>7. \A u \in Workers : u = t \/ u = k \/ task'[u] = task[u]
  BY <1>1
<1>8. ASSUME NEW u \in Workers, u # t, task'[u].pc = "call"
      PROVE  /\ task[u].pc = "call" /\ task'[u] = task[u] /\ task[u].core # c
             /\ task[u].child \in Kids /\ task[u].child # k
             /\ task'[task[u].child] = task[task[u].child]
  <2>1. task[u].pc = "call" /\ task'[u] = task[u]
    BY <1>7, <1>8
  <2>2. count[task[u].core] > 0
    BY <2>1, ActiveCounts
  <2>3. task[u].core # c
    BY <2>2
  <2>4. task[u].child \in Kids /\ task[task[u].child].pc = "new"
    BY <2>1 DEF AtWork, Calls
  <2>5. task[u].child # k /\ task[u].child # t /\ task[u].child \in Workers
    BY <1>1, <2>4
  <2> QED BY <1>7, <2>1, <2>3, <2>4, <2>5
<1>9. Calls'
  <2> SUFFICES ASSUME NEW u \in Workers
               PROVE  (/\ Copies(Increment(u)) <= 1
                       /\ \A x \in Nat \ {0, 1} : Copies(Reply(u, x)) <= 1
                       /\ \A x \in Nat \ {0, 1} : Copies(Reply(u, x)) > 0 => Copies(Increment(u)) = 0
                       /\ \A x, w \in Nat \ {0, 1} :
                             Copies(Reply(u, x)) > 0 /\ Copies(Reply(u, w)) > 0 => x = w
                       /\ task[u].pc # "call" =>
                             Copies(Increment(u)) = 0 /\ \A x \in Nat \ {0, 1} : Copies(Reply(u, x)) = 0
                       /\ task[u].pc = "call" =>
                             /\ task[u].core # master_core /\ task[u].child \in Kids
                             /\ task[task[u].child].pc = "new"
                             /\ task[task[u].child].target = task[u].core)'
    BY DEF Calls
  <2>1. CASE u = t
    BY <1>4, <1>6, <2>1
  <2>2. CASE u # t
    <3>1. task'[u].pc # "call" => task[u].pc # "call"
      BY <1>7, <2>2
    <3>2. task'[u].pc = "call" =>
             /\ task'[u].core # master_core /\ task'[u].child \in Kids
             /\ task'[task'[u].child].pc = "new"
             /\ task'[task'[u].child].target = task'[u].core
      <4> SUFFICES ASSUME task'[u].pc = "call"
                   PROVE  /\ task'[u].core # master_core /\ task'[u].child \in Kids
                          /\ task'[task'[u].child].pc = "new"
                          /\ task'[task'[u].child].target = task'[u].core
        OBVIOUS
      <4>1. /\ task[u].pc = "call" /\ task'[u] = task[u] /\ task[u].child \in Kids
            /\ task'[task[u].child] = task[task[u].child]
        BY <1>8, <2>2
      <4> QED BY <4>1 DEF AtWork, Calls
    <3>3. Copies(Increment(u))' = Copies(Increment(u))
      BY <1>4, <2>2
    <3>4. \A x \in Nat \ {0, 1} : Copies(Reply(u, x))' = Copies(Reply(u, x))
      BY <1>4
    <3> QED BY <3>1, <3>2, <3>3, <3>4 DEF AtWork, Calls
  <2> QED BY <2>1, <2>2
<1>10. Apart'
  <2> SUFFICES ASSUME NEW u \in Workers, NEW w \in Workers,
                      task'[u].pc = "call", task'[w].pc = "call", u # w
               PROVE  task'[u].core # task'[w].core /\ task'[u].child # task'[w].child
    BY DEF Apart
  <2>1. CASE u # t /\ w # t
    <3>1. task[u].pc = "call" /\ task'[u] = task[u] /\ task[w].pc = "call" /\ task'[w] = task[w]
      BY <1>8, <2>1
    <3> QED BY <3>1 DEF AtWork, Apart
  <2>2. CASE u = t
    <3>1. task'[w] = task[w] /\ task[w].core # c /\ task[w].child # k
      BY <1>8, <2>2
    <3> QED BY <2>2, <3>1
  <2>3. CASE w = t
    <3>1. task'[u] = task[u] /\ task[u].core # c /\ task[u].child # k
      BY <1>8, <2>3
    <3> QED BY <2>3, <3>1
  <2> QED BY <2>1, <2>2, <2>3
<1>11. Callers' = Callers \union {t} /\ t \notin Callers
  <2>1. \A u \in Workers : u # t => Copies(Increment(u))' = Copies(Increment(u))
    BY <1>4
  <2>2. Copies(Increment(t))' > 0 /\ ~(Copies(Increment(t)) > 0)
    BY <1>6
  <2> QED BY <2>1, <2>2 DEF Callers
<1>12. \A u \in Callers : /\ task'[u] = task[u] /\ Tgt(u)' = Tgt(u) /\ Tgt(u) # c
                          /\ task[u].core # c
  <2> TAKE u \in Callers
  <2>1. u \in Workers /\ task[u].pc = "call" /\ u # t
    BY <1>11, ActiveCounts
  <2>2. task'[u] = task[u]
    BY <1>7, <2>1
  <2>3. Active(u)
    BY <2>1, ActiveCounts
  <2>4. count[Tgt(u)] > 0
    BY <2>1, <2>3, ActiveCounts
  <2>5. Tgt(u) # c
    BY <2>4
  <2>6. task[u].core # c
    BY <1>8, <2>1, <2>2
  <2> QED BY <1>5, <2>2, <2>5, <2>6 DEF Tgt
<1>13. Tgt(t)' = Tgt(t) /\ Tgt(t) # c
  <2>1. Active(t)
    BY ActiveCounts
  <2>2. count[Tgt(t)] > 0
    BY <2>1, ActiveCounts
  <2>3. Tgt(t) # c
    BY <2>2
  <2> QED BY <1>5, <2>3 DEF Tgt
<1>14. Ordered'
  <2> SUFFICES ASSUME NEW D \in SUBSET (Callers \union {t}), D # {}
               PROVE  \E u \in D : \A w \in D : task'[w].core # Tgt(u)'
    BY <1>11 DEF Ordered
  <2> DEFINE E == D \ {t}
  <2>1. E \in SUBSET Callers
    OBVIOUS
  <2>2. CASE E = {}
    <3>1. D = {t}
      BY <2>2
    <3> QED BY <1>13, <3>1
  <2>3. CASE E # {}
    <3>1. PICK u \in E : \A w \in E : task[w].core # Tgt(u)
      BY <2>1, <2>3 DEF AtWork, Ordered
    <3>2. u \in Callers /\ Tgt(u)' = Tgt(u) /\ Tgt(u) # c
      BY <1>12, <2>1
    <3>3. \A w \in E : task'[w].core # Tgt(u)'
      BY <1>12, <2>1, <3>1, <3>2
    <3>4. task'[t].core # Tgt(u)'
      BY <3>2
    <3>5. \A w \in D : task'[w].core # Tgt(u)'
      BY <3>3, <3>4
    <3> QED BY <3>5
  <2> QED BY <2>2, <2>3
<1>15. Reported'
  <2>1. /\ Cardinality(Busy) \in Nat /\ Cardinality(Callers) \in Nat /\ Copies(Enter) \in Nat
        /\ cores_out = Cardinality(Busy) - Cardinality(Callers) + Copies(Enter)
        /\ IsFiniteSet(Callers)
    BY WorkFacts DEF AtWork, Reported
  <2>2. Cardinality(Callers') = Cardinality(Callers) + 1
    BY <1>11, <2>1, FS_AddElement
  <2>3. cores_out' = Cardinality(Busy)' - Cardinality(Callers') + Copies(Enter)'
    BY <1>4, <1>5, <2>1, <2>2
  <2> QED BY <2>3 DEF Reported
<1> QED BY <1>5, <1>9, <1>10, <1>14, <1>15 DEF Inv, AtWork

\* A task spawns a task.
LEMMA SpawnInv ==
    ASSUME Dec = 1, Inv, NEW t \in Workers, Spawn(t)
    PROVE  Inv'
<1>1. task[t].pc = "run" /\ task[t].fuel > 0
  BY DEF Spawn, Runs
<1>2. AtWork
  BY <1>1, RunsAtWork
<1>3. /\ task \in [Tasks -> TaskType] /\ t \in Tasks /\ Kids \subseteq Tasks /\ Shape /\ FiniteBag(net)
      /\ (\A x : Copies(x) \in Nat)
  BY <1>2, WorkFacts
<1>4. PICK c \in Cores : c = task[t].core
  BY <1>2, <1>3, WorkFacts
<1>5. PICK k \in Kids, d \in Cores, f \in 0 .. task[t].fuel - 1 :
         /\ task[k].pc = "idle"
         /\ enroll(t, 1,
                   [task EXCEPT ![t].fuel = @ - 1 - f, ![t].child = k,
                                ![k] = [pc |-> "new", core |-> d, target |-> task[t].core,
                                        fuel |-> f, child |-> User, acks |-> 0,
                                        phase |-> task[t].phase]])
  BY DEF Spawn
<1>6. k # t /\ k \in Tasks
  BY <1>1, <1>3, <1>5
<1>7. PICK tk : tk = [task EXCEPT ![t].fuel = @ - 1 - f, ![t].child = k,
                                  ![k] = [pc |-> "new", core |-> d, target |-> task[t].core,
                                          fuel |-> f, child |-> User, acks |-> 0,
                                          phase |-> task[t].phase]]
  OBVIOUS
<1>8. enroll(t, 1, tk)
  BY <1>5, <1>7
<1>9. /\ tk \in [Tasks -> TaskType]
      /\ tk[t].pc = task[t].pc /\ tk[t].core = task[t].core /\ tk[t].target = task[t].target
      /\ tk[t].phase = task[t].phase /\ tk[t].child = k
      /\ tk[k].pc = "new" /\ tk[k].target = task[t].core /\ tk[k].phase = task[t].phase
      /\ \A u \in Tasks : u # t /\ u # k => tk[u] = task[u]
  BY <1>1, <1>3, <1>6, <1>7, SpawnTable
<1>10. /\ count' = [count EXCEPT ![c] = @ + 1]
       /\ event_in_progress' = [event_in_progress EXCEPT ![c] = @ \/ count[c] = 0]
       /\ \/ /\ count[c] = 0 /\ c = master_core
             /\ cores_out' = cores_out + 1
             /\ net' = Send(CallOnAllCores(t, c, cores_out'))
             /\ task' = AfterCall(tk, t, cores_out')
          \/ /\ count[c] = 0 /\ c # master_core
             /\ net' = Send({Increment(t)})
             /\ task' = [tk EXCEPT ![t].pc = "call"]
             /\ UNCHANGED cores_out
          \/ /\ count[c] # 0
             /\ task' = Enrolled(tk, t)
             /\ UNCHANGED <<net, cores_out>>
       /\ UNCHANGED <<cv, temporary_waking_cv, temporary_waking_cores_out,
                      completion_msgs, recurring, fatal, reenroll_count>>
  <2>1. reenroll_count' = reenroll_count
    BY DEF Spawn
  <2>2. tk[t].core = c
    BY <1>4, <1>9
  <2> QED BY <1>8, <2>1, <2>2 DEF enroll
<1>11. event_in_progress' = event_in_progress
  <2>1. event_in_progress \in [Cores -> BOOLEAN] /\ event_in_progress[c] = TRUE
    BY <1>2, <1>3 DEF Shape, AtWork, Under
  <2> QED BY <1>10, <2>1
<1>12. ASSUME task' = Enrolled(tk, t), FiniteBag(net)', \A x : Copies(x)' = Copies(x),
              cores_out' = IF count[c] = 0 THEN cores_out + 1 ELSE cores_out
       PROVE  Inv'
  <2>1. task[t].pc = "run" /\ task[k].pc = "idle" /\ k # t /\ c = task[t].core
    BY <1>1, <1>4, <1>5, <1>6
  <2>2. /\ tk \in [Tasks -> TaskType] /\ tk[t].core = c /\ tk[t].target = task[t].target
        /\ tk[t].phase = task[t].phase /\ tk[t].child = k
        /\ tk[k].target = c /\ tk[k].phase = task[t].phase
        /\ \A u \in Tasks : u # t /\ u # k => tk[u] = task[u]
    BY <1>4, <1>9
  <2>3. /\ count' = [count EXCEPT ![c] = @ + 1]
        /\ UNCHANGED <<event_in_progress, cv, temporary_waking_cv, temporary_waking_cores_out,
                       reenroll_count, completion_msgs, recurring, fatal>>
    BY <1>10, <1>11
  <2> QED BY <1>2, <1>12, <2>1, <2>2, <2>3, SpawnOn
<1>13. CASE /\ count[c] = 0 /\ c = master_core
            /\ cores_out' = cores_out + 1
            /\ net' = Send(CallOnAllCores(t, c, cores_out'))
            /\ task' = AfterCall(tk, t, cores_out')
  <2>1. cores_out' # 1
    <3>1. Active(t)
      BY <1>1, <1>2, ActiveCounts
    <3>2. Cardinality(Busy) >= Cardinality(Callers) + 1
      BY <1>2, <3>1, Ahead
    <3>3. /\ Cardinality(Busy) \in Nat /\ Cardinality(Callers) \in Nat /\ Copies(Enter) \in Nat
          /\ cores_out = Cardinality(Busy) - Cardinality(Callers) + Copies(Enter)
      BY <1>2, WorkFacts DEF AtWork, Reported
    <3> QED BY <1>13, <3>2, <3>3
  <2>2. task' = Enrolled(tk, t) /\ net' = Send({})
    BY <1>13, <2>1 DEF AfterCall, CallOnAllCores
  <2>3. FiniteBag(net)' /\ \A x : Copies(x)' = Copies(x)
    <3>1. IsFiniteSet({})
      BY FS_EmptySet
    <3>2. FiniteBag(net)' /\ \A x : x \notin {} => Copies(x)' = Copies(x)
      BY <1>3, <2>2, <3>1, SendNew
    <3> QED BY <3>2
  <2> QED BY <1>12, <1>13, <2>2, <2>3
<1>14. CASE /\ count[c] # 0
            /\ task' = Enrolled(tk, t)
            /\ UNCHANGED <<net, cores_out>>
  <2>1. FiniteBag(net)' /\ \A x : Copies(x)' = Copies(x)
    BY <1>3, <1>14 DEF Copies
  <2> QED BY <1>12, <1>14, <2>1
<1>15. CASE /\ count[c] = 0 /\ c # master_core
            /\ net' = Send({Increment(t)})
            /\ task' = [tk EXCEPT ![t].pc = "call"]
            /\ UNCHANGED cores_out
  <2>1. /\ task' \in [Tasks -> TaskType]
        /\ task'[t].pc = "call" /\ task'[t].core = c /\ task'[t].target = task[t].target
        /\ task'[t].phase = task[t].phase /\ task'[t].child = k
        /\ \A u \in Tasks : u # t => task'[u] = tk[u]
    <3>1. PICK r \in TaskType : r = tk[t]
      BY <1>3, <1>9
    <3>2. "call" \in PCs
      BY DEF PCs
    <3>3. task'[t] = [r EXCEPT !.pc = "call"] /\ \A u \in Tasks : u # t => task'[u] = tk[u]
      BY <1>3, <1>9, <1>15, <3>1
    <3>4. LET q == [r EXCEPT !.pc = "call"]
          IN  /\ q \in TaskType /\ q.pc = "call" /\ q.core = r.core /\ q.target = r.target
              /\ q.phase = r.phase /\ q.child = r.child
      BY <3>2 DEF TaskType
    <3>5. task'[t] \in TaskType
      BY <3>3, <3>4
    <3>6. task' \in [Tasks -> TaskType]
      BY <1>3, <1>9, <1>15, <3>5
    <3> QED BY <1>4, <1>9, <3>1, <3>3, <3>4, <3>6
  <2>2. /\ task'[k].pc = "new" /\ task'[k].target = c /\ task'[k].phase = task[t].phase
        /\ \A u \in Tasks : u # t /\ u # k => task'[u] = task[u]
    BY <1>4, <1>6, <1>9, <2>1
  <2> QED BY <1>1, <1>2, <1>4, <1>5, <1>6, <1>10, <1>11, <1>15, <2>1, <2>2, SpawnCall
<1> QED BY <1>10, <1>13, <1>14, <1>15

(***************************************************************************)
(* Every step preserves the invariant.                                     *)
(***************************************************************************)

\* A call of the master arrives there.
LEMMA IncrementInv == Inv /\ HandleIncrement => Inv'
<1> SUFFICES ASSUME Inv, HandleIncrement PROVE Inv'
  OBVIOUS
<1>1. PICK m \in Arriving :
        /\ m.type = "increment"
        /\ cores_out' = cores_out + 1
        /\ net' = Receive(m, {Reply(m.task, cores_out')})
        /\ UNCHANGED <<count, event_in_progress, cv, temporary_waking_cv,
                       temporary_waking_cores_out, reenroll_count, completion_msgs,
                       task, recurring, fatal>>
  BY DEF HandleIncrement
<1>2. \/ Starting /\ m = Increment(User)
      \/ AtWork /\ m.task \in Workers /\ m = Increment(m.task)
  <2>1. \A c : Wake(c).type = "wake"
    BY Types
  <2> QED BY <1>1, <2>1, Arrivals, StageMsgs
<1>3. CASE Starting /\ m = Increment(User)
  BY <1>1, <1>3, IncrementStarting
<1>4. CASE AtWork /\ m.task \in Workers /\ m = Increment(m.task)
  <2>1. PICK t \in Workers : t = m.task
    BY <1>4
  <2>2. m = Increment(t) /\ net' = Receive(m, {Reply(t, cores_out')})
    BY <1>1, <1>4, <2>1
  <2> QED BY <1>1, <1>4, <2>2, IncrementWork
<1> QED BY <1>2, <1>3, <1>4

\* A call of the master returns.
LEMMA ReturnInv == Inv /\ ReturnFromCall => Inv'
<1> SUFFICES ASSUME Inv, ReturnFromCall PROVE Inv'
  OBVIOUS
<1>1. PICK m \in Arriving :
        /\ m.type = "reply" /\ task[m.task].pc = "call"
        /\ event_in_progress' = [event_in_progress EXCEPT ![task[m.task].core] = @ \/ m.value = 1]
        /\ net' = Receive(m, CallOnAllCores(m.task, task[m.task].core, m.value))
        /\ task' = AfterCall(task, m.task, m.value)
        /\ fatal' = (m.value # 1 /\ count[task[m.task].core] <= 0)
        /\ UNCHANGED <<count, cv, temporary_waking_cv, cores_out,
                       temporary_waking_cores_out, reenroll_count, completion_msgs,
                       recurring>>
  BY DEF ReturnFromCall
<1>2. \/ Starting /\ m = Reply(User, 1)
      \/ AtWork /\ m.task \in Workers /\ m.value \in Nat \ {0, 1} /\ m = Reply(m.task, m.value)
  <2>1. \A c : Wake(c).type = "wake"
    BY Types
  <2>2. m \notin ByMsgs
    <3>1. task[Bystander].pc # "call"
      BY DEF Inv, Base, Programs
    <3> QED BY <1>1, <3>1, StageMsgs
  <2> QED BY <1>1, <2>1, <2>2, Arrivals, StageMsgs
<1>3. CASE Starting /\ m = Reply(User, 1)
  <2>1. m.task = User
    BY <1>3, Types
  <2>2. Origin = task[User].core
    BY DEF Origin
  <2>3. /\ task[User].pc = "call"
        /\ event_in_progress' = [event_in_progress EXCEPT ![Origin] = @ \/ m.value = 1]
        /\ net' = Receive(m, CallOnAllCores(User, Origin, m.value))
        /\ task' = AfterCall(task, User, m.value)
        /\ fatal' = (m.value # 1 /\ count[Origin] <= 0)
    BY <1>1, <2>1, <2>2
  <2> QED BY <1>1, <1>3, <2>3, ReturnStarting
<1>4. CASE AtWork /\ m.task \in Workers /\ m.value \in Nat \ {0, 1} /\ m = Reply(m.task, m.value)
  <2>1. PICK t \in Workers, v \in Nat \ {0, 1} : t = m.task /\ v = m.value
    BY <1>4
  <2>2. /\ m = Reply(t, v) /\ task[t].pc = "call"
        /\ event_in_progress' = [event_in_progress EXCEPT ![task[t].core] = @ \/ v = 1]
        /\ net' = Receive(m, CallOnAllCores(t, task[t].core, v))
        /\ task' = AfterCall(task, t, v)
        /\ fatal' = (v # 1 /\ count[task[t].core] <= 0)
    BY <1>1, <1>4, <2>1
  <2> QED BY <1>1, <1>4, <2>2, ReturnWork
<1> QED BY <1>2, <1>3, <1>4

\* The aggregator takes a message.
LEMMA MarkSentInv == Inv /\ mark_sent => Inv'
<1> SUFFICES ASSUME Inv, mark_sent PROVE Inv'
  OBVIOUS
<1>1. PICK c \in Cores, o \in Cores :
        /\ completion_msgs[c][o].queued
        /\ net' = Send({DoComplete(o, completion_msgs[c][o].dec)})
        /\ completion_msgs' = [completion_msgs EXCEPT ![c][o] =
                 [queued |-> completion_msgs[c][o].completes_to_send > 0,
                  dec |-> completion_msgs[c][o].completes_to_send,
                  completes_to_send |-> 0]]
        /\ UNCHANGED <<count, event_in_progress, cv, temporary_waking_cv, cores_out,
                       temporary_waking_cores_out, reenroll_count, task, recurring, fatal>>
  BY DEF mark_sent
<1>2. AtWork
  BY <1>1 DEF Inv, Resting, Starting, Resetting, Waking, Quiet
<1> QED BY <1>1, <1>2, SentWork

\* A completion arrives.
LEMMA CompleteInv == Inv /\ HandleComplete => Inv'
<1> SUFFICES ASSUME Inv, HandleComplete PROVE Inv'
  OBVIOUS
<1>1. PICK m \in Arriving :
        /\ m.type = "complete"
        /\ count' = [count EXCEPT ![m.core] = @ - m.dec]
        /\ net' = Receive(m, Entering(m.core, m.dec))
        /\ UNCHANGED <<event_in_progress, cv, temporary_waking_cv, cores_out,
                       temporary_waking_cores_out, reenroll_count, completion_msgs,
                       task, recurring, fatal>>
  BY DEF HandleComplete
<1>2. AtWork /\ m.core \in Cores /\ m.dec \in Nat \ {0} /\ m = DoComplete(m.core, m.dec)
  <2>1. \A c : Wake(c).type = "wake"
    BY Types
  <2> QED BY <1>1, <2>1, Arrivals, StageMsgs
<1>3. PICK c \in Cores, d \in Nat \ {0} : c = m.core /\ d = m.dec
  BY <1>2
<1>4. /\ m = DoComplete(c, d) /\ count' = [count EXCEPT ![c] = @ - d]
      /\ net' = Receive(m, Entering(c, d))
  BY <1>1, <1>2, <1>3
<1> QED BY <1>1, <1>2, <1>4, CompleteWork

\* A core enters the barrier.
LEMMA EnterInv == Inv /\ HandleEnter => Inv'
<1> SUFFICES ASSUME Inv, HandleEnter PROVE Inv'
  OBVIOUS
<1>1. Enter \in Arriving /\ cores_out' = cores_out - 1
  BY DEF HandleEnter
<1>2. AtWork
  <2>1. \A c : Wake(c).type = "wake"
    BY Types
  <2>2. Enter.type = "enter"
    BY Types
  <2> QED BY <1>1, <2>1, <2>2, Arrivals, StageMsgs
<1>3. CASE cores_out' = 0
  <2>1. /\ fatal' = (count[master_core] # 0)
        /\ temporary_waking_cores_out' = NumCores
        /\ net' = Receive(Enter, {Reset(c, reenroll_count) : c \in Cores})
        /\ UNCHANGED <<count, event_in_progress, cv, temporary_waking_cv, reenroll_count,
                       completion_msgs, task, recurring>>
    BY <1>3 DEF HandleEnter
  <2> QED BY <1>1, <1>2, <1>3, <2>1, EnterLast
<1>4. CASE cores_out' # 0
  <2>1. /\ net' = Receive(Enter, {})
        /\ UNCHANGED <<count, event_in_progress, cv, temporary_waking_cv, reenroll_count,
                       completion_msgs, task, recurring, fatal, temporary_waking_cores_out>>
    BY <1>4 DEF HandleEnter
  <2> QED BY <1>1, <1>2, <2>1, EnterWork
<1> QED BY <1>3, <1>4

\* A wake-up arrives.
LEMMA WakeInv == Inv /\ HandleWake => Inv'
<1> SUFFICES ASSUME Inv, HandleWake PROVE Inv'
  OBVIOUS
<1>1. PICK m \in Arriving :
        /\ m.type = "wake"
        /\ net' = Receive(m, {})
        /\ task' = [t \in Tasks |->
              IF t \in temporary_waking_cv[m.core] THEN Returned(t) ELSE task[t]]
        /\ temporary_waking_cv' = [temporary_waking_cv EXCEPT ![m.core] = {}]
        /\ UNCHANGED <<count, event_in_progress, cv, cores_out, temporary_waking_cores_out,
                       reenroll_count, completion_msgs, recurring, fatal>>
  BY DEF HandleWake
<1>2. (AtWork \/ Waking) /\ \E c \in Cores : m = Wake(c)
  BY <1>1, Arrivals, StageMsgs
<1>3. PICK c \in Cores : m = Wake(c)
  BY <1>2
<1>4. c = m.core
  BY <1>3, Types
<1>5. /\ task' = [t \in Tasks |-> IF t \in temporary_waking_cv[c] THEN Returned(t) ELSE task[t]]
      /\ temporary_waking_cv' = [temporary_waking_cv EXCEPT ![c] = {}]
  BY <1>1, <1>4
<1>6. CASE AtWork
  BY <1>1, <1>3, <1>5, <1>6, WakeWork
<1>7. CASE Waking
  BY <1>1, <1>3, <1>5, <1>7, WakeWaking
<1> QED BY <1>2, <1>6, <1>7

\* The invariant is inductive.
LEMMA NextInv ==
    ASSUME Dec = 1
    PROVE  Inv /\ [Next]_vars => Inv'
<1> SUFFICES ASSUME Inv, [Next]_vars PROVE Inv'
  OBVIOUS
<1>1. CASE UNCHANGED vars
  <2>1. \A x : Copies(x)' = Copies(x)
    BY <1>1 DEF vars, Copies
  <2>2. Base'
    BY <1>1 DEF vars, Inv, Base, Shape, Programs, Places, Queues, Phased, Origin, Copies
  <2>3. \A c : SentIn(net, c)' = SentIn(net, c) /\ MergedIn(completion_msgs, c)' = MergedIn(completion_msgs, c)
    BY <1>1 DEF vars
  <2>4. Resting => Resting'
    BY <1>1 DEF vars, Resting, Quiet
  <2>5. Starting => Starting'
    BY <1>1 DEF vars, Starting, Quiet, Asked, Origin, Again, Copies
  <2>6. AtWork => AtWork'
    BY <1>1, <2>3 DEF vars, AtWork, Under, Wakes, Calls, Apart, Ordered, Counted, Reported,
                      Owing, Active, Tgt, Callers, Busy, Origin, Again, Copies
  <2>7. Resetting => Resetting'
    BY <1>1 DEF vars, Resetting, Quiet, ToReset, ResetMsgs, Again, Copies
  <2>8. Waking => Waking'
    BY <1>1 DEF vars, Waking, Quiet, Copies
  <2> QED BY <2>2, <2>4, <2>5, <2>6, <2>7, <2>8 DEF Inv
<1>2. CASE StartPhase
  BY <1>2, StartInv
<1>3. CASE LoopReturns
  BY <1>3, LoopInv
<1>4. CASE BystanderWaits \/ HandleQuery \/ ReturnFromQuery
  BY <1>4, BystanderInv
<1>5. CASE \E t \in Mains \union Kids : Spawn(t)
  BY <1>5, SpawnInv DEF Workers
<1>6. CASE \E k \in Kids : Finish(k)
  BY <1>6, FinishInv
<1>7. CASE \E t \in Mains : CompleteAndWait(t)
  BY <1>7, CompleteAndWaitInv
<1>8. CASE HandleIncrement \/ ReturnFromCall \/ HandleInProgress \/ HandleAck
  BY <1>8, IncrementInv, ReturnInv, InProgressInv, AckInv
<1>9. CASE mark_sent \/ HandleComplete \/ HandleEnter \/ HandleReset \/ HandleResetDone \/ HandleWake
  BY <1>9, MarkSentInv, CompleteInv, EnterInv, ResetInv, ResetDoneInv, WakeInv
<1> QED
  BY <1>1, <1>2, <1>3, <1>4, <1>5, <1>6, <1>7, <1>8, <1>9 DEF Next, Communicate

(***************************************************************************)
(* The sums of the properties, which MapThenSumSet adds up, are those of   *)
(* the invariant.                                                          *)
(***************************************************************************)

\* Merged is MergedIn of the messages there are,
LEMMA MergedTotal ==
    ASSUME completion_msgs \in [Cores -> [Cores -> Queue]], NEW c \in Cores
    PROVE  Merged(c) = MergedIn(completion_msgs, c)
<1> DEFINE S == {s \in Cores : completion_msgs[s][c].queued}
           v(x) == completion_msgs[x][c].dec + completion_msgs[x][c].completes_to_send
           g == [x \in S |-> v(x)]
           first(s) == CHOOSE x \in s : TRUE
           F(it) == [s \in SUBSET S |-> IF s = {} THEN 0 ELSE v(first(s)) + it[s \ {first(s)}]]
           G(it) == [s \in SUBSET S |-> IF s = {} THEN 0 ELSE g[first(s)] + it[s \ {first(s)}]]
<1>1. ASSUME NEW it PROVE F(it) = G(it)
  <2>1. \A x \in S : g[x] = v(x)
    OBVIOUS
  <2>2. \A s \in SUBSET S : s # {} => first(s) \in S
    OBVIOUS
  <2> HIDE DEF S, v, g, first
  <2>3. \A s \in SUBSET S : s # {} => g[first(s)] = v(first(s))
    BY <2>1, <2>2
  <2> QED BY <2>3
<1>2. Merged(c) = (CHOOSE it : it = F(it))[S]
  BY DEF Merged, MapThenSumSet, MapThenFoldSet
<1>3. \A it : IsIter(it, g, S) <=> it = G(it)
  BY DEF IsIter
<1>4. \A x \in S : g[x] \in Nat
  BY DEF Queue
<1>5. IsFiniteSet(S)
  BY Finite, FS_Subset
<1> HIDE DEF S, g, F, G
<1>6. \E it : it = F(it)
  BY <1>1, <1>3, <1>4, <1>5, IterExists
<1>7. PICK it : it = F(it) /\ Merged(c) = it[S]
  BY <1>2, <1>6
<1>8. Merged(c) = Total(g, S)
  BY <1>1, <1>3, <1>4, <1>5, <1>7, IterTotal
<1> DEFINE h == [s \in Cores |-> IF completion_msgs[s][c].queued
                   THEN completion_msgs[s][c].dec + completion_msgs[s][c].completes_to_send ELSE 0]
<1>9. Units(g, S) = Units(h, Cores)
  BY DEF Units, S, g, Queue
<1> QED BY <1>8, <1>9 DEF MergedIn, Total

\* and UnderWay is SentIn of the network.
LEMMA UnderWayTotal ==
    ASSUME FiniteBag(net), NEW c \in Cores,
           \A m \in BagToSet(net) : m.type = "complete" => m \in Completes(m.core)
    PROVE  UnderWay(c) = SentIn(net, c)
<1> DEFINE S == {m \in BagToSet(net) : m.type = "complete" /\ m.core = c}
           v(m) == m.dec * Copies(m)
           g == [x \in S |-> v(x)]
           first(s) == CHOOSE x \in s : TRUE
           F(it) == [s \in SUBSET S |-> IF s = {} THEN 0 ELSE v(first(s)) + it[s \ {first(s)}]]
           G(it) == [s \in SUBSET S |-> IF s = {} THEN 0 ELSE g[first(s)] + it[s \ {first(s)}]]
<1>1. ASSUME NEW it PROVE F(it) = G(it)
  <2>1. \A x \in S : g[x] = v(x)
    OBVIOUS
  <2>2. \A s \in SUBSET S : s # {} => first(s) \in S
    OBVIOUS
  <2> HIDE DEF S, v, g, first
  <2>3. \A s \in SUBSET S : s # {} => g[first(s)] = v(first(s))
    BY <2>1, <2>2
  <2> QED BY <2>3
<1>2. UnderWay(c) = (CHOOSE it : it = F(it))[S]
  BY DEF UnderWay, MapThenSumSet, MapThenFoldSet
<1>3. \A it : IsIter(it, g, S) <=> it = G(it)
  BY DEF IsIter
<1>4. \A m : Copies(m) \in Nat /\ (m \in BagToSet(net) <=> Copies(m) > 0)
  BY NetMembers
<1>5. \A m \in Completes(c) : m.dec \in Nat /\ m.type = "complete" /\ m.core = c
  BY Types DEF Completes
<1>6. S \subseteq Completes(c) /\ \A m \in Completes(c) : m \notin S => Copies(m) = 0
  BY <1>4, <1>5
<1>7. \A x \in S : g[x] \in Nat /\ g[x] = x.dec * Copies(x)
  BY <1>4, <1>5, <1>6
<1>8. IsFiniteSet(S)
  BY FS_Subset DEF FiniteBag
<1> HIDE DEF S, g, F, G
<1>9. \E it : it = F(it)
  BY <1>1, <1>3, <1>7, <1>8, IterExists
<1>10. PICK it : it = F(it) /\ UnderWay(c) = it[S]
  BY <1>2, <1>9
<1>11. UnderWay(c) = Total(g, S)
  BY <1>1, <1>3, <1>7, <1>8, <1>10, IterTotal
<1> DEFINE h == [m \in Completes(c) |-> m.dec * In(m, net)]
<1>12. \A m \in Completes(c) : h[m] = IF m \in S THEN g[m] ELSE 0
  <2>1. \A m : In(m, net) = Copies(m)
    BY DEF In, Copies
  <2>2. \A m \in Completes(c) : h[m] = m.dec * Copies(m)
    BY <2>1
  <2>3. \A m \in Completes(c) : m \notin S => m.dec * Copies(m) = 0
    BY <1>5, <1>6
  <2> HIDE DEF h
  <2> QED BY <1>7, <2>2, <2>3
<1> HIDE DEF h
<1>13. Units(g, S) = Units(h, Completes(c))
  BY <1>6, <1>12 DEF Units
<1> QED BY <1>11, <1>13 DEF SentIn, Total, h

\* What the tasks owe to a core is the number of those that owe.
LEMMA OwedTotal ==
    ASSUME Dec = 1, NEW c \in Cores
    PROVE  MapThenSumSet(LAMBDA t : Owes(t, c), Tasks) = Cardinality({t \in Tasks : Owes(t, c) = 1})
<1> DEFINE S == Tasks
           v(t) == Owes(t, c)
           g == [x \in S |-> v(x)]
           first(s) == CHOOSE x \in s : TRUE
           F(it) == [s \in SUBSET S |-> IF s = {} THEN 0 ELSE v(first(s)) + it[s \ {first(s)}]]
           G(it) == [s \in SUBSET S |-> IF s = {} THEN 0 ELSE g[first(s)] + it[s \ {first(s)}]]
           sum == MapThenSumSet(LAMBDA t : Owes(t, c), Tasks)
<1>1. ASSUME NEW it PROVE F(it) = G(it)
  <2>1. \A x \in S : g[x] = v(x)
    OBVIOUS
  <2>2. \A s \in SUBSET S : s # {} => first(s) \in S
    OBVIOUS
  <2> HIDE DEF S, v, g, first
  <2>3. \A s \in SUBSET S : s # {} => g[first(s)] = v(first(s))
    BY <2>1, <2>2
  <2> QED BY <2>3
<1>2. sum = (CHOOSE it : it = F(it))[S]
  BY DEF MapThenSumSet, MapThenFoldSet
<1>3. \A it : IsIter(it, g, S) <=> it = G(it)
  BY DEF IsIter
<1>4. \A t \in S : Owes(t, c) \in {0, 1}
  BY DEF Owes
<1>5. \A x \in S : g[x] \in {0, 1} /\ g[x] = Owes(x, c)
  BY <1>4
<1>6. IsFiniteSet(S)
  BY Finite
<1> HIDE DEF S, g, F, G, sum
<1>7. \A x \in S : g[x] \in Nat
  BY <1>5
<1>8. \E it : it = F(it)
  BY <1>1, <1>3, <1>6, <1>7, IterExists
<1>9. PICK it : it = F(it) /\ sum = it[S]
  BY <1>2, <1>8
<1>10. sum = Total(g, S)
  BY <1>1, <1>3, <1>6, <1>7, <1>9, IterTotal
<1>11. Total(g, S) = Cardinality({x \in S : g[x] = 1})
  BY <1>5, <1>6, TotalOnes
<1>12. {x \in S : g[x] = 1} = {t \in Tasks : Owes(t, c) = 1}
  BY <1>5 DEF S
<1> QED BY <1>10, <1>11, <1>12 DEF sum

\* Increments counts the tasks of which an increment is under way.
LEMMA IncrementsTotal ==
    ASSUME FiniteBag(net),
           \A m \in BagToSet(net) : m.type = "increment" => m.task \in Tasks /\ m = Increment(m.task),
           \A t \in Tasks : Copies(Increment(t)) <= 1
    PROVE  Increments = Cardinality({t \in Tasks : Copies(Increment(t)) > 0})
<1> DEFINE S == {m \in BagToSet(net) : m.type = "increment"}
           v(m) == Copies(m)
           g == [x \in S |-> v(x)]
           first(s) == CHOOSE x \in s : TRUE
           F(it) == [s \in SUBSET S |-> IF s = {} THEN 0 ELSE v(first(s)) + it[s \ {first(s)}]]
           G(it) == [s \in SUBSET S |-> IF s = {} THEN 0 ELSE g[first(s)] + it[s \ {first(s)}]]
<1>1. ASSUME NEW it PROVE F(it) = G(it)
  <2>1. \A x \in S : g[x] = v(x)
    OBVIOUS
  <2>2. \A s \in SUBSET S : s # {} => first(s) \in S
    OBVIOUS
  <2> HIDE DEF S, v, g, first
  <2>3. \A s \in SUBSET S : s # {} => g[first(s)] = v(first(s))
    BY <2>1, <2>2
  <2> QED BY <2>3
<1>2. Increments = (CHOOSE it : it = F(it))[S]
  BY DEF Increments, MapThenSumSet, MapThenFoldSet
<1>3. \A it : IsIter(it, g, S) <=> it = G(it)
  BY DEF IsIter
<1>4. \A m : Copies(m) \in Nat /\ (m \in BagToSet(net) <=> Copies(m) > 0)
  BY NetMembers
<1>5. \A m \in S : Copies(m) = 1
  BY <1>4
<1>6. \A x \in S : g[x] \in {0, 1} /\ g[x] = 1
  BY <1>5
<1>7. IsFiniteSet(S)
  BY FS_Subset DEF FiniteBag
<1> DEFINE T == {t \in Tasks : Copies(Increment(t)) > 0}
           f == [t \in T |-> Increment(t)]
<1>8. f \in [T -> S] /\ (\A a, b \in T : f[a] = f[b] => a = b) /\ \A m \in S : \E a \in T : f[a] = m
  <2>1. \A t \in T : Increment(t) \in S
    BY <1>4, Types
  <2>2. \A a, b \in T : Increment(a) = Increment(b) => a = b
    BY Types
  <2>3. \A m \in S : m.task \in T /\ Increment(m.task) = m
    BY <1>4
  <2> HIDE DEF T, S
  <2> QED BY <2>1, <2>2, <2>3
<1> HIDE DEF S, g, F, G, T, f
<1>9. \A x \in S : g[x] \in Nat
  BY <1>6
<1>10. \E it : it = F(it)
  BY <1>1, <1>3, <1>7, <1>9, IterExists
<1>11. PICK it : it = F(it) /\ Increments = it[S]
  BY <1>2, <1>10
<1>12. Increments = Total(g, S)
  BY <1>1, <1>3, <1>7, <1>9, <1>11, IterTotal
<1>13. Total(g, S) = Cardinality({x \in S : g[x] = 1})
  BY <1>6, <1>7, TotalOnes
<1>14. {x \in S : g[x] = 1} = S
  BY <1>6
<1>15. f \in Bijection(T, S)
  BY <1>8 DEF Bijection, Injection, Surjection, IsInjective
<1>16. IsFiniteSet(T)
  BY Finite, FS_Subset DEF T
<1>17. Cardinality(S) = Cardinality(T)
  BY <1>15, <1>16, FS_Bijection DEF ExistsBijection
<1> QED BY <1>12, <1>13, <1>14, <1>17 DEF T

(***************************************************************************)
(* What the invariant says of the event.                                   *)
(***************************************************************************)

\* The types.
LEMMA InvTypes == Inv => TypeOK /\ ChecksHold
<1> SUFFICES ASSUME Inv PROVE TypeOK /\ ChecksHold
  OBVIOUS
<1>1. Shape /\ task \in [Tasks -> TaskType]
  BY DEF Inv, Base, Shape
<1>2. \A t \in Tasks : task[t].pc \in PCs /\ task[t].core \in Cores /\ task[t].target \in Cores
                       /\ task[t].acks \in 0 .. NumCores - 1
  BY <1>1 DEF TaskType, AckCounts
<1> QED BY <1>1, <1>2 DEF Shape, TypeOK, ChecksHold, FiniteBag, PCs

\* A task of the loop that does not wait is not about to be woken.
LEMMA AwakeMains ==
    ASSUME Inv, NEW c \in Cores, task[Main(c)].pc # "wait"
    PROVE  Copies(Wake(c)) = 0
<1>1. FiniteBag(net) /\ Main(c) \in Mains
  BY Names DEF Inv, Base, Shape
<1>2. \A x : Copies(x) \in Nat /\ (x \in BagToSet(net) <=> Copies(x) > 0)
  BY <1>1, NetMembers
<1>3. Wake(c) \notin ByMsgs /\ Wake(c) \notin StartMsgs
  BY StageMsgs, Types
<1>4. CASE Resting
  BY <1>2, <1>3, <1>4 DEF Resting
<1>5. CASE Starting
  BY <1>2, <1>3, <1>5 DEF Starting
<1>6. CASE AtWork
  BY <1>2, <1>6 DEF AtWork, Wakes
<1>7. CASE Resetting
  BY <1>1, <1>7 DEF Resetting
<1>8. CASE Waking
  BY <1>8 DEF Waking
<1> QED BY <1>4, <1>5, <1>6, <1>7, <1>8 DEF Inv

\* Whoever works or has returned is of the phase of the others.
LEMMA InvPhases == Inv => PhasesApart
<1> SUFFICES ASSUME Inv PROVE PhasesApart
  OBVIOUS
<1>1. PICK ph \in {0, 1} : Phased(ph)
  BY DEF Inv, Base
<1>2. ASSUME NEW t \in Workers, task[t].pc \in Working \union {"done"}
      PROVE  task[t].phase = ph
  <2>1. task[t].pc # "idle" /\ task[t].pc # "wait"
    BY <1>2 DEF Working
  <2>2. CASE t \in Kids
    BY <1>1, <2>1, <2>2 DEF Phased
  <2>3. CASE t \in Mains
    <3>1. t[2] \in Cores /\ t = Main(t[2])
      BY <2>3, Names
    <3>2. PICK c \in Cores : t = Main(c)
      BY <3>1
    <3>3. Copies(Wake(c)) = 0
      BY <2>1, <3>2, AwakeMains
    <3> QED BY <1>1, <3>2, <3>3 DEF Phased
  <2> QED BY <2>2, <2>3 DEF Workers
<1> QED BY <1>2 DEF PhasesApart, Workers

\* Where nothing is merged and no completion is under way, the sums are 0.
LEMMA QuietSums ==
    ASSUME Base, Quiet, \A x \in BagToSet(net) : x.type # "complete", NEW c \in Cores
    PROVE  Merged(c) = 0 /\ UnderWay(c) = 0
<1>1. completion_msgs \in [Cores -> [Cores -> Queue]] /\ FiniteBag(net)
  BY DEF Base, Shape, Queue
<1>2. MergedIn(completion_msgs, c) = 0
  BY <1>1, MergedFacts DEF Quiet, Waiting
<1>3. SentIn(net, c) = 0
  <2>1. \A m \in Completes(c) : m.type = "complete"
    BY Types DEF Completes
  <2> QED BY <1>1, <2>1, SentFacts
<1> QED BY <1>1, <1>2, <1>3, MergedTotal, UnderWayTotal

\* Where no task owes, the count is 0.
LEMMA NothingOwed ==
    ASSUME Dec = 1, Base, Quiet, \A x \in BagToSet(net) : x.type # "complete",
           \A c \in Cores : count[c] = 0,
           task[User].pc \notin Working, \A t \in Mains : task[t].pc \notin Working,
           \A t \in Mains : task[t].pc = "wait" => ~recurring \/ Copies(Wake(task[t].core)) = 0
    PROVE  CountExact
<1>1. FiniteBag(net)
  BY DEF Base, Shape
<1>2. \A x : Copies(x) \in Nat /\ (x \in BagToSet(net) <=> Copies(x) > 0)
  BY <1>1, NetMembers
<1>3. ASSUME NEW c \in Cores
      PROVE  count[c] = MapThenSumSet(LAMBDA t : Owes(t, c), Tasks) + Merged(c) + UnderWay(c)
  <2>1. ASSUME NEW t \in Tasks PROVE Owes(t, c) = 0
    <3>1. t \in Mains => ~(recurring /\ task[t].pc = "wait" /\ BagIn(Wake(task[t].core), net))
      BY <1>2 DEF BagIn
    <3>2. t \in Kids => task[t].pc \notin Working
      BY DEF Quiet, Working
    <3> QED BY <3>1, <3>2 DEF Owes
  <2>2. {t \in Tasks : Owes(t, c) = 1} = {}
    BY <2>1
  <2>3. MapThenSumSet(LAMBDA t : Owes(t, c), Tasks) = 0
    BY <2>2, OwedTotal, FS_EmptySet
  <2> QED BY <2>3, QuietSums
<1> QED BY <1>3 DEF CountExact

\* While the user task enrolls, it owes for every task of the loop.
LEMMA StartingCount ==
    ASSUME Dec = 1, Inv, Starting
    PROVE  CountExact
<1>1. /\ Base /\ FiniteBag(net) /\ Quiet /\ Origin \in Cores /\ Origin = task[User].core
      /\ \A x : Copies(x) > 0 => x \in ByMsgs \union StartMsgs
  BY StartingFacts
<1>2. \A x : Copies(x) \in Nat /\ (x \in BagToSet(net) <=> Copies(x) > 0)
  BY <1>1, NetMembers
<1>3. \A x \in BagToSet(net) : x.type # "complete"
  BY <1>1, <1>2, StageMsgs
<1>4. task[User].pc \in Working
  BY DEF Starting, Working
<1>5. ASSUME NEW c \in Cores
      PROVE  count[c] = MapThenSumSet(LAMBDA t : Owes(t, c), Tasks) + Merged(c) + UnderWay(c)
  <2>1. ASSUME NEW t \in Tasks PROVE Owes(t, c) = IF t \in Mains /\ c = Origin THEN 1 ELSE 0
    <3>1. t \in Kids => task[t].pc \notin Working /\ t \notin Mains
      BY <1>1, Names DEF Quiet, Working
    <3> QED BY <1>1, <1>4, <3>1 DEF Owes
  <2>2. {t \in Tasks : Owes(t, c) = 1} = IF c = Origin THEN Mains ELSE {}
    <3>1. Mains \subseteq Tasks
      BY DEF Tasks
    <3> QED BY <2>1, <3>1
  <2>3. MapThenSumSet(LAMBDA t : Owes(t, c), Tasks) = IF c = Origin THEN NumCores ELSE 0
    <3>1. CASE c = Origin
      BY <2>2, <3>1, OwedTotal, Finite
    <3>2. CASE c # Origin
      BY <2>2, <3>2, OwedTotal, FS_EmptySet
    <3> QED BY <3>1, <3>2
  <2>4. Merged(c) = 0 /\ UnderWay(c) = 0
    BY <1>1, <1>3, QuietSums
  <2>5. count[c] = IF c = Origin THEN NumCores ELSE 0
    BY DEF Starting
  <2>6. NumCores \in Nat
    BY Names
  <2> QED BY <2>3, <2>4, <2>5, <2>6
<1> QED BY <1>5 DEF CountExact

\* At work a task owes exactly what it is counted for.
LEMMA WorkCount ==
    ASSUME Dec = 1, Inv, AtWork
    PROVE  CountExact
<1>1. /\ Base /\ FiniteBag(net) /\ completion_msgs \in [Cores -> [Cores -> Queue]]
      /\ Workers \subseteq Tasks /\ User \notin Workers /\ Bystander \notin Workers
      /\ \A x : Copies(x) \in Nat /\ (x \in BagToSet(net) <=> Copies(x) > 0)
      /\ \A x : Copies(x) > 0 => x \in ByMsgs \union WorkMsgs
  BY WorkFacts
<1>2. \A x \in BagToSet(net) : x.type = "complete" => x \in Completes(x.core)
  BY <1>1, StageMsgs
<1>3. /\ task[User].pc \notin Working
      /\ \A t \in Mains : task[t].pc \in {"run", "call", "wait"}
      /\ \A t \in Kids : task[t].pc \in {"idle", "new", "run", "call"}
  BY <1>1 DEF AtWork, Under, Working, Base, Programs
<1>4. \A t \in Mains : Copies(Wake(task[t].core)) > 0 => recurring
  <2>1. \A t \in Mains : t[2] \in Cores /\ task[t].core = t[2]
    BY <1>1, Names DEF Base, Places
  <2> QED BY <2>1 DEF AtWork, Wakes
<1>5. ASSUME NEW c \in Cores
      PROVE  count[c] = MapThenSumSet(LAMBDA t : Owes(t, c), Tasks) + Merged(c) + UnderWay(c)
  <2>1. ASSUME NEW t \in Tasks PROVE Owes(t, c) = 1 <=> t \in Owing(c)
    <3>1. CASE t \in Kids
      <4>1. task[t].pc \in Working <=> task[t].pc # "idle"
        BY <1>3, <3>1 DEF Working
      <4>2. t \in Owing(c) <=> task[t].pc # "idle" /\ task[t].target = c
        BY <3>1 DEF Owing, Active, Tgt, Workers
      <4> QED BY <3>1, <4>1, <4>2 DEF Owes
    <3>2. CASE t \in Mains
      <4>1. t \notin Kids /\ t \in Workers
        BY <3>2, Names DEF Workers
      <4>2. task[t].pc \in Working <=> task[t].pc # "wait"
        BY <1>3, <3>2 DEF Working
      <4>3. BagIn(Wake(task[t].core), net) <=> Copies(Wake(task[t].core)) > 0
        BY <1>1 DEF BagIn
      <4>4. t \in Owing(c) <=> (task[t].pc # "wait" \/ Copies(Wake(task[t].core)) > 0) /\ task[User].core = c
        BY <4>1 DEF Owing, Active, Tgt, Origin
      <4> QED BY <1>3, <1>4, <3>2, <4>1, <4>2, <4>3, <4>4 DEF Owes
    <3>3. CASE t \notin Workers
      BY <3>3 DEF Owes, Owing, Workers
    <3> QED BY <3>1, <3>2, <3>3 DEF Workers
  <2>2. {t \in Tasks : Owes(t, c) = 1} = Owing(c)
    BY <1>1, <2>1 DEF Owing
  <2>3. MapThenSumSet(LAMBDA t : Owes(t, c), Tasks) = Cardinality(Owing(c))
    BY <2>2, OwedTotal
  <2>4. Merged(c) = MergedIn(completion_msgs, c) /\ UnderWay(c) = SentIn(net, c)
    BY <1>1, <1>2, MergedTotal, UnderWayTotal
  <2> QED BY <2>3, <2>4 DEF AtWork, Counted
<1> QED BY <1>5 DEF CountExact

\* Every count is exact in every stage.
LEMMA InvCount == ASSUME Dec = 1 PROVE Inv => CountExact
<1> SUFFICES ASSUME Inv PROVE CountExact
  OBVIOUS
<1>1. Base /\ FiniteBag(net)
  BY DEF Inv, Base, Shape
<1>2. \A x : Copies(x) \in Nat /\ (x \in BagToSet(net) <=> Copies(x) > 0)
  BY <1>1, NetMembers
<1>3. ASSUME Resting PROVE CountExact
  <2>1. \A x \in BagToSet(net) : x.type # "complete"
    BY <1>3, StageMsgs DEF Resting
  <2>2. /\ Quiet /\ \A c \in Cores : count[c] = 0
        /\ task[User].pc = "idle" /\ \A t \in Mains : task[t].pc = "idle"
    BY <1>3 DEF Resting
  <2>3. "idle" \notin Working
    BY DEF Working
  <2> QED BY <1>1, <2>1, <2>2, <2>3, NothingOwed
<1>4. ASSUME Resetting PROVE CountExact
  <2>1. \A x \in BagToSet(net) : x.type # "complete" /\ x.type # "wake"
    BY <1>4, StageMsgs DEF Resetting
  <2>2. /\ Quiet /\ \A c \in Cores : count[c] = 0
        /\ task[User].pc = "started" /\ \A t \in Mains : task[t].pc = "wait"
    BY <1>4 DEF Resetting
  <2>3. "started" \notin Working /\ "wait" \notin Working
    BY DEF Working
  <2>4. \A c : Copies(Wake(c)) = 0
    BY <1>2, <2>1, Types
  <2> QED BY <1>1, <2>1, <2>2, <2>3, <2>4, NothingOwed
<1>5. ASSUME Waking PROVE CountExact
  <2>1. \A x \in BagToSet(net) : x.type # "complete"
    BY <1>5, StageMsgs, Types DEF Waking
  <2>2. Quiet /\ (\A c \in Cores : count[c] = 0) /\ task[User].pc = "started" /\ ~recurring
    BY <1>5 DEF Waking
  <2>3. "started" \notin Working /\ "wait" \notin Working /\ "done" \notin Working
    BY DEF Working
  <2>4. \A t \in Mains : task[t].pc \in {"wait", "done"}
    <3>1. \A c \in Cores : task[Main(c)].pc \in {"wait", "done"}
      BY <1>5 DEF Waking
    <3> QED BY <3>1 DEF Mains
  <2> QED BY <1>1, <2>1, <2>2, <2>3, <2>4, NothingOwed
<1> QED BY <1>3, <1>4, <1>5, StartingCount, WorkCount DEF Inv

\* With every count 0 and neither cancels nor entries under way, none is out.
LEMMA NoneOut ==
    ASSUME FiniteBag(net), \A c \in Cores : count[c] = 0, cores_out = 0,
           \A x \in BagToSet(net) : x.type # "increment" /\ x.type # "enter"
    PROVE  CoresOutExact
<1>1. \A x : Copies(x) \in Nat /\ (x \in BagToSet(net) <=> Copies(x) > 0)
  BY NetMembers
<1>2. Copies(Enter) = 0 /\ \A t : Copies(Increment(t)) = 0
  BY <1>1, Types
<1>3. {t \in Tasks : Copies(Increment(t)) > 0} = {} /\ \A t \in Tasks : Copies(Increment(t)) <= 1
  BY <1>2
<1>4. Increments = 0
  BY <1>3, IncrementsTotal, FS_EmptySet
<1>5. {c \in Cores : count[c] # 0} = {}
  OBVIOUS
<1>6. Cardinality({c \in Cores : count[c] # 0}) = 0
  BY <1>5, FS_EmptySet
<1> QED BY <1>2, <1>4, <1>6 DEF CoresOutExact

\* While the user task enrolls, its core is out or about to be counted.
LEMMA StartingOut ==
    ASSUME Inv, Starting
    PROVE  CoresOutExact
<1>1. /\ FiniteBag(net) /\ Origin \in Cores /\ User \in Tasks
      /\ \A x : Copies(x) \in Nat
      /\ \A x : Copies(x) > 0 => x \in ByMsgs \union StartMsgs
  BY StartingFacts
<1>2. \A x : Copies(x) \in Nat /\ (x \in BagToSet(net) <=> Copies(x) > 0)
  BY <1>1, NetMembers
<1>3. \A x \in BagToSet(net) : x.type # "enter" /\ (x.type = "increment" => x = Increment(User))
  BY <1>1, <1>2, StageMsgs
<1>4. Copies(Enter) = 0 /\ \A t \in Tasks : t # User => Copies(Increment(t)) = 0
  BY <1>2, <1>3, Types
<1>5. /\ Copies(Increment(User)) \in {0, 1} /\ cores_out = 1 - Copies(Increment(User))
  BY <1>1 DEF Starting
<1>6. \A x \in BagToSet(net) : x.type = "increment" => x.task \in Tasks /\ x = Increment(x.task)
  BY <1>1, <1>3, Types
<1>7. \A t \in Tasks : Copies(Increment(t)) <= 1
  BY <1>4, <1>5
<1>8. Increments = Cardinality({t \in Tasks : Copies(Increment(t)) > 0})
  BY <1>1, <1>6, <1>7, IncrementsTotal
<1>9. Increments = Copies(Increment(User))
  <2>1. CASE Copies(Increment(User)) = 0
    <3>1. {t \in Tasks : Copies(Increment(t)) > 0} = {}
      BY <1>4, <2>1
    <3> QED BY <1>8, <2>1, <3>1, FS_EmptySet
  <2>2. CASE Copies(Increment(User)) = 1
    <3>1. {t \in Tasks : Copies(Increment(t)) > 0} = {User}
      BY <1>1, <1>4, <2>2
    <3> QED BY <1>8, <2>2, <3>1, FS_Singleton
  <2> QED BY <1>5, <2>1, <2>2
<1>10. {c \in Cores : count[c] # 0} = {Origin}
  <2>1. NumCores # 0 /\ \A c \in Cores : count[c] = IF c = Origin THEN NumCores ELSE 0
    BY Names DEF Starting
  <2> QED BY <1>1, <2>1
<1>11. Cardinality({c \in Cores : count[c] # 0}) = 1
  BY <1>10, FS_Singleton
<1> QED BY <1>4, <1>5, <1>9, <1>11 DEF CoresOutExact

\* At work the calls under way are those of the tasks of the loop.
LEMMA WorkOut ==
    ASSUME Inv, AtWork
    PROVE  CoresOutExact
<1>1. /\ FiniteBag(net) /\ Workers \subseteq Tasks
      /\ \A x : Copies(x) \in Nat /\ (x \in BagToSet(net) <=> Copies(x) > 0)
      /\ \A x : Copies(x) > 0 => x \in ByMsgs \union WorkMsgs
  BY WorkFacts
<1>2. \A x \in BagToSet(net) : x.type = "increment" => x.task \in Workers /\ x = Increment(x.task)
  BY <1>1, StageMsgs
<1>3. \A t \in Tasks : t \notin Workers => Copies(Increment(t)) = 0
  BY <1>1, <1>2, Types
<1>4. \A t \in Workers : Copies(Increment(t)) <= 1
  BY DEF AtWork, Calls
<1>5. \A t \in Tasks : Copies(Increment(t)) <= 1
  BY <1>3, <1>4
<1>6. {t \in Tasks : Copies(Increment(t)) > 0} = Callers
  BY <1>1, <1>3 DEF Callers
<1>7. Increments = Cardinality(Callers)
  BY <1>1, <1>2, <1>5, <1>6, IncrementsTotal
<1> QED BY <1>7 DEF AtWork, Reported, Busy, CoresOutExact

\* cores_out is exact in every stage.
LEMMA InvOut == Inv => CoresOutExact
<1> SUFFICES ASSUME Inv PROVE CoresOutExact
  OBVIOUS
<1>1. FiniteBag(net)
  BY DEF Inv, Base, Shape
<1>2. ASSUME Resting PROVE CoresOutExact
  BY <1>1, <1>2, NoneOut, StageMsgs DEF Resting
<1>3. ASSUME Resetting PROVE CoresOutExact
  BY <1>1, <1>3, NoneOut, StageMsgs DEF Resetting
<1>4. ASSUME Waking PROVE CoresOutExact
  BY <1>1, <1>4, NoneOut, StageMsgs, Types DEF Waking
<1> QED BY <1>2, <1>3, <1>4, StartingOut, WorkOut DEF Inv

(***************************************************************************)
(* The theorems.                                                           *)
(***************************************************************************)

\* The invariant holds in every state of the event.
LEMMA Always ==
    ASSUME Dec = 1
    PROVE  Spec => []Inv
<1>1. Init => Inv
  BY InitInv
<1>2. Inv /\ [Next]_vars => Inv'
  BY NextInv
<1>3. QED
  BY <1>1, <1>2, PTL DEF Spec

\* The fields of an event, its messages and its tasks keep their types; no count
\* and no cores_out goes below 0, which complete() does not look at.
THEOREM TypeCorrect ==
    ASSUME Dec = 1
    PROVE  Spec => []TypeOK
<1>1. Spec => []Inv
  BY Always
<1>2. Inv => TypeOK
  BY InvTypes
<1>3. QED
  BY <1>1, <1>2, PTL

\* The count of a core is what was enrolled there and has not been completed,
\* wherever the completion is: in a task, merged by send_completion into what
\* mark_sent sends next, or under way.
THEOREM CountCorrect ==
    ASSUME Dec = 1
    PROVE  Spec => []CountExact
<1>1. Spec => []Inv
  BY Always
<1>2. Inv => CountExact
  BY InvCount
<1>3. QED
  BY <1>1, <1>2, PTL

\* cores_out is the number of cores with work but for the messages about it that
\* are under way, which arrive at the master in any order.
THEOREM CoresOutCorrect ==
    ASSUME Dec = 1
    PROVE  Spec => []CoresOutExact
<1>1. Spec => []Inv
  BY Always
<1>2. Inv => CoresOutExact
  BY InvOut
<1>3. QED
  BY <1>1, <1>2, PTL

\* No CHECK of the event fails: the master resets it only when every count is 0,
\* though calls of enroll and entries to the barrier overtake each other.
THEOREM ChecksCorrect ==
    ASSUME Dec = 1
    PROVE  Spec => []ChecksHold
<1>1. Spec => []Inv
  BY Always
<1>2. Inv => ChecksHold
  BY InvTypes
<1>3. QED
  BY <1>1, <1>2, PTL

\* wait() returns to nobody while a task of the phase it waited for still works,
\* over any number of rounds, whether the loop enrolls anew or recurs.
THEOREM PhasesCorrect ==
    ASSUME Dec = 1
    PROVE  Spec => []PhasesApart
<1>1. Spec => []Inv
  BY Always
<1>2. Inv => PhasesApart
  BY InvPhases
<1>3. QED
  BY <1>1, <1>2, PTL
=========================================================================

---------------------------- MODULE SequenceFacts -----------------------------
(***************************************************************************)
(* Facts about positions of sequences, and about the orders in which a     *)
(* finite set is listed, that the proofs about the daemons share.          *)
(***************************************************************************)
EXTENDS Integers, Sequences, FiniteSets, SequencesExt, FiniteSetsExt, TLAPS,
        FiniteSetTheorems, SequenceTheorems, WellFoundedInduction, Picking

(* Every non-empty set of naturals has a least element.  What is proved by *)
(* induction on the length of a sequence is proved by looking at the       *)
(* shortest counterexample.                                                *)
LEMMA LeastOf ==
  ASSUME NEW T \in SUBSET Nat, T # {}
  PROVE  \E x \in T : \A y \in T : x <= y
<1> DEFINE R == OpToRel(<, Nat)
<1>1. IsWellFoundedOn(R, Nat)
  BY NatLessThanWellFounded
<1>2. \A x, y \in Nat : y < x => <<y, x>> \in R
  BY DEF OpToRel
<1> HIDE DEF R
<1>3. PICK x \in T : \A y \in T : ~ (<<y, x>> \in R)
  BY <1>1, WFMin
<1>4. \A y \in T : ~ (y < x)
  BY <1>2, <1>3
<1> QED
  BY <1>4

(* A non-empty set of positions has a last one. *)
LEMMA GreatestOf ==
  ASSUME NEW n \in Nat, NEW T \in SUBSET (1..n), T # {}
  PROVE  \E x \in T : \A y \in T : y <= x
<1> DEFINE U == {k \in 0..n : n - k \in T}
<1>1. U \in SUBSET Nat
  OBVIOUS
<1>2. U # {}
  <2>1. PICK x \in T : TRUE
    OBVIOUS
  <2>2. x \in 1..n
    OBVIOUS
  <2>3. /\ n - x \in 0..n
        /\ n - (n - x) = x
    BY <2>2
  <2>4. n - x \in U
    BY <2>1, <2>3
  <2> QED BY <2>4
<1>3. PICK k \in U : \A y \in U : k <= y
  <2> HIDE DEF U
  <2> QED BY <1>1, <1>2, LeastOf
<1>4. ASSUME NEW y \in T PROVE y <= n - k
  <2>1. y \in 1..n
    OBVIOUS
  <2>2. n - y \in 0..n /\ n - (n - y) = y
    BY <2>1
  <2>3. n - y \in U
    BY <2>2
  <2>4. k <= n - y /\ k \in 0..n
    BY <2>3, <1>3
  <2> QED BY <2>1, <2>4
<1> QED BY <1>3, <1>4

(* Max and Min choose such elements. *)
LEMMA MaxIs ==
  ASSUME NEW T \in SUBSET Int, NEW x \in T, \A y \in T : y <= x
  PROVE  Max(T) = x
<1>1. \A y \in T : x >= y
  OBVIOUS
<1>2. Max(T) \in T /\ \A y \in T : Max(T) >= y
  BY <1>1 DEF Max
<1>3. Max(T) >= x /\ x >= Max(T) /\ Max(T) \in Int
  BY <1>1, <1>2
<1> QED BY <1>3

LEMMA MinIs ==
  ASSUME NEW T \in SUBSET Nat, T # {}
  PROVE  Min(T) \in T /\ \A y \in T : Min(T) <= y
<1>1. PICK x \in T : \A y \in T : x <= y
  BY LeastOf
<1> QED BY <1>1 DEF Min

LEMMA MinOfTwo ==
  ASSUME NEW a \in Int, NEW b \in Int
  PROVE  Min({a, b}) = IF a <= b THEN a ELSE b
<1>1. \E x \in {a, b} : \A y \in {a, b} : x =< y
  OBVIOUS
<1>2. Min({a, b}) \in {a, b} /\ \A y \in {a, b} : Min({a, b}) =< y
  BY <1>1 DEF Min
<1> QED BY <1>2

(* SetToSeqs lists the elements of a finite set, each once. *)
LEMMA Listing ==
  ASSUME NEW S, IsFiniteSet(S), NEW s \in SetToSeqs(S)
  PROVE  /\ s \in Seq(S)
         /\ Len(s) = Cardinality(S)
         /\ \A x \in S : \E i \in 1..Len(s) : s[i] = x
         /\ \A i, j \in 1..Len(s) : s[i] = s[j] => i = j
<1> DEFINE n == Cardinality(S)
<1>1. n \in Nat
  BY FS_CardinalityType
<1>2. s \in [1..n -> S] /\ \A i, j \in 1..n : i # j => s[i] # s[j]
  BY DEF SetToSeqs
<1> HIDE DEF n
<1>3. s \in Seq(S) /\ Len(s) = n
  BY <1>1, <1>2
<1>4. IsFiniteSet(1..n) /\ Cardinality(1..n) = n
  BY <1>1, FS_Interval
<1>5. s \in Injection(1..n, S)
  BY <1>2 DEF Injection, IsInjective
<1>6. s \in Surjection(1..n, S)
  BY <1>4, <1>5, FS_Injection DEF n
<1> QED BY <1>2, <1>3, <1>6 DEF Surjection, n

(* Where an element of two sequences in a row comes from. *)
LEMMA InTwo ==
  ASSUME NEW T, NEW a \in Seq(T), NEW b \in Seq(T)
  PROVE  /\ a \o b \in Seq(T)
         /\ \A i \in 1..Len(a \o b) :
              \/ i \in 1..Len(a) /\ (a \o b)[i] = a[i]
              \/ \E k \in 1..Len(b) : /\ (a \o b)[i] = b[k]
                                      /\ i = Len(a \o b) <=> k = Len(b)
<1>1. PICK l \in Nat, m \in Nat : l = Len(a) /\ m = Len(b)
  OBVIOUS
<1>2. /\ Len(a \o b) = l + m
      /\ \A k \in 1..l : (a \o b)[k] = a[k]
      /\ \A k \in l + 1..l + m : k - l \in 1..m /\ (a \o b)[k] = b[k - l]
  BY <1>1
<1>3. \A i \in 1..l + m :
        \/ i \in 1..l
        \/ i \in l + 1..l + m /\ (i = l + m <=> i - l = m)
  OBVIOUS
<1> QED BY <1>1, <1>2, <1>3

(* Reading from a socket moves elements without changing their order, ...  *)
LEMMA MovePieces ==
  ASSUME NEW T, NEW s \in Seq(T), NEW p \in Seq(T), NEW n \in 0..Len(p)
  PROVE  /\ s \o SubSeq(p, 1, n) \in Seq(T)
         /\ Len(s \o SubSeq(p, 1, n)) = Len(s) + n
         /\ SubSeq(p, 1, n) \in Seq(T) /\ SubSeq(p, n + 1, Len(p)) \in Seq(T)
         /\ Len(SubSeq(p, n + 1, Len(p))) = Len(p) - n
<1> DEFINE h == SubSeq(p, 1, n)
           q == SubSeq(p, n + 1, Len(p))
<1>1. Len(p) \in Nat /\ n \in Nat /\ n <= Len(p)
  BY LenProperties
<1>2. /\ \A i \in 1..n : p[i] \in T
      /\ \A i \in n + 1..Len(p) : p[i] \in T
  BY <1>1, ElementOfSeq
<1>3. h \in Seq(T) /\ Len(h) = n
  BY <1>1, <1>2, SubSeqProperties
<1>4. q \in Seq(T) /\ Len(q) = Len(p) - n
  <2>1. n + 1 \in Int /\ Len(p) \in Int
    BY <1>1
  <2>2. /\ q \in Seq(T)
        /\ Len(q) = IF n + 1 <= Len(p) THEN Len(p) - (n + 1) + 1 ELSE 0
    BY <2>1, <1>2, SubSeqProperties
  <2> QED
    BY <2>2, <1>1
<1>5. s \o h \in Seq(T) /\ Len(s \o h) = Len(s) + n
  BY <1>3, ConcatProperties
<1> QED
  BY <1>3, <1>4, <1>5 DEF h, q

LEMMA KeepOrder ==
  ASSUME NEW T, NEW s \in Seq(T), NEW p \in Seq(T), NEW n \in 0..Len(p),
         NEW w, w = s \o SubSeq(p, 1, n)
  PROVE  w \o SubSeq(p, n + 1, Len(p)) = s \o p
<1> DEFINE h == SubSeq(p, 1, n)
           q == SubSeq(p, n + 1, Len(p))
<1>1. n \in 0..Len(p) /\ Len(p) \in Nat
  BY LenProperties
<1>2. h \in Seq(T) /\ q \in Seq(T)
  BY MovePieces
<1>3. h \o q = p
  <2>1. 1 \in 1..Len(p) + 1 /\ n \in 1 - 1..Len(p) /\ Len(p) \in n..Len(p)
    BY <1>1
  <2>2. h \o q = SubSeq(p, 1, Len(p))
    BY <2>1, ConcatAdjacentSubSeq
  <2> QED
    BY <2>2, SubSeqFull
<1>4. (s \o h) \o q = s \o (h \o q)
  <2> HIDE DEF h, q
  <2> QED
    BY <1>2, SMTT(30)
<1> QED
  BY <1>3, <1>4

(* ... and what is taken from what was read is taken from the whole.       *)
LEMMA TakeFront ==
  ASSUME NEW T, NEW a \in Seq(T), NEW q \in Seq(T), NEW m \in 0..Len(a)
  PROVE  /\ SubSeq(a, m + 1, Len(a)) \in Seq(T)
         /\ Len(SubSeq(a, m + 1, Len(a))) = Len(a) - m
         /\ SubSeq(a, m + 1, Len(a)) \o q
              = SubSeq(a \o q, m + 1, Len(a \o q))
<1> DEFINE f == SubSeq(a, m + 1, Len(a))
           w == a \o q
           g == SubSeq(w, m + 1, Len(w))
           A == Len(a)
           Q == Len(q)
<1>1. A \in Nat /\ Q \in Nat /\ m \in Nat /\ m <= A
  BY LenProperties
<1>2. /\ w \in Seq(T) /\ Len(w) = A + Q
      /\ \A i \in 1..A + Q : w[i] = IF i <= A THEN a[i] ELSE q[i - A]
  BY ConcatProperties
<1>3. /\ f \in Seq(T) /\ Len(f) = A - m
      /\ \A i \in 1..A - m : f[i] = a[m + i]
  <2>1. m + 1 \in Int /\ A \in Int
    BY <1>1
  <2>2. \A i \in m + 1..A : a[i] \in T
    BY <1>1, ElementOfSeq
  <2>3. /\ f \in Seq(T)
        /\ Len(f) = IF m + 1 <= A THEN A - (m + 1) + 1 ELSE 0
        /\ \A i \in 1..A - (m + 1) + 1 : f[i] = a[m + 1 + i - 1]
    BY <2>1, <2>2, SubSeqProperties
  <2> QED
    BY <2>3, <1>1
<1>4. /\ g \in Seq(T) /\ Len(g) = A + Q - m
      /\ \A i \in 1..A + Q - m : g[i] = w[m + i]
  <2>1. m + 1 \in Int /\ Len(w) \in Int /\ Len(w) = A + Q
    BY <1>1, <1>2
  <2>2. \A i \in m + 1..Len(w) : w[i] \in T
    BY <1>1, <1>2, ElementOfSeq
  <2>3. /\ g \in Seq(T)
        /\ Len(g) = IF m + 1 <= Len(w) THEN Len(w) - (m + 1) + 1 ELSE 0
        /\ \A i \in 1..Len(w) - (m + 1) + 1 : g[i] = w[m + 1 + i - 1]
    BY <2>1, <2>2, SubSeqProperties
  <2> QED
    <3> HIDE DEF g, w, A, Q
    <3>1. (m + 1 <= A + Q <=> A + Q - m > 0) /\ A + Q - (m + 1) + 1 = A + Q - m
      BY <1>1
    <3>2. Len(g) = A + Q - m
      BY <2>1, <2>3, <3>1, <1>1
    <3>3. \A i \in 1..A + Q - m : g[i] = w[m + i]
      <4> SUFFICES ASSUME NEW i \in 1..A + Q - m PROVE g[i] = w[m + i]
        OBVIOUS
      <4>1. i \in 1..Len(w) - (m + 1) + 1 /\ m + 1 + i - 1 = m + i
        BY <2>1, <3>1, <1>1
      <4> QED
        BY <4>1, <2>3
    <3> QED
      BY <2>3, <3>2, <3>3
<1>m. A - m \in Nat
  BY <1>1
<1> HIDE DEF f, g, w, A
<1>5. /\ f \o q \in Seq(T) /\ Len(f \o q) = (A - m) + Q
      /\ \A i \in 1..(A - m) + Q :
           (f \o q)[i] = IF i <= A - m THEN f[i] ELSE q[i - (A - m)]
  <2>1. /\ f \o q \in Seq(T) /\ Len(f \o q) = Len(f) + Q
        /\ \A i \in 1..Len(f) + Q :
             (f \o q)[i] = IF i <= Len(f) THEN f[i] ELSE q[i - Len(f)]
    BY <1>3, ConcatProperties
  <2>2. Len(f) = A - m
    BY <1>3
  <2> QED
    BY <2>1, <2>2
<1> HIDE DEF Q
<1>6. \A i \in 1..(A - m) + Q : (f \o q)[i] = g[i]
  <2> SUFFICES ASSUME NEW i \in 1..(A - m) + Q PROVE (f \o q)[i] = g[i]
    OBVIOUS
  <2>1. i \in 1..A + Q - m /\ m + i \in 1..A + Q
    BY <1>1
  <2>2. g[i] = w[m + i]
    BY <2>1, <1>4
  <2>3. CASE i <= A - m
    <3>1. i \in 1..A - m /\ m + i <= A
      BY <2>3, <1>1
    <3> QED
      BY <3>1, <2>1, <2>2, <2>3, <1>2, <1>3, <1>5
  <2>4. CASE ~(i <= A - m)
    <3>1. ~(m + i <= A) /\ (m + i) - A = i - (A - m)
      BY <2>4, <1>1
    <3> QED
      BY <3>1, <2>1, <2>2, <2>4, <1>2, <1>5
  <2> QED
    BY <2>3, <2>4
<1>7. f \o q = g
  <2>1. Len(f \o q) = Len(g)
    BY <1>1, <1>4, <1>5
  <2> QED
    BY <2>1, <1>4, <1>5, <1>6, SeqEqual
<1> QED
  BY <1>3, <1>7 DEF f, w, g, A, Q

-----------------------------------------------------------------------------
(* Sequences picked by position. *)

(* Positions of a sequence are finitely many. *)
LEMMA FiniteSub == ASSUME NEW n \in Nat, NEW K \in SUBSET (1..n)
  PROVE IsFiniteSet(K) /\ Cardinality(K) \in Nat /\ Cardinality(K) <= n
<1>1. IsFiniteSet(1..n) /\ Cardinality(1..n) = n
  BY FS_Interval
<1>2. IsFiniteSet(K) /\ Cardinality(K) <= n
  BY <1>1, FS_Subset
<1> QED BY <1>2, FS_CardinalityType

(* One more position is counted, or none. *)
LEMMA RankStep ==
  ASSUME NEW n \in Nat, NEW K \in SUBSET (1..n), NEW x \in 1..n
  PROVE  /\ x \in K => UpTo(K, x) = UpTo(K, x - 1) \cup {x}
         /\ x \notin K => UpTo(K, x) = UpTo(K, x - 1)
         /\ x \notin UpTo(K, x - 1)
<1> USE DEF UpTo
<1>1. \A m \in K : m \in Nat /\ (m <= x <=> m <= x - 1 \/ m = x)
  OBVIOUS
<1>2. x \notin UpTo(K, x - 1)
  OBVIOUS
<1>3. ASSUME x \in K PROVE UpTo(K, x) = UpTo(K, x - 1) \cup {x}
  BY <1>1, <1>3
<1>4. ASSUME x \notin K PROVE UpTo(K, x) = UpTo(K, x - 1)
  BY <1>1, <1>4
<1> QED BY <1>2, <1>3, <1>4

(* No position is up to 0, all of them are up to the length. *)
LEMMA RankEnds ==
  ASSUME NEW n \in Nat, NEW K \in SUBSET (1..n)
  PROVE  UpTo(K, 0) = {} /\ UpTo(K, n) = K
<1>1. \A m \in K : m \in Nat /\ m <= n /\ ~ (m <= 0)
  OBVIOUS
<1> QED
  BY <1>1 DEF UpTo

(* The j-th of the positions in K exists, for every j up to their number. *)
LEMMA RankExists ==
  ASSUME NEW n \in Nat, NEW K \in SUBSET (1..n), NEW j \in 1..Cardinality(K)
  PROVE  \E i \in K : Cardinality(UpTo(K, i)) = j
<1> DEFINE T == {i \in 1..n : Cardinality(UpTo(K, i)) >= j}
<1>1. Cardinality(K) \in Nat /\ j \in Nat /\ j >= 1
  BY FiniteSub
<1>2. \A i \in 0..n : IsFiniteSet(UpTo(K, i)) /\ Cardinality(UpTo(K, i)) \in Nat
  <2> SUFFICES ASSUME NEW i \in 0..n
               PROVE IsFiniteSet(UpTo(K, i)) /\ Cardinality(UpTo(K, i)) \in Nat
    OBVIOUS
  <2>1. UpTo(K, i) \in SUBSET (1..n)
    BY DEF UpTo
  <2> QED
    BY <2>1, FiniteSub
<1>3. n \in T
  <2>1. n # 0
    <3>1. n = 0 => K = {}
      OBVIOUS
    <3>2. K # {}
      BY <1>1, FS_EmptySet
    <3> QED BY <3>1, <3>2
  <2> QED
    BY <2>1, <1>1, RankEnds
<1>4. PICK x \in T : \A y \in T : x <= y
  <2>1. T \in SUBSET Nat /\ T # {}
    BY <1>3
  <2> HIDE DEF T
  <2> QED
    BY <2>1, LeastOf
<1>5. x \in 1..n /\ Cardinality(UpTo(K, x)) >= j
  OBVIOUS
<1>6. Cardinality(UpTo(K, x - 1)) < j
  <2>1. CASE x = 1
    <3>1. x - 1 = 0
      BY <2>1
    <3>2. Cardinality(UpTo(K, x - 1)) = 0
      BY <3>1, RankEnds, FS_EmptySet
    <3> QED
      BY <3>2, <1>1
  <2>2. CASE x # 1
    <3>1. x - 1 \in 1..n /\ x - 1 \notin T
      BY <1>4, <1>5, <2>2
    <3> QED
      BY <3>1, <1>2, <1>1
  <2> QED
    BY <2>1, <2>2
<1>7. x \in K
  BY <1>5, <1>6, <1>2, RankStep
<1>8. Cardinality(UpTo(K, x)) = Cardinality(UpTo(K, x - 1)) + 1
  <2>1. UpTo(K, x) = UpTo(K, x - 1) \cup {x} /\ x \notin UpTo(K, x - 1)
    BY <1>5, <1>7, RankStep
  <2>2. x - 1 \in 0..n
    BY <1>5
  <2>3. IsFiniteSet(UpTo(K, x - 1))
    BY <1>2, <2>2
  <2> QED
    BY <2>1, <2>3, FS_AddElement
<1>9. Cardinality(UpTo(K, x)) = j
  <2>1. x - 1 \in 0..n /\ x \in 0..n
    BY <1>5
  <2>2. Cardinality(UpTo(K, x)) \in Nat /\ Cardinality(UpTo(K, x - 1)) \in Nat
    BY <2>1, <1>2
  <2> QED
    BY <1>1, <1>5, <1>6, <1>8, <2>2
<1> QED
  BY <1>7, <1>9

(* Ranked lists the positions in K, each once, at its rank. *)
LEMMA RankedIs ==
  ASSUME NEW n \in Nat, NEW K \in SUBSET (1..n)
  PROVE  /\ Ranked(K) \in Seq(Nat)
         /\ Len(Ranked(K)) = Cardinality(K)
         /\ Cardinality(K) \in Nat /\ Cardinality(K) <= n
         /\ \A j \in 1..Cardinality(K) :
              Ranked(K)[j] \in K /\ Cardinality(UpTo(K, Ranked(K)[j])) = j
<1> DEFINE c == Cardinality(K)
           at(j) == CHOOSE i \in K : Cardinality(UpTo(K, i)) = j
<1>1. c \in Nat /\ c <= n
  BY FiniteSub
<1>2. \A j \in 1..c : at(j) \in K /\ Cardinality(UpTo(K, at(j))) = j
  <2> TAKE j \in 1..c
  <2>1. \E i \in K : Cardinality(UpTo(K, i)) = j
    BY RankExists, Zenon
  <2> QED
    BY <2>1, Zenon
<1>3. Ranked(K) = [j \in 1..c |-> at(j)]
  BY DEF Ranked
<1> HIDE DEF c, at
<1>4. \A j \in 1..c : at(j) \in Nat
  <2>1. \A i \in K : i \in Nat
    OBVIOUS
  <2> QED BY <1>2, <2>1, Zenon
<1>5. Ranked(K) \in Seq(Nat) /\ Len(Ranked(K)) = c
  BY <1>1, <1>3, <1>4
<1>6. \A j \in 1..c : Ranked(K)[j] = at(j)
  BY <1>3
<1> QED
  BY <1>1, <1>2, <1>5, <1>6 DEF c

(* The rank of a position, and that ranks tell positions apart. *)
LEMMA RankOf ==
  ASSUME NEW n \in Nat, NEW K \in SUBSET (1..n)
  PROVE  /\ \A i \in K : /\ Cardinality(UpTo(K, i)) \in 1..Cardinality(K)
                         /\ Ranked(K)[Cardinality(UpTo(K, i))] = i
         /\ \A i, k \in K : i < k => Cardinality(UpTo(K, i)) < Cardinality(UpTo(K, k))
<1>1. ASSUME NEW k \in 0..n
      PROVE  /\ IsFiniteSet(UpTo(K, k)) /\ Cardinality(UpTo(K, k)) \in Nat
             /\ UpTo(K, k) \in SUBSET K
  <2>1. UpTo(K, k) \in SUBSET (1..n) /\ UpTo(K, k) \in SUBSET K
    BY DEF UpTo
  <2> QED BY <2>1, FiniteSub
<1>2. ASSUME NEW i \in K, NEW k \in K, i < k
      PROVE  Cardinality(UpTo(K, i)) < Cardinality(UpTo(K, k))
  <2>1. i \in 0..n /\ k \in 0..n /\ ~(k <= i)
    BY <1>2
  <2>2. \A m \in K : m <= i => m <= k
    BY <1>2
  <2>3. UpTo(K, i) \subseteq UpTo(K, k) /\ UpTo(K, i) # UpTo(K, k)
    <3>1. UpTo(K, i) \subseteq UpTo(K, k)
      BY <2>2 DEF UpTo
    <3>2. k \in UpTo(K, k) /\ k \notin UpTo(K, i)
      BY <2>1 DEF UpTo
    <3> QED BY <3>1, <3>2
  <2>4. IsFiniteSet(UpTo(K, k)) /\ IsFiniteSet(UpTo(K, i))
    BY <1>1, <2>1
  <2> QED BY <2>3, <2>4, FS_Subset, FS_CardinalityType
<1>3. ASSUME NEW i \in K PROVE Cardinality(UpTo(K, i)) \in 1..Cardinality(K)
  <2>1. i \in 0..n /\ i \in UpTo(K, i)
    BY DEF UpTo
  <2>2. IsFiniteSet(K) /\ Cardinality(K) \in Nat
    BY FiniteSub
  <2>3. Cardinality(UpTo(K, i)) <= Cardinality(K)
    BY <1>1, <2>1, <2>2, FS_Subset
  <2>4. Cardinality(UpTo(K, i)) # 0
    BY <1>1, <2>1, FS_EmptySet
  <2>5. Cardinality(UpTo(K, i)) \in Nat
    BY <1>1, <2>1
  <2> QED BY <2>2, <2>3, <2>4, <2>5
<1>4. ASSUME NEW i \in K PROVE Ranked(K)[Cardinality(UpTo(K, i))] = i
  <2>1. PICK j \in 1..Cardinality(K) : j = Cardinality(UpTo(K, i))
    BY <1>3
  <2>2. Ranked(K)[j] \in K /\ Cardinality(UpTo(K, Ranked(K)[j])) = j
    BY RankedIs
  <2>3. PICK k \in K : k = Ranked(K)[j] /\ Cardinality(UpTo(K, k)) = j
    BY <2>2
  <2>4. ~(i < k) /\ ~(k < i)
    BY <1>2, <2>1, <2>3
  <2>5. i \in Nat /\ k \in Nat
    OBVIOUS
  <2> QED BY <2>1, <2>3, <2>4, <2>5
<1> QED BY <1>2, <1>3, <1>4

(* Pick returns the elements of q at the positions given. *)
LEMMA PickProperties ==
  ASSUME NEW S, NEW q \in Seq(S), NEW K \in SUBSET (1..Len(q))
  PROVE  /\ Pick(q, K) \in Seq(S)
         /\ Len(Pick(q, K)) = Cardinality(K)
         /\ Len(Pick(q, K)) <= Len(q)
         /\ \A j \in 1..Len(Pick(q, K)) :
              Ranked(K)[j] \in K /\ Pick(q, K)[j] = q[Ranked(K)[j]]
<1>1. /\ Len(q) \in Nat /\ Cardinality(K) \in Nat /\ Cardinality(K) <= Len(q)
      /\ \A j \in 1..Cardinality(K) : Ranked(K)[j] \in K
  BY RankedIs, LenProperties
<1>2. \A i \in K : q[i] \in S
  BY ElementOfSeq
<1>3. Pick(q, K) = [j \in 1..Cardinality(K) |-> q[Ranked(K)[j]]]
  BY DEF Pick
<1>4. \A j \in 1..Cardinality(K) : q[Ranked(K)[j]] \in S
  BY <1>1, <1>2
<1>5. Pick(q, K) \in Seq(S) /\ Len(Pick(q, K)) = Cardinality(K)
  BY <1>1, <1>3, <1>4
<1> QED BY <1>1, <1>3, <1>5

(* Every element at a position given is among those picked; when all are   *)
(* given nothing changes.                                                  *)
LEMMA PickKeeps ==
  ASSUME NEW S, NEW q \in Seq(S), NEW K \in SUBSET (1..Len(q)), NEW i \in K
  PROVE  \E j \in 1..Len(Pick(q, K)) : Pick(q, K)[j] = q[i]
<1> DEFINE j == Cardinality(UpTo(K, i))
<1>1. Len(q) \in Nat
  BY LenProperties
<1>2. j \in 1..Cardinality(K) /\ Ranked(K)[j] = i
  BY <1>1, RankOf
<1>3. Pick(q, K) = [k \in 1..Cardinality(K) |-> q[Ranked(K)[k]]]
  BY DEF Pick
<1>4. Len(Pick(q, K)) = Cardinality(K)
  BY PickProperties
<1> HIDE DEF j
<1>5. Pick(q, K)[j] = q[i]
  BY <1>2, <1>3
<1> QED BY <1>2, <1>4, <1>5

LEMMA PickAll ==
  ASSUME NEW S, NEW q \in Seq(S)
  PROVE  Pick(q, 1..Len(q)) = q
<1>1. PICK n \in Nat : n = Len(q)
  BY LenProperties
<1>2. Cardinality(1..n) = n
  BY FS_Interval
<1>3. ASSUME NEW i \in 1..n PROVE Ranked(1..n)[i] = i
  <2>1. UpTo(1..n, i) = 1..i
    BY DEF UpTo
  <2>2. Cardinality(UpTo(1..n, i)) = i
    BY <2>1, FS_Interval
  <2>3. Ranked(1..n)[Cardinality(UpTo(1..n, i))] = i
    BY RankOf
  <2> QED BY <2>2, <2>3
<1>4. Pick(q, 1..n) = [j \in 1..n |-> q[j]]
  BY <1>2, <1>3 DEF Pick
<1>5. q = [j \in 1..n |-> q[j]]
  BY <1>1
<1> QED BY <1>1, <1>4, <1>5
===============================================================================

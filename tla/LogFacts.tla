------------------------------ MODULE LogFacts ------------------------------
(***************************************************************************)
(* Facts about sequences to which entries are added and which are cut, and *)
(* about the first and the last of some places.                            *)
(***************************************************************************)
EXTENDS Integers, Sequences, FiniteSets, FiniteSetsExt, FiniteSetTheorems,
        SequenceTheorems, TLAPS

----------------------------------------------------------------------------
(* The largest and the smallest of some numbers.                            *)

\* Some natural numbers have a smallest one.
LEMMA LeastExists ==
    ASSUME NEW T, T \subseteq Nat, T # {}
    PROVE  \E x \in T : \A y \in T : x <= y
<1> DEFINE R == {ss \in Nat \X Nat : ss[1] < ss[2]}
<1>1. IsWellFoundedOn(R, Nat)
  BY NatLessThanWellFounded DEF OpToRel
<1> HIDE DEF R
<1>2. \E x \in T : \A y \in T : ~(<<y, x>> \in R)
  BY <1>1, WFMin
<1>3. PICK x \in T : \A y \in T : ~(<<y, x>> \in R)
  BY <1>2
<1>4. ASSUME NEW y \in T
      PROVE  x <= y
  <2>1. x \in Nat /\ y \in Nat
    OBVIOUS
  <2>2. ~(<<y, x>> \in R)
    BY <1>3
  <2>3. ~(y < x)
    BY <2>1, <2>2 DEF R
  <2> QED BY <2>1, <2>3
<1> QED BY <1>4

\* A set of positive numbers up to n has a smallest one.
LEMMA MinExists ==
    ASSUME NEW n \in Nat, NEW S \in SUBSET (1 .. n), S # {}
    PROVE  Min(S) \in S /\ \A m \in S : Min(S) <= m
<1>1. S \subseteq Nat
  OBVIOUS
<1>2. \E x \in S : \A y \in S : x <= y
  BY <1>1, LeastExists
<1> QED BY <1>2 DEF Min

\* It has a largest one too.
LEMMA MaxExists ==
    ASSUME NEW n \in Nat, NEW S \in SUBSET (1 .. n), S # {}
    PROVE  Max(S) \in S /\ \A m \in S : m <= Max(S)
<1> DEFINE T == {n - m : m \in S}
<1>1. \A m \in S : m \in 1 .. n
  OBVIOUS
<1>2. T \subseteq Nat
  BY <1>1
<1>3. T # {}
  OBVIOUS
<1>4. \E x \in T : \A y \in T : x <= y
  BY <1>2, <1>3, LeastExists
<1>5. PICK k \in S : \A y \in T : n - k <= y
  BY <1>4
<1>6. \A m \in S : n - k <= n - m
  BY <1>5
<1>7. \A m \in S : k >= m
  BY <1>1, <1>6
<1>8. Max(S) \in S /\ \A m \in S : Max(S) >= m
  BY <1>7 DEF Max
<1> QED BY <1>1, <1>8

----------------------------------------------------------------------------
(* The log as a sequence.                                                   *)

IsLog(s) == s \in Seq({s[i] : i \in DOMAIN s})

\* A sequence over any set is a log.
LEMMA IsLogOfAnything ==
    ASSUME NEW S, NEW s \in Seq(S)
    PROVE  IsLog(s)
BY SeqOfRange DEF Range, IsLog

\* A log has one more entry after another was appended.
LEMMA Appended ==
    ASSUME NEW s, IsLog(s), NEW e
    PROVE  /\ IsLog(Append(s, e))
           /\ Len(s) \in Nat /\ DOMAIN s = 1 .. Len(s)
           /\ Len(Append(s, e)) = Len(s) + 1
           /\ DOMAIN Append(s, e) = 1 .. Len(s) + 1
           /\ \A i \in 1 .. Len(s) : Append(s, e)[i] = s[i]
           /\ Append(s, e)[Len(s) + 1] = e
<1> DEFINE S == {s[i] : i \in DOMAIN s}
           t == Append(s, e)
<1>1. s \in Seq(S \cup {e}) /\ e \in S \cup {e}
  BY SeqMonotonic, S \subseteq S \cup {e} DEF IsLog
<1> HIDE DEF S
<1>2. /\ t \in Seq(S \cup {e})
      /\ Len(t) = Len(s) + 1
      /\ \A i \in 1 .. Len(s) : t[i] = s[i]
      /\ t[Len(s) + 1] = e
  BY <1>1, AppendProperties
<1>3. /\ Len(s) \in Nat /\ DOMAIN s = 1 .. Len(s)
      /\ Len(t) \in Nat /\ DOMAIN t = 1 .. Len(t)
  BY <1>1, <1>2, LenProperties
<1>4. IsLog(t)
  BY <1>2, IsLogOfAnything
<1> QED BY <1>2, <1>3, <1>4

\* What is left of a log that was cut before h.
LEMMA CutShort ==
    ASSUME NEW s, IsLog(s), Len(s) \in Nat, NEW h \in 1 .. Len(s) + 1
    PROVE  LET t == SubSeq(s, 1, h - 1)
           IN  /\ IsLog(t)
               /\ Len(t) = h - 1
               /\ DOMAIN t = 1 .. h - 1
               /\ \A i \in 1 .. h - 1 : t[i] = s[i]
<1> DEFINE S == {s[i] : i \in DOMAIN s}
           t == SubSeq(s, 1, h - 1)
<1>1. s \in Seq(S) /\ Len(s) \in Nat
  BY LenProperties DEF IsLog
<1> HIDE DEF S
<1>2. /\ t \in Seq(S)
      /\ Len(t) = h - 1
      /\ \A i \in 1 .. h - 1 : t[i] = s[i]
  BY <1>1, SubSeqProperties
<1>3. Len(t) \in Nat /\ DOMAIN t = 1 .. Len(t)
  BY <1>2, LenProperties
<1>4. IsLog(t)
  BY <1>2, IsLogOfAnything
<1> QED BY <1>2, <1>3, <1>4

----------------------------------------------------------------------------
(* Some places, in their order.                                             *)

UpTo(K, n) == K \cap 1 .. n

\* The n-th place counts if it is one of them.
LEMMA CountedUpTo ==
    ASSUME NEW n \in Nat, NEW K \in SUBSET Nat
    PROVE  /\ Cardinality(UpTo(K, n)) \in Nat
           /\ Cardinality(UpTo(K, n + 1)) =
                 Cardinality(UpTo(K, n)) + (IF n + 1 \in K THEN 1 ELSE 0)
<1>1. IsFiniteSet(1 .. n)
  BY FS_Interval
<1>2. IsFiniteSet(UpTo(K, n))
  BY <1>1, FS_Subset DEF UpTo
<1>3. CASE n + 1 \in K
  <2>1. UpTo(K, n + 1) = UpTo(K, n) \cup {n + 1} /\ n + 1 \notin UpTo(K, n)
    BY <1>3 DEF UpTo
  <2> QED BY <1>2, <1>3, <2>1, FS_AddElement, FS_CardinalityType
<1>4. CASE n + 1 \notin K
  <2>1. UpTo(K, n + 1) = UpTo(K, n)
    BY <1>4 DEF UpTo
  <2> QED BY <1>2, <1>4, <2>1, FS_CardinalityType
<1> QED BY <1>3, <1>4

\* Further on there are no fewer of them.
LEMMA MoreUpTo ==
    ASSUME NEW n \in Nat, NEW m \in 0 .. n, NEW K \in SUBSET Nat
    PROVE  /\ Cardinality(UpTo(K, m)) <= Cardinality(UpTo(K, n))
           /\ m < n /\ n \in K =>
                 Cardinality(UpTo(K, m)) < Cardinality(UpTo(K, n))
<1>1. ASSUME NEW k \in Nat, m <= k
      PROVE  /\ Cardinality(UpTo(K, m)) <= Cardinality(UpTo(K, k))
             /\ Cardinality(UpTo(K, k)) \in Nat /\ Cardinality(UpTo(K, m)) \in Nat
  <2>1. UpTo(K, m) \subseteq UpTo(K, k)
    BY <1>1 DEF UpTo
  <2>2. IsFiniteSet(UpTo(K, k))
    <3>1. IsFiniteSet(1 .. k)
      BY FS_Interval
    <3> QED BY <3>1, FS_Subset DEF UpTo
  <2>3. Cardinality(UpTo(K, m)) <= Cardinality(UpTo(K, k))
    BY <2>1, <2>2, FS_Subset
  <2> QED BY <2>3, CountedUpTo
<1>2. CASE m < n /\ n \in K
  <2>1. n - 1 \in Nat /\ m <= n - 1 /\ (n - 1) + 1 = n
    BY <1>2
  <2>2. Cardinality(UpTo(K, n)) = Cardinality(UpTo(K, n - 1)) + 1
    BY <1>2, <2>1, CountedUpTo
  <2>3. /\ Cardinality(UpTo(K, m)) <= Cardinality(UpTo(K, n - 1))
        /\ Cardinality(UpTo(K, n - 1)) \in Nat /\ Cardinality(UpTo(K, m)) \in Nat
    BY <1>1, <2>1
  <2> QED BY <1>1, <2>2, <2>3
<1> QED BY <1>1, <1>2

\* The m-th of them.
Place(K, m) == CHOOSE n \in K : Cardinality(UpTo(K, n)) = m

\* There is one for each number up to how many there are, and each has one.
LEMMA Placed ==
    ASSUME NEW N \in Nat, NEW K \in SUBSET (1 .. N)
    PROVE  /\ Cardinality(K) \in Nat
           /\ \A m \in 1 .. Cardinality(K) : Place(K, m) \in K
           /\ \A n \in K : /\ Cardinality(UpTo(K, n)) \in 1 .. Cardinality(K)
                           /\ Place(K, Cardinality(UpTo(K, n))) = n
<1>0. K \in SUBSET Nat
  OBVIOUS
<1>1. Cardinality(K) = Cardinality(UpTo(K, N)) /\ Cardinality(K) \in Nat
  <2>1. K = UpTo(K, N)
    BY DEF UpTo
  <2> QED BY <1>0, <2>1, CountedUpTo
<1>2. Cardinality(UpTo(K, 0)) = 0
  <2>1. UpTo(K, 0) = {}
    BY DEF UpTo
  <2> QED BY <2>1, FS_EmptySet
<1>3. ASSUME NEW m \in 1 .. Cardinality(K)
      PROVE  Place(K, m) \in K
  <2> DEFINE T == {n \in 0 .. N : Cardinality(UpTo(K, n)) >= m}
  <2>1. T \subseteq Nat /\ N \in T
    BY <1>1
  <2>2. PICK n \in T : \A k \in T : n <= k
    BY <2>1, LeastExists
  <2>3. n \in 0 .. N /\ Cardinality(UpTo(K, n)) >= m
    OBVIOUS
  <2>4. n # 0
    BY <1>2, <2>3
  <2>5. PICK k \in 0 .. N : n = k + 1 /\ k \in Nat
    <3>1. n - 1 \in 0 .. N /\ n - 1 \in Nat /\ n = (n - 1) + 1
      BY <2>3, <2>4
    <3> QED BY <3>1
  <2>6. k \notin T
    BY <2>2, <2>5
  <2>7. ~(Cardinality(UpTo(K, k)) >= m)
    BY <2>6
  <2>8. /\ Cardinality(UpTo(K, k)) \in Nat
        /\ Cardinality(UpTo(K, n)) =
              Cardinality(UpTo(K, k)) + (IF n \in K THEN 1 ELSE 0)
    BY <1>0, <2>5, CountedUpTo
  <2>9. n \in K /\ Cardinality(UpTo(K, n)) = m
    BY <1>1, <2>3, <2>7, <2>8
  <2> QED BY <2>9 DEF Place
<1>4. ASSUME NEW n \in K
      PROVE  /\ Cardinality(UpTo(K, n)) \in 1 .. Cardinality(K)
             /\ Place(K, Cardinality(UpTo(K, n))) = n
  <2>1. n \in 1 .. N /\ n \in Nat
    OBVIOUS
  <2>2. Cardinality(UpTo(K, 0)) < Cardinality(UpTo(K, n))
    BY <1>0, <2>1, MoreUpTo
  <2>3. Cardinality(UpTo(K, n)) <= Cardinality(UpTo(K, N))
    BY <1>0, <2>1, MoreUpTo
  <2>4. Cardinality(UpTo(K, n)) \in Nat
    BY <1>0, <2>1, CountedUpTo
  <2>5. Cardinality(UpTo(K, n)) \in 1 .. Cardinality(K)
    BY <1>1, <1>2, <2>2, <2>3, <2>4
  <2>6. ASSUME NEW k \in K, Cardinality(UpTo(K, k)) = Cardinality(UpTo(K, n))
        PROVE  k = n
    <3>1. k \in Nat /\ n \in Nat
      OBVIOUS
    <3>2. ~(k < n)
      <4>1. k < n => Cardinality(UpTo(K, k)) < Cardinality(UpTo(K, n))
        BY <1>0, <3>1, MoreUpTo
      <4> QED BY <2>4, <2>6, <4>1
    <3>3. ~(n < k)
      <4>1. n < k => Cardinality(UpTo(K, n)) < Cardinality(UpTo(K, k))
        BY <1>0, <3>1, MoreUpTo
      <4> QED BY <2>4, <2>6, <4>1
    <3> QED BY <3>1, <3>2, <3>3
  <2>7. Place(K, Cardinality(UpTo(K, n))) = n
    BY <2>6 DEF Place
  <2> QED BY <2>5, <2>7
<1> QED BY <1>1, <1>3, <1>4
=============================================================================

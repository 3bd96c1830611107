----------------------------- MODULE FilterProofs -----------------------------
(***************************************************************************)
(* Induction over numbers, and with it what the filter of module Filters   *)
(* does to any sequence.  RateLimiter, BufferedSender and Tuner are        *)
(* reasoned about with these lemmas.                                       *)
(***************************************************************************)
EXTENDS Filters, FiniteSetTheorems, SequenceTheorems, WellFoundedInduction, TLAPS

\* Induction, for a set of numbers.
LEMMA AllNumbers ==
  ASSUME NEW S, 0 \in S, \A n \in Nat : n \in S => n + 1 \in S
  PROVE  Nat \subseteq S
PROOF
  <1> DEFINE Other == Nat \ S
  <1>1. SUFFICES ASSUME Other # {}
                 PROVE  FALSE
    OBVIOUS
  <1>2. IsWellFoundedOn(OpToRel(<, Nat), Nat)
    BY NatLessThanWellFounded
  <1>3. PICK n \in Other : \A m \in Other : ~(<<m, n>> \in OpToRel(<, Nat))
    BY <1>1, <1>2, WFMin
  <1>4. \A m \in Nat : m < n => m \in S
    BY <1>3 DEF OpToRel
  <1>5. n \in Nat /\ n # 0 /\ n - 1 \in Nat /\ n - 1 < n
    <2>1. n \in Nat /\ n # 0
      OBVIOUS
    <2> HIDE DEF Other
    <2> QED BY <2>1
  <1>6. (n - 1) + 1 \in S
    BY <1>4, <1>5
  <1>7. (n - 1) + 1 = n
    BY <1>5
  <1> QED BY <1>6, <1>7

-----------------------------------------------------------------------------
(* The entries of a log that are in a set *)

Upto(I, i) == I \cap 1..i

LEMMA UptoGrows ==
  ASSUME NEW n \in Nat, NEW I \in SUBSET (1..n), NEW m \in Nat
  PROVE  /\ IsFiniteSet(Upto(I, m)) /\ Cardinality(Upto(I, m)) \in Nat
         /\ m + 1 \in I => Cardinality(Upto(I, m + 1)) = Cardinality(Upto(I, m)) + 1
         /\ m + 1 \notin I => Upto(I, m + 1) = Upto(I, m)
PROOF
  <1>0. \A i \in I : i \in Nat /\ 1 <= i /\ i <= n
    OBVIOUS
  <1>1. IsFiniteSet(1..n)
    BY FS_Interval
  <1>2. IsFiniteSet(Upto(I, m))
    <2>1. Upto(I, m) \subseteq 1..n
      BY DEF Upto
    <2> QED BY <1>1, <2>1, FS_Subset
  <1>3. Cardinality(Upto(I, m)) \in Nat
    BY <1>2, FS_CardinalityType
  <1>4. ASSUME m + 1 \in I
        PROVE  Cardinality(Upto(I, m + 1)) = Cardinality(Upto(I, m)) + 1
    <2>1. Upto(I, m + 1) = Upto(I, m) \cup {m + 1} /\ m + 1 \notin Upto(I, m)
      <3>1. \A i \in I : i <= m + 1 <=> i <= m \/ i = m + 1
        BY <1>0
      <3>2. \A x : x \in Upto(I, m + 1) <=> x \in Upto(I, m) \cup {m + 1}
        BY <1>4, <3>1 DEF Upto
      <3> QED BY <3>2 DEF Upto
    <2>2. Cardinality(Upto(I, m) \cup {m + 1}) =
            IF m + 1 \in Upto(I, m) THEN Cardinality(Upto(I, m)) ELSE Cardinality(Upto(I, m)) + 1
      BY <1>2, FS_AddElement
    <2> QED BY <2>1, <2>2
  <1>5. ASSUME m + 1 \notin I
        PROVE  Upto(I, m + 1) = Upto(I, m)
    <2>1. \A i \in I : i <= m + 1 <=> i <= m
      BY <1>0, <1>5
    <2> QED BY <2>1 DEF Upto
  <1> QED BY <1>2, <1>3, <1>4, <1>5

\* Each number up to the size of a set of numbers is the rank of one of them.
LEMMA EachRank ==
  ASSUME NEW n \in Nat, NEW I \in SUBSET (1..n)
  PROVE  /\ IsFiniteSet(I) /\ Cardinality(I) \in Nat
         /\ \A k \in 1..Cardinality(I) : \E i \in I : Cardinality(Upto(I, i)) = k
PROOF
  <1> DEFINE Ranked(m) == \A k \in 1..Cardinality(Upto(I, m)) : \E i \in I : Cardinality(Upto(I, i)) = k
             Good == {m \in Nat : Ranked(m)}
  <1>1. 0 \in Good
    <2>1. Upto(I, 0) = {}
      <3>1. \A i \in I : ~(i <= 0)
        OBVIOUS
      <3> QED BY <3>1 DEF Upto
    <2>2. Cardinality(Upto(I, 0)) = 0
      BY <2>1, FS_EmptySet
    <2> QED BY <2>2
  <1>2. ASSUME NEW m \in Nat, m \in Good
        PROVE  m + 1 \in Good
    <2>1. Cardinality(Upto(I, m)) \in Nat
      BY UptoGrows
    <2>2. CASE m + 1 \in I
      <3>1. Cardinality(Upto(I, m + 1)) = Cardinality(Upto(I, m)) + 1
        BY <2>2, UptoGrows
      <3> QED BY <1>2, <2>1, <2>2, <3>1
    <2>3. CASE m + 1 \notin I
      <3>1. Upto(I, m + 1) = Upto(I, m)
        BY <2>3, UptoGrows
      <3> QED BY <1>2, <3>1
    <2> QED BY <2>2, <2>3
  <1> HIDE DEF Good
  <1>3. n \in Good
    BY <1>1, <1>2, AllNumbers
  <1>4. Upto(I, n) = I
    <2>1. \A i \in I : i <= n
      OBVIOUS
    <2> QED BY <2>1 DEF Upto
  <1>5. IsFiniteSet(I) /\ Cardinality(I) \in Nat
    BY <1>4, UptoGrows
  <1> QED BY <1>3, <1>4, <1>5 DEF Good

LEMMA RanksFollow ==
  ASSUME NEW n \in Nat, NEW I \in SUBSET (1..n), NEW i \in I, NEW j \in I, i < j
  PROVE  Cardinality(Upto(I, i)) < Cardinality(Upto(I, j))
PROOF
  <1>0. i \in Nat /\ j \in Nat
    OBVIOUS
  <1>1. /\ IsFiniteSet(Upto(I, i)) /\ Cardinality(Upto(I, i)) \in Nat
        /\ IsFiniteSet(Upto(I, j)) /\ Cardinality(Upto(I, j)) \in Nat
    BY <1>0, UptoGrows
  <1>2. Upto(I, i) \subseteq Upto(I, j) /\ Upto(I, i) # Upto(I, j)
    <2>1. \A x \in I : x <= i => x <= j
      BY <1>0
    <2>2. j <= j /\ ~(j <= i)
      BY <1>0
    <2> QED BY <2>1, <2>2 DEF Upto
  <1>3. Cardinality(Upto(I, i)) <= Cardinality(Upto(I, j))
    BY <1>1, <1>2, FS_Subset
  <1>4. Cardinality(Upto(I, i)) # Cardinality(Upto(I, j))
    BY <1>1, <1>2, FS_Subset
  <1> QED BY <1>1, <1>3, <1>4
\* Where the entries are that Only() keeps.
KeptAt(log, S) == {i \in DOMAIN log : log[i] \in S}
PlaceOf(log, S, k) == CHOOSE i \in KeptAt(log, S) : Cardinality(Upto(KeptAt(log, S), i)) = k

LEMMA OnlyIs ==
  ASSUME NEW log, NEW S
  PROVE  Only(log, S) = [k \in 1..Cardinality(KeptAt(log, S)) |-> log[PlaceOf(log, S, k)]]
PROOF
  BY DEF Only, KeptAt, PlaceOf, Upto

LEMMA PlacesAre ==
  ASSUME NEW T, NEW log \in Seq(T), NEW S
  PROVE  /\ KeptAt(log, S) \in SUBSET (1..Len(log))
         /\ Cardinality(KeptAt(log, S)) \in Nat
         /\ \A k \in 1..Cardinality(KeptAt(log, S)) :
              /\ PlaceOf(log, S, k) \in KeptAt(log, S)
              /\ Cardinality(Upto(KeptAt(log, S), PlaceOf(log, S, k))) = k
PROOF
  <1>1. Len(log) \in Nat /\ DOMAIN log = 1..Len(log)
    OBVIOUS
  <1>2. KeptAt(log, S) \in SUBSET (1..Len(log))
    BY <1>1 DEF KeptAt
  <1>3. /\ Cardinality(KeptAt(log, S)) \in Nat
        /\ \A k \in 1..Cardinality(KeptAt(log, S)) :
             \E i \in KeptAt(log, S) : Cardinality(Upto(KeptAt(log, S), i)) = k
    BY <1>1, <1>2, EachRank
  <1> QED BY <1>2, <1>3 DEF PlaceOf

LEMMA OnlyKeeps ==
  ASSUME NEW T, NEW log \in Seq(T), NEW S
  PROVE  /\ Only(log, S) \in Seq(T)
         /\ Len(Only(log, S)) = Cardinality(KeptAt(log, S))
         /\ \A k \in 1..Len(Only(log, S)) :
              /\ PlaceOf(log, S, k) \in 1..Len(log)
              /\ Only(log, S)[k] = log[PlaceOf(log, S, k)]
              /\ Only(log, S)[k] \in S
         /\ \A k, l \in 1..Len(Only(log, S)) :
              k <= l => PlaceOf(log, S, k) <= PlaceOf(log, S, l)
PROOF
  <1> DEFINE n == Cardinality(KeptAt(log, S))
  <1>1. /\ KeptAt(log, S) \in SUBSET (1..Len(log)) /\ n \in Nat
        /\ \A k \in 1..n : /\ PlaceOf(log, S, k) \in KeptAt(log, S)
                           /\ Cardinality(Upto(KeptAt(log, S), PlaceOf(log, S, k))) = k
    BY PlacesAre
  <1>2. Only(log, S) = [k \in 1..n |-> log[PlaceOf(log, S, k)]]
    BY OnlyIs
  <1> HIDE DEF n
  <1>3. \A k \in 1..n : /\ PlaceOf(log, S, k) \in 1..Len(log)
                        /\ log[PlaceOf(log, S, k)] \in S /\ log[PlaceOf(log, S, k)] \in T
    <2>1. \A i \in KeptAt(log, S) : i \in 1..Len(log) /\ log[i] \in S
      BY <1>1 DEF KeptAt
    <2>2. \A i \in 1..Len(log) : log[i] \in T
      OBVIOUS
    <2> QED BY <1>1, <2>1, <2>2
  <1>4. Only(log, S) \in Seq(T) /\ Len(Only(log, S)) = n
    BY <1>1, <1>2, <1>3
  <1>5. ASSUME NEW k \in 1..n, NEW l \in 1..n, k <= l
        PROVE  PlaceOf(log, S, k) <= PlaceOf(log, S, l)
    <2> DEFINE i == PlaceOf(log, S, k)
               j == PlaceOf(log, S, l)
    <2>1. /\ i \in KeptAt(log, S) /\ Cardinality(Upto(KeptAt(log, S), i)) = k /\ i \in Nat
          /\ j \in KeptAt(log, S) /\ Cardinality(Upto(KeptAt(log, S), j)) = l /\ j \in Nat
      BY <1>1, <1>3
    <2> HIDE DEF i, j
    <2>2. Len(log) \in Nat
      OBVIOUS
    <2>3. j < i => l < k
      BY <1>1, <2>1, <2>2, RanksFollow
    <2>4. i <= j
      BY <1>1, <1>5, <2>1, <2>3
    <2> QED BY <2>4 DEF i, j
  <1> QED BY <1>2, <1>3, <1>4, <1>5 DEF n

\* What is in the set is kept, and nothing is kept twice.
LEMMA OnlyOnce ==
  ASSUME NEW T, NEW log \in Seq(T), NEW S
  PROVE  /\ \A i \in 1..Len(log) :
              log[i] \in S => \E k \in 1..Len(Only(log, S)) : Only(log, S)[k] = log[i]
         /\ \A k, l \in 1..Len(Only(log, S)) :
              PlaceOf(log, S, k) = PlaceOf(log, S, l) => k = l
PROOF
  <1> DEFINE I == KeptAt(log, S)
  <1>1. /\ I \in SUBSET (1..Len(log)) /\ Len(log) \in Nat
        /\ \A k \in 1..Cardinality(I) : /\ PlaceOf(log, S, k) \in I
                                        /\ Cardinality(Upto(I, PlaceOf(log, S, k))) = k
    BY PlacesAre
  <1>2. /\ Len(Only(log, S)) = Cardinality(I)
        /\ \A k \in 1..Cardinality(I) : Only(log, S)[k] = log[PlaceOf(log, S, k)]
    BY OnlyKeeps
  <1>3. \A i \in 1..Len(log) : log[i] \in S => i \in I
    BY DEF KeptAt
  <1> HIDE DEF I
  <1>4. ASSUME NEW i \in I
        PROVE  \E k \in 1..Cardinality(I) : PlaceOf(log, S, k) = i
    <2>1. IsFiniteSet(I) /\ Cardinality(I) \in Nat
      BY <1>1, EachRank
    <2>2. i \in Nat
      BY <1>1
    <2>3. Cardinality(Upto(I, i)) \in Nat /\ Cardinality(Upto(I, i)) <= Cardinality(I)
      <3>1. Upto(I, i) \subseteq I
        BY DEF Upto
      <3>2. IsFiniteSet(Upto(I, i)) /\ Cardinality(Upto(I, i)) <= Cardinality(I)
        BY <2>1, <3>1, FS_Subset
      <3> QED BY <3>2, FS_CardinalityType
    <2>4. Cardinality(Upto(I, i)) # 0
      <3>1. i \in Upto(I, i) /\ IsFiniteSet(Upto(I, i))
        <4>1. i \in Upto(I, i)
          BY <1>1, <2>2 DEF Upto
        <4> QED BY <1>1, <2>2, <4>1, UptoGrows
      <3> QED BY <3>1, FS_EmptySet
    <2> DEFINE k == Cardinality(Upto(I, i))
    <2>5. k \in 1..Cardinality(I) /\ k \in Nat /\ k = Cardinality(Upto(I, i))
      BY <2>1, <2>3, <2>4
    <2> HIDE DEF k
    <2> DEFINE j == PlaceOf(log, S, k)
    <2>6. j \in I /\ Cardinality(Upto(I, j)) = k
      BY <1>1, <2>5
    <2> HIDE DEF j
    <2>7. j \in Nat
      BY <1>1, <2>6
    <2>8. ~(j < i) /\ ~(i < j)
      <3>1. j < i => Cardinality(Upto(I, j)) < Cardinality(Upto(I, i))
        BY <1>1, <2>6, RanksFollow
      <3>2. i < j => Cardinality(Upto(I, i)) < Cardinality(Upto(I, j))
        BY <1>1, <2>6, RanksFollow
      <3> QED BY <2>5, <2>6, <3>1, <3>2
    <2>9. j = i
      BY <2>2, <2>7, <2>8
    <2> QED BY <2>5, <2>9 DEF j
  <1>5. \A k, l \in 1..Cardinality(I) : PlaceOf(log, S, k) = PlaceOf(log, S, l) => k = l
    BY <1>1
  <1> QED BY <1>2, <1>3, <1>4, <1>5

\* It drops at least the first m, if they are not in the set.
LEMMA OnlyDrops ==
  ASSUME NEW T, NEW log \in Seq(T), NEW S, NEW m \in 0..Len(log),
         \A i \in 1..m : log[i] \notin S
  PROVE  Len(Only(log, S)) <= Len(log) - m
PROOF
  <1>1. Len(log) \in Nat /\ m \in Nat /\ m <= Len(log)
    OBVIOUS
  <1>2. KeptAt(log, S) \in SUBSET ((m + 1)..Len(log))
    <2>1. \A i \in KeptAt(log, S) : i \in 1..Len(log) /\ log[i] \in S
      BY PlacesAre DEF KeptAt
    <2> QED BY <1>1, <2>1
  <1>3. /\ IsFiniteSet((m + 1)..Len(log))
        /\ Cardinality((m + 1)..Len(log)) = IF m + 1 > Len(log) THEN 0 ELSE Len(log) - (m + 1) + 1
    <2>1. m + 1 \in Int /\ Len(log) \in Int
      BY <1>1
    <2> QED BY <2>1, FS_Interval, Zenon
  <1>4. Cardinality(KeptAt(log, S)) <= Cardinality((m + 1)..Len(log))
    BY <1>2, <1>3, FS_Subset
  <1>5. Len(Only(log, S)) = Cardinality(KeptAt(log, S))
    BY OnlyKeeps
  <1> QED BY <1>1, <1>3, <1>4, <1>5

\* It keeps the end of a log that is in the set, at its own end.
LEMMA OnlyEnds ==
  ASSUME NEW T, NEW log \in Seq(T), NEW S, NEW k \in 0..Len(log),
         \A i \in 1..Len(log) : Len(log) - k < i => log[i] \in S
  PROVE  /\ k <= Len(Only(log, S))
         /\ \A j \in 1..Len(Only(log, S)) :
              Len(Only(log, S)) - k < j => /\ PlaceOf(log, S, j) \in 1..Len(log)
                                           /\ Len(log) - k < PlaceOf(log, S, j)
PROOF
  <1> DEFINE I == KeptAt(log, S)
             n == Len(log)
             last == ((n - k) + 1)..n
  <1>1. /\ I \in SUBSET (1..n) /\ n \in Nat /\ k \in Nat /\ k <= n
        /\ \A j \in 1..Cardinality(I) : /\ PlaceOf(log, S, j) \in I
                                        /\ Cardinality(Upto(I, PlaceOf(log, S, j))) = j
    BY PlacesAre
  <1>2. Len(Only(log, S)) = Cardinality(I) /\ IsFiniteSet(I) /\ Cardinality(I) \in Nat
    BY <1>1, OnlyKeeps, EachRank
  <1>3. last \subseteq I
    <2>1. \A i \in last : i \in 1..n /\ n - k < i
      BY <1>1
    <2> QED BY <2>1 DEF KeptAt
  <1>4. IsFiniteSet(last) /\ Cardinality(last) = k
    <2>1. (n - k) + 1 \in Int /\ n \in Int
      BY <1>1
    <2>2. IsFiniteSet(last) /\ Cardinality(last) = IF (n - k) + 1 > n THEN 0 ELSE n - ((n - k) + 1) + 1
      BY <2>1, FS_Interval, Zenon
    <2> QED BY <1>1, <2>2
  <1> HIDE DEF I, n
  <1>5. k <= Cardinality(I)
    BY <1>2, <1>3, <1>4, FS_Subset
  <1>6. ASSUME NEW j \in 1..Cardinality(I), Cardinality(I) - k < j
        PROVE  PlaceOf(log, S, j) \in 1..n /\ n - k < PlaceOf(log, S, j)
    <2> DEFINE i == PlaceOf(log, S, j)
    <2>1. i \in I /\ i \in 1..n /\ Cardinality(Upto(I, i)) = j
      BY <1>1
    <2> HIDE DEF i
    <2>2. ASSUME ~(n - k < i)
          PROVE  FALSE
      <3>1. Upto(I, i) \cap last = {}
        <4>2. i \in Nat /\ i <= n - k
          BY <1>1, <2>1, <2>2
        <4>1. \A x \in last : ~(x \in 1..i)
          BY <1>1, <4>2
        <4> QED BY <4>1 DEF Upto
      <3>5. Upto(I, i) \subseteq I
        BY DEF Upto
      <3>2. IsFiniteSet(Upto(I, i)) /\ Upto(I, i) \subseteq I
        BY <1>2, <3>5, FS_Subset
      <3> HIDE DEF last
      <3>3. Cardinality(Upto(I, i) \cup last) = j + k
        <4>1. Cardinality(Upto(I, i) \cup last) =
                Cardinality(Upto(I, i)) + Cardinality(last) - Cardinality(Upto(I, i) \cap last)
          BY <1>4, <3>2, FS_Union
        <4>2. Cardinality({}) = 0
          BY FS_EmptySet
        <4>3. Cardinality(Upto(I, i) \cap last) = 0 /\ Cardinality(Upto(I, i)) = j /\ Cardinality(last) = k
          BY <1>4, <2>1, <3>1, <4>2
        <4>4. j \in Int /\ k \in Int
          BY <1>1
        <4>5. Cardinality(Upto(I, i) \cup last) = j + k - 0
          BY <4>1, <4>3
        <4> HIDE DEF i
        <4> QED BY <4>4, <4>5
      <3>4. Cardinality(Upto(I, i) \cup last) <= Cardinality(I)
        BY <1>2, <1>3, <3>2, FS_Subset
      <3> QED BY <1>1, <1>2, <1>6, <3>3, <3>4
    <2> QED BY <2>1, <2>2 DEF i
  <1> QED BY <1>2, <1>5, <1>6 DEF n

=============================================================================

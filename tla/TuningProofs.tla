------------------------------- MODULE TuningProofs -------------------------------
(***************************************************************************)
(* What holds of a Bulkhead, whatever configurations it is switched        *)
(* between, and, at the end, of the Tuner that a listener may switch it    *)
(* by: where the configuration can get to and who has heard of it, for any *)
(* traffic, limits and smoothing.                                          *)
(***************************************************************************)
EXTENDS Bulkhead, Tuner, FilterProofs

Waiting == {c \in Calls : pc[c] = "queued"}

\* A call whose task threw inside processQueue() keeps its permit for good.
Holding == {c \in Calls : pc[c] \in {"running", "started", "settling", "lost"}}
Pending == {c \in Calls : pc[c] \in {"running", "queued", "sleeping", "started", "lost"}}

Outcomes(k) == k.successfulCalls + k.failedCalls + k.rejectedCalls + k.timedOutCalls

Permits ==
  /\ IsFiniteSet(Holding) /\ activeCalls = Cardinality(Holding)
  /\ \A c \in Calls : pc[c] = "lost" => c \in SyncThrowers

Counting ==
  /\ IsFiniteSet(Pending)
  /\ resets = 0 => counts.totalCalls = Outcomes(counts) + Cardinality(Pending)
  /\ counts.totalCalls <= Outcomes(counts) + Cardinality(Pending)

BulkheadInv == TypeOK /\ Permits /\ QueueConsistent /\ Counting

-----------------------------------------------------------------------------
(* Numbers, sequences, counters *)

LEMMA CardinalityAdd ==
  ASSUME NEW S, IsFiniteSet(S), NEW T, IsFiniteSet(T), S \cap T = {}
  PROVE  IsFiniteSet(S \cup T) /\ Cardinality(S \cup T) = Cardinality(S) + Cardinality(T)
PROOF
  <1>1. /\ IsFiniteSet(S \cup T)
        /\ Cardinality(S \cup T) = Cardinality(S) + Cardinality(T) - Cardinality(S \cap T)
    BY FS_Union
  <1>2. Cardinality(S \cap T) = 0
    BY FS_EmptySet
  <1>3. Cardinality(S) \in Nat /\ Cardinality(T) \in Nat
    BY FS_CardinalityType
  <1> QED BY <1>1, <1>2, <1>3

LEMMA CardinalityWithout ==
  ASSUME NEW S, IsFiniteSet(S), NEW T, T \subseteq S
  PROVE  IsFiniteSet(S \ T) /\ Cardinality(S \ T) = Cardinality(S) - Cardinality(T)
PROOF
  <1>1. IsFiniteSet(S \ T) /\ Cardinality(S \ T) = Cardinality(S) - Cardinality(S \cap T)
    BY FS_Difference
  <1>2. S \cap T = T
    OBVIOUS
  <1> QED BY <1>1, <1>2

LEMMA LeastNatural ==
  ASSUME NEW S, S \subseteq Nat, S # {}
  PROVE  Min(S) \in S /\ \A n \in S : Min(S) <= n
PROOF
  <1> DEFINE less == {ss \in Nat \X Nat : ss[1] < ss[2]}
  <1>1. IsWellFoundedOn(less, Nat)
    BY NatLessThanWellFounded, Zenon DEF OpToRel
  <1>2. \A x, y \in Nat : <<y, x>> \notin less => x <= y
    OBVIOUS
  <1> HIDE DEF less
  <1>3. PICK x \in S : \A y \in S : ~ (<<y, x>> \in less)
    BY <1>1, WFMin
  <1>4. \A y \in S : x <= y
    BY <1>2, <1>3
  <1> QED BY <1>4 DEF Min

\* A call enters the queue once.
LEMMA QueueAppended ==
  ASSUME NEW q \in Seq(Calls), IsInjective(q), NEW c \in Calls, c \notin ToSet(q)
  PROVE  /\ Append(q, c) \in Seq(Calls) /\ IsInjective(Append(q, c))
         /\ ToSet(Append(q, c)) = ToSet(q) \cup {c}
PROOF
  <1> DEFINE next == Append(q, c)
  <1>1. /\ next \in Seq(Calls) /\ Len(q) \in Nat
        /\ DOMAIN next = 1..(Len(q) + 1) /\ DOMAIN q = 1..Len(q)
        /\ \A i \in 1..Len(q) : next[i] = q[i]
        /\ next[Len(q) + 1] = c
    OBVIOUS
  <1> HIDE DEF next
  <1>2. ToSet(next) = ToSet(q) \cup {c}
    BY <1>1 DEF ToSet
  <1>3. IsInjective(next)
    <2> SUFFICES ASSUME NEW i \in 1..(Len(q) + 1), NEW j \in 1..(Len(q) + 1), next[i] = next[j]
                 PROVE  i = j
      BY <1>1 DEF IsInjective
    <2>1. CASE i \in 1..Len(q) /\ j \in 1..Len(q)
      BY <2>1, <1>1 DEF IsInjective
    <2>2. CASE i = Len(q) + 1 /\ j \in 1..Len(q)
      BY <2>2, <1>1 DEF ToSet
    <2>3. CASE i \in 1..Len(q) /\ j = Len(q) + 1
      BY <2>3, <1>1 DEF ToSet
    <2>4. CASE i = Len(q) + 1 /\ j = Len(q) + 1
      BY <2>4
    <2> QED BY <1>1, <2>1, <2>2, <2>3, <2>4
  <1> QED BY <1>1, <1>2, <1>3 DEF next

\* What is left of a queue whose first n calls have been shifted.
LEMMA QueueShifted ==
  ASSUME NEW q \in Seq(Calls), IsInjective(q), NEW n \in 0..Len(q)
  PROVE  LET rest == SubSeq(q, n + 1, Len(q))
         IN  /\ rest \in Seq(Calls) /\ IsInjective(rest)
             /\ ToSet(rest) = ToSet(q) \ {q[i] : i \in 1..n}
PROOF
  <1> DEFINE rest == SubSeq(q, n + 1, Len(q))
  <1>1. Len(q) \in Nat /\ n \in Nat /\ n <= Len(q) /\ DOMAIN q = 1..Len(q)
    OBVIOUS
  <1>2. /\ rest \in Seq(Calls) /\ Len(rest) = Len(q) - n
        /\ \A i \in 1..(Len(q) - n) : rest[i] = q[n + i]
    <2>1. n + 1 \in Int /\ Len(q) \in Int /\ \A i \in (n + 1)..Len(q) : q[i] \in Calls
      BY <1>1
    <2>2. /\ rest \in Seq(Calls)
          /\ Len(rest) = IF n + 1 <= Len(q) THEN Len(q) - (n + 1) + 1 ELSE 0
          /\ \A i \in 1..(Len(q) - (n + 1) + 1) : rest[i] = q[(n + 1) + i - 1]
      BY <2>1, SubSeqProperties
    <2> HIDE DEF rest
    <2>3. Len(rest) = Len(q) - n
      <3>1. CASE n + 1 <= Len(q)
        <4>1. Len(rest) = Len(q) - (n + 1) + 1
          BY <2>2, <3>1
        <4> QED BY <1>1, <4>1
      <3>2. CASE ~ (n + 1 <= Len(q))
        <4>1. Len(rest) = 0
          BY <2>2, <3>2, Zenon
        <4>2. Len(q) \in Nat /\ n \in Nat /\ n <= Len(q)
          BY <1>1
        <4> HIDE <1>1
        <4> QED BY <3>2, <4>1, <4>2
      <3> QED BY <3>1, <3>2
    <2>4. ASSUME NEW i \in 1..(Len(q) - n) PROVE rest[i] = q[n + i]
      <3>1. i \in 1..(Len(q) - (n + 1) + 1) /\ (n + 1) + i - 1 = n + i
        BY <1>1
      <3>2. rest[i] = q[(n + 1) + i - 1]
        BY <2>2, <3>1
      <3> QED BY <3>1, <3>2
    <2> QED BY <2>2, <2>3, <2>4
  <1>3. DOMAIN rest = 1..(Len(q) - n)
    BY <1>2
  <1> HIDE DEF rest
  <1>4. IsInjective(rest)
    <2> SUFFICES ASSUME NEW i \in 1..(Len(q) - n), NEW j \in 1..(Len(q) - n), rest[i] = rest[j]
                 PROVE  i = j
      BY <1>3 DEF IsInjective
    <2>1. q[n + i] = q[n + j] /\ n + i \in 1..Len(q) /\ n + j \in 1..Len(q)
      BY <1>1, <1>2
    <2>2. n + i = n + j
      BY <1>1, <2>1 DEF IsInjective
    <2> QED BY <1>1, <2>2
  <1>5. ToSet(rest) = ToSet(q) \ {q[i] : i \in 1..n}
    <2>1. ASSUME NEW j \in 1..(Len(q) - n), NEW i \in 1..n PROVE rest[j] \in ToSet(q) /\ rest[j] # q[i]
      <3>1. rest[j] = q[n + j] /\ n + j \in 1..Len(q) /\ i \in 1..Len(q) /\ i # n + j
        BY <1>1, <1>2
      <3> QED BY <1>1, <3>1 DEF IsInjective, ToSet
    <2>2. ASSUME NEW j \in 1..Len(q), \A i \in 1..n : q[j] # q[i] PROVE q[j] \in ToSet(rest)
      <3>1. j \notin 1..n
        BY <2>2
      <3>2. j - n \in 1..(Len(q) - n) /\ n + (j - n) = j
        BY <1>1, <3>1
      <3>3. rest[j - n] = q[j]
        BY <1>2, <3>2
      <3> QED BY <1>3, <3>2, <3>3 DEF ToSet
    <2>3. ToSet(rest) \subseteq ToSet(q) \ {q[i] : i \in 1..n}
      <3> SUFFICES ASSUME NEW j \in 1..(Len(q) - n)
                   PROVE  rest[j] \in ToSet(q) \ {q[i] : i \in 1..n}
        BY <1>3 DEF ToSet
      <3>1. rest[j] \in ToSet(q)
        <4>1. rest[j] = q[n + j] /\ n + j \in 1..Len(q)
          BY <1>1, <1>2
        <4> QED BY <1>1, <4>1 DEF ToSet
      <3>2. \A i \in 1..n : rest[j] # q[i]
        BY <2>1
      <3> QED BY <3>1, <3>2
    <2> QED BY <1>1, <2>2, <2>3 DEF ToSet
  <1> QED BY <1>2, <1>4, <1>5 DEF rest

\* What is left of a queue without the call at i.
LEMMA QueueWithout ==
  ASSUME NEW q \in Seq(Calls), IsInjective(q), NEW i \in DOMAIN q
  PROVE  /\ RemoveAt(q, i) \in Seq(Calls) /\ IsInjective(RemoveAt(q, i))
         /\ ToSet(RemoveAt(q, i)) = ToSet(q) \ {q[i]}
PROOF
  <1> DEFINE front == SubSeq(q, 1, i - 1)
             back  == SubSeq(q, i + 1, Len(q))
             rest  == RemoveAt(q, i)
  <1>1. Len(q) \in Nat \ {0} /\ i \in 1..Len(q) /\ DOMAIN q = 1..Len(q)
    OBVIOUS
  <1>2. /\ front \in Seq(Calls) /\ Len(front) = i - 1
        /\ \A k \in 1..(i - 1) : front[k] = q[k]
    <2>1. \A k \in 1..(i - 1) : q[k] \in Calls
      BY <1>1
    <2>2. \A k \in 1..((i - 1) - 1 + 1) : front[k] = q[1 + k - 1]
      BY <1>1, <2>1, SubSeqProperties
    <2> QED BY <1>1, <2>1, <2>2, SubSeqProperties
  <1>3. /\ back \in Seq(Calls) /\ Len(back) = Len(q) - i
        /\ \A k \in 1..(Len(q) - i) : back[k] = q[i + k]
    <2>1. \A k \in (i + 1)..Len(q) : q[k] \in Calls
      BY <1>1
    <2> QED BY <1>1, <2>1, SubSeqProperties
  <1>4. rest = front \o back
    BY DEF RemoveAt
  <1> HIDE DEF front, back, rest
  <1>5. /\ rest \in Seq(Calls) /\ Len(rest) = Len(q) - 1
        /\ \A k \in 1..(Len(q) - 1) : rest[k] = IF k < i THEN q[k] ELSE q[k + 1]
    <2>1. /\ rest \in Seq(Calls) /\ Len(rest) = (i - 1) + (Len(q) - i)
          /\ \A k \in 1..((i - 1) + (Len(q) - i)) :
               rest[k] = IF k <= i - 1 THEN front[k] ELSE back[k - (i - 1)]
      <3>1. /\ rest \in Seq(Calls) /\ Len(rest) = Len(front) + Len(back)
            /\ \A k \in 1..(Len(front) + Len(back)) :
                 rest[k] = IF k <= Len(front) THEN front[k] ELSE back[k - Len(front)]
        BY <1>2, <1>3, <1>4, ConcatProperties
      <3> QED BY <1>2, <1>3, <3>1
    <2>2. ASSUME NEW k \in 1..(Len(q) - 1)
          PROVE  rest[k] = IF k < i THEN q[k] ELSE q[k + 1]
      <3>1. CASE k < i
        BY <1>1, <1>2, <2>1, <3>1
      <3>2. CASE k >= i
        <4>1. k - (i - 1) \in 1..(Len(q) - i) /\ i + (k - (i - 1)) = k + 1
          BY <1>1, <3>2
        <4>2. rest[k] = back[k - (i - 1)]
          BY <1>1, <2>1, <3>2
        <4> QED BY <1>1, <1>3, <3>2, <4>1, <4>2
      <3> QED BY <1>1, <3>1, <3>2
    <2> QED BY <1>1, <2>1, <2>2
  <1>6. DOMAIN rest = 1..(Len(q) - 1)
    BY <1>5
  <1>7. IsInjective(rest)
    <2> SUFFICES ASSUME NEW k \in 1..(Len(q) - 1), NEW j \in 1..(Len(q) - 1), rest[k] = rest[j]
                 PROVE  k = j
      BY <1>6 DEF IsInjective
    <2> DEFINE from(m) == IF m < i THEN m ELSE m + 1
    <2>1. rest[k] = q[from(k)] /\ rest[j] = q[from(j)]
      BY <1>5
    <2>2. from(k) \in 1..Len(q) /\ from(j) \in 1..Len(q)
      BY <1>1
    <2>3. from(k) = from(j)
      BY <1>1, <2>1, <2>2 DEF IsInjective
    <2> QED BY <1>1, <2>3
  <1>8. ToSet(rest) = ToSet(q) \ {q[i]}
    <2>1. ASSUME NEW k \in 1..(Len(q) - 1) PROVE rest[k] \in ToSet(q) \ {q[i]}
      <3>1. CASE k < i
        <4>1. rest[k] = q[k] /\ k \in 1..Len(q) /\ k # i
          BY <1>1, <1>5, <3>1
        <4> QED BY <1>1, <4>1 DEF IsInjective, ToSet
      <3>2. CASE k >= i
        <4>1. rest[k] = q[k + 1] /\ k + 1 \in 1..Len(q) /\ k + 1 # i
          BY <1>1, <1>5, <3>2
        <4> QED BY <1>1, <4>1 DEF IsInjective, ToSet
      <3> QED BY <1>1, <3>1, <3>2
    <2>2. ASSUME NEW j \in 1..Len(q), q[j] # q[i] PROVE q[j] \in ToSet(rest)
      <3>1. CASE j < i
        <4>1. j \in 1..(Len(q) - 1) /\ rest[j] = q[j]
          BY <1>1, <1>5, <3>1
        <4> QED BY <1>6, <4>1 DEF ToSet
      <3>2. CASE j > i
        <4>1. j - 1 \in 1..(Len(q) - 1) /\ rest[j - 1] = q[j]
          BY <1>1, <1>5, <3>2
        <4> QED BY <1>6, <4>1 DEF ToSet
      <3>3. j # i
        BY <2>2
      <3> QED BY <1>1, <3>1, <3>2, <3>3
    <2>3. ToSet(rest) \subseteq ToSet(q) \ {q[i]}
      BY <1>6, <2>1 DEF ToSet
    <2> QED BY <1>1, <2>2, <2>3 DEF ToSet
  <1> QED BY <1>5, <1>7, <1>8 DEF rest

\* The counters, one by one.
LEMMA CountersAdd ==
  ASSUME NEW k \in Counts, NEW n \in Nat
  PROVE  /\ Outcomes(k) \in Nat /\ k.totalCalls \in Nat
         /\ /\ [k EXCEPT !.totalCalls = @ + n] \in Counts
            /\ Outcomes([k EXCEPT !.totalCalls = @ + n]) = Outcomes(k)
            /\ [k EXCEPT !.totalCalls = @ + n].totalCalls = k.totalCalls + n
         /\ /\ [k EXCEPT !.successfulCalls = @ + n] \in Counts
            /\ Outcomes([k EXCEPT !.successfulCalls = @ + n]) = Outcomes(k) + n
            /\ [k EXCEPT !.successfulCalls = @ + n].totalCalls = k.totalCalls
         /\ /\ [k EXCEPT !.failedCalls = @ + n] \in Counts
            /\ Outcomes([k EXCEPT !.failedCalls = @ + n]) = Outcomes(k) + n
            /\ [k EXCEPT !.failedCalls = @ + n].totalCalls = k.totalCalls
         /\ /\ [k EXCEPT !.rejectedCalls = @ + n] \in Counts
            /\ Outcomes([k EXCEPT !.rejectedCalls = @ + n]) = Outcomes(k) + n
            /\ [k EXCEPT !.rejectedCalls = @ + n].totalCalls = k.totalCalls
         /\ /\ [k EXCEPT !.timedOutCalls = @ + n] \in Counts
            /\ Outcomes([k EXCEPT !.timedOutCalls = @ + n]) = Outcomes(k) + n
            /\ [k EXCEPT !.timedOutCalls = @ + n].totalCalls = k.totalCalls
PROOF
  <1> USE DEF Counts, Outcomes
  <1>1. Outcomes(k) \in Nat /\ k.totalCalls \in Nat
    OBVIOUS
  <1>2. /\ [k EXCEPT !.totalCalls = @ + n] \in Counts
        /\ Outcomes([k EXCEPT !.totalCalls = @ + n]) = Outcomes(k)
        /\ [k EXCEPT !.totalCalls = @ + n].totalCalls = k.totalCalls + n
    OBVIOUS
  <1>3. /\ [k EXCEPT !.successfulCalls = @ + n] \in Counts
        /\ Outcomes([k EXCEPT !.successfulCalls = @ + n]) = Outcomes(k) + n
        /\ [k EXCEPT !.successfulCalls = @ + n].totalCalls = k.totalCalls
    OBVIOUS
  <1>4. /\ [k EXCEPT !.failedCalls = @ + n] \in Counts
        /\ Outcomes([k EXCEPT !.failedCalls = @ + n]) = Outcomes(k) + n
        /\ [k EXCEPT !.failedCalls = @ + n].totalCalls = k.totalCalls
    OBVIOUS
  <1>5. /\ [k EXCEPT !.rejectedCalls = @ + n] \in Counts
        /\ Outcomes([k EXCEPT !.rejectedCalls = @ + n]) = Outcomes(k) + n
        /\ [k EXCEPT !.rejectedCalls = @ + n].totalCalls = k.totalCalls
    OBVIOUS
  <1>6. /\ [k EXCEPT !.timedOutCalls = @ + n] \in Counts
        /\ Outcomes([k EXCEPT !.timedOutCalls = @ + n]) = Outcomes(k) + n
        /\ [k EXCEPT !.timedOutCalls = @ + n].totalCalls = k.totalCalls
    OBVIOUS
  <1> HIDE DEF Counts, Outcomes
  <1> QED BY <1>1, <1>2, <1>3, <1>4, <1>5, <1>6

-----------------------------------------------------------------------------
(* processQueue() *)

\* The loop ends within the queue, and if permits are left it took all of it, or all
\* up to the call that took the last permit or threw.
LEMMA ShiftedFacts ==
  ASSUME queue \in Seq(Calls), NEW free \in Int
  PROVE  LET n == Shifted(free)
         IN  /\ n \in 0..Len(queue)
             /\ free <= 0 => n = 0
             /\ free > 0 => \/ n = Len(queue)
                            \/ StartedOf(n) = free
                            \/ n > 0 /\ queue[n] \in SyncThrowers /\ InTime(queue[n])
PROOF
  <1> DEFINE stops == {n \in 0..Len(queue) :
                         \/ n = Len(queue)
                         \/ StartedOf(n) = free
                         \/ n > 0 /\ queue[n] \in SyncThrowers /\ InTime(queue[n])}
  <1>1. Len(queue) \in Nat
    OBVIOUS
  <1>2. stops \subseteq Nat /\ stops # {}
    BY <1>1
  <1>3. Min(stops) \in stops
    BY <1>2, LeastNatural
  <1>4. CASE free <= 0
    BY <1>1, <1>4 DEF Shifted
  <1>5. CASE free > 0
    <2>1. Shifted(free) = Min(stops)
      BY <1>5 DEF Shifted
    <2> QED BY <1>3, <1>5, <2>1
  <1> QED BY <1>4, <1>5

\* What a call that gives its permit back leaves: these calls have begun, those were late.
LEMMA ReleaseFacts ==
  ASSUME BulkheadInv, NEW c \in Calls, pc[c] \in {"running", "settling"}, NEW cs,
         ReleasePermit(c, "done", cs)
  PROVE  \E begun, late \in SUBSET Waiting :
           /\ begun \cap late = {}
           /\ \A d \in begun : InTime(d)
           /\ activeCalls' = activeCalls - 1 + Cardinality(begun)
           /\ queue' \in Seq(Calls) /\ IsInjective(queue')
           /\ ToSet(queue') = Waiting \ (begun \cup late)
           /\ pc' \in [Calls -> PCs] /\ pc'[c] = "done"
           /\ \A d \in begun : pc'[d] = IF d \in SyncThrowers THEN "lost" ELSE "started"
           /\ \A d \in late : pc'[d] = "timedOut"
           /\ \A d \in Calls \ (begun \cup late \cup {c}) : pc'[d] = pc[d]
           /\ timer' = [d \in Calls |-> IF d \in begun \cup late THEN NoTimer ELSE timer[d]]
           /\ counts' = [cs EXCEPT !.timedOutCalls = @ + Cardinality(late)]
PROOF
  <1> DEFINE active  == activeCalls - 1
             n       == Shifted(config.maxConcurrentCalls - active)
             shifted == {queue[i] : i \in 1..n}
             begun   == {d \in shifted : InTime(d)}
             late    == shifted \ begun
  <1>1. /\ queue \in Seq(Calls) /\ IsInjective(queue) /\ ToSet(queue) = Waiting
        /\ pc \in [Calls -> PCs] /\ config \in Config /\ activeCalls \in Nat
    BY DEF BulkheadInv, TypeOK, QueueConsistent, Waiting
  <1>2. n \in 0..Len(queue)
    <2>1. config.maxConcurrentCalls - active \in Int
      BY <1>1 DEF Config
    <2> HIDE DEF active
    <2> QED BY <1>1, <2>1, ShiftedFacts
  <1>3. /\ activeCalls' = active + Cardinality(begun)
        /\ queue' = SubSeq(queue, n + 1, Len(queue))
        /\ pc' = [d \in Calls |-> IF d = c THEN "done" ELSE After(shifted, begun, d)]
        /\ timer' = [d \in Calls |-> IF d \in shifted THEN NoTimer ELSE timer[d]]
        /\ counts' = [cs EXCEPT !.timedOutCalls = @ + Cardinality(late)]
    BY DEF ReleasePermit
  <1> HIDE DEF n
  <1>4. shifted \subseteq Waiting
    <2>1. \A i \in 1..n : i \in DOMAIN queue
      BY <1>1, <1>2
    <2> QED BY <1>1, <2>1 DEF ToSet
  <1>5. /\ queue' \in Seq(Calls) /\ IsInjective(queue')
        /\ ToSet(queue') = Waiting \ shifted
    BY <1>1, <1>2, <1>3, QueueShifted
  <1> HIDE DEF shifted
  <1>6. begun \in SUBSET Waiting /\ late \in SUBSET Waiting /\ begun \cap late = {}
        /\ begun \cup late = shifted /\ \A d \in begun : InTime(d)
    BY <1>4
  <1> HIDE DEF begun
  <1>7. c \notin Waiting
    BY DEF Waiting
  <1>8. /\ pc' \in [Calls -> PCs] /\ pc'[c] = "done"
        /\ \A d \in begun : pc'[d] = IF d \in SyncThrowers THEN "lost" ELSE "started"
        /\ \A d \in late : pc'[d] = "timedOut"
        /\ \A d \in Calls \ (begun \cup late \cup {c}) : pc'[d] = pc[d]
    BY <1>1, <1>3, <1>6, <1>7 DEF After, Waiting, PCs
  <1> HIDE DEF late
  <1> QED BY <1>3, <1>5, <1>6, <1>8

\* A permit given back: permits, queue and timers agree again, and the calls that were
\* late are counted.
LEMMA ReleaseKeeps ==
  ASSUME BulkheadInv, NEW c \in Calls, pc[c] \in {"running", "settling"}, NEW cs \in Counts,
         ReleasePermit(c, "done", cs), UNCHANGED <<config, now, queuedAt, attempt, resets>>,
         cs.totalCalls = counts.totalCalls,
         Outcomes(cs) = Outcomes(counts) + IF pc[c] = "running" THEN 1 ELSE 0
  PROVE  BulkheadInv'
PROOF
  <1>1. PICK begun \in SUBSET Waiting, late \in SUBSET Waiting :
           /\ begun \cap late = {}
           /\ \A d \in begun : InTime(d)
           /\ activeCalls' = activeCalls - 1 + Cardinality(begun)
           /\ queue' \in Seq(Calls) /\ IsInjective(queue')
           /\ ToSet(queue') = Waiting \ (begun \cup late)
           /\ pc' \in [Calls -> PCs] /\ pc'[c] = "done"
           /\ \A d \in begun : pc'[d] = IF d \in SyncThrowers THEN "lost" ELSE "started"
           /\ \A d \in late : pc'[d] = "timedOut"
           /\ \A d \in Calls \ (begun \cup late \cup {c}) : pc'[d] = pc[d]
           /\ timer' = [d \in Calls |-> IF d \in begun \cup late THEN NoTimer ELSE timer[d]]
           /\ counts' = [cs EXCEPT !.timedOutCalls = @ + Cardinality(late)]
    BY ReleaseFacts, Zenon
  <1>2. TypeOK /\ Permits /\ QueueConsistent /\ Counting
    BY DEF BulkheadInv
  <1>3. /\ IsFiniteSet(begun) /\ Cardinality(begun) \in Nat
        /\ IsFiniteSet(late) /\ Cardinality(late) \in Nat
    <2>1. begun \in SUBSET Pending /\ late \in SUBSET Pending /\ IsFiniteSet(Pending)
      BY <1>2 DEF Counting, Waiting, Pending
    <2> QED BY <2>1, FS_Subset, FS_CardinalityType
  <1>4. c \notin begun /\ c \notin late
    BY DEF Waiting
  <1>5. Holding' = (Holding \ {c}) \cup begun /\ (Holding \ {c}) \cap begun = {} /\ c \in Holding
    BY <1>1, <1>4 DEF Holding, Waiting
  <1>6. IsFiniteSet(Holding') /\ Cardinality(Holding') = Cardinality(Holding) - 1 + Cardinality(begun)
    <2>1. IsFiniteSet(Holding) /\ Cardinality(Holding) \in Nat
      BY <1>2, FS_CardinalityType DEF Permits
    <2>2. IsFiniteSet(Holding \ {c}) /\ Cardinality(Holding \ {c}) = Cardinality(Holding) - 1
      BY <1>5, <2>1, FS_RemoveElement
    <2> QED BY <1>3, <1>5, <2>1, <2>2, CardinalityAdd
  <1>7. activeCalls' \in Nat
    <2>1. activeCalls' = Cardinality(Holding')
      BY <1>1, <1>2, <1>6 DEF Permits
    <2> QED BY <1>6, <2>1, FS_CardinalityType
  <1>8. Permits'
    BY <1>1, <1>2, <1>4, <1>6 DEF Permits, Waiting
  <1>9. QueueConsistent'
    <2>1. Waiting' = Waiting \ (begun \cup late)
      BY <1>1, <1>4 DEF Waiting
    <2>2. \A d \in Calls : pc'[d] = "queued" <=> timer'[d] # NoTimer
      BY <1>1, <1>2, <1>4 DEF QueueConsistent, Waiting, TypeOK, PCs
    <2> QED BY <1>1, <2>1, <2>2 DEF QueueConsistent, Waiting
  <1>10. counts' \in Counts /\ counts'.totalCalls = counts.totalCalls
         /\ Outcomes(counts') = Outcomes(cs) + Cardinality(late)
    BY <1>1, <1>3, CountersAdd
  <1>11. IsFiniteSet(Pending') /\ Cardinality(Pending') =
           Cardinality(Pending) - Cardinality(late) - IF pc[c] = "running" THEN 1 ELSE 0
    <2>1. IsFiniteSet(Pending) /\ Cardinality(Pending) \in Nat
      BY <1>2, FS_CardinalityType DEF Counting
    <2>2. late \subseteq Pending
      BY DEF Waiting, Pending
    <2>3. IsFiniteSet(Pending \ late) /\ Cardinality(Pending \ late) = Cardinality(Pending) - Cardinality(late)
      BY <2>1, <2>2, CardinalityWithout
    <2>4. CASE pc[c] = "running"
      <3>1. Pending' = (Pending \ late) \ {c} /\ c \in Pending \ late
        BY <1>1, <1>4, <2>4 DEF Pending, Waiting
      <3>2. IsFiniteSet(Pending') /\ Cardinality(Pending') = Cardinality(Pending \ late) - 1
        BY <2>3, <3>1, FS_RemoveElement
      <3> QED BY <2>3, <2>4, <3>2
    <2>5. CASE pc[c] = "settling"
      <3>1. Pending' = Pending \ late
        BY <1>1, <1>4, <2>5 DEF Pending, Waiting
      <3> QED BY <1>3, <2>1, <2>3, <2>5, <3>1
    <2> QED BY <2>4, <2>5
  <1>12. Counting'
    <2>1. /\ Cardinality(Pending) \in Nat /\ Outcomes(counts) \in Nat
          /\ counts.totalCalls \in Nat
      BY <1>2, FS_CardinalityType, CountersAdd DEF Counting, TypeOK
    <2>2. Outcomes(counts') + Cardinality(Pending') = Outcomes(counts) + Cardinality(Pending)
      BY <1>3, <1>10, <1>11, <2>1
    <2> QED BY <1>2, <1>10, <1>11, <2>2 DEF Counting
  <1>13. TypeOK'
    <2>1. timer' \in [Calls -> Nat \cup {NoTimer}]
      BY <1>1, <1>2 DEF TypeOK
    <2> QED BY <1>1, <1>2, <1>7, <1>10, <2>1 DEF TypeOK
  <1> QED BY <1>8, <1>9, <1>12, <1>13 DEF BulkheadInv

-----------------------------------------------------------------------------
(* The invariant, action by action *)

LEMMA InitInv == Init => BulkheadInv
PROOF
  <1> SUFFICES ASSUME Init PROVE BulkheadInv
    OBVIOUS
  <1> USE ConfigAssumption, BoundAssumption DEF Init, ConfigAssumption, BoundAssumption
  <1>1. TypeOK
    BY DEF TypeOK, PCs, Counts, NoCounts, maxRetries
  <1>2. Holding = {} /\ Pending = {} /\ IsFiniteSet({}) /\ Cardinality({}) = 0
    BY FS_EmptySet DEF Holding, Pending
  <1>3. Permits
    BY <1>2 DEF Permits
  <1>4. QueueConsistent
    BY DEF QueueConsistent, ToSet, IsInjective
  <1>5. Counting
    BY <1>2 DEF Counting, Outcomes, NoCounts
  <1> QED BY <1>1, <1>3, <1>4, <1>5 DEF BulkheadInv

\* One call moves, and nobody enters or leaves the queue.
LEMMA MoveKeepsQueue ==
  ASSUME BulkheadInv, NEW c \in Calls, pc[c] # "queued", NEW to \in PCs \ {"queued"},
         pc' = [pc EXCEPT ![c] = to], UNCHANGED <<queue, timer>>
  PROVE  QueueConsistent' /\ pc' \in [Calls -> PCs]
PROOF
  <1>1. pc \in [Calls -> PCs] /\ QueueConsistent
    BY DEF BulkheadInv, TypeOK
  <1>2. {d \in Calls : pc'[d] = "queued"} = {d \in Calls : pc[d] = "queued"}
    BY <1>1
  <1>3. \A d \in Calls : pc'[d] = "queued" <=> pc[d] = "queued"
    BY <1>1
  <1> QED BY <1>1, <1>2, <1>3 DEF QueueConsistent

\* One call moves: who holds a permit, and who is pending.
LEMMA MoveCounts ==
  ASSUME BulkheadInv, NEW c \in Calls, NEW to \in PCs, pc' = [pc EXCEPT ![c] = to]
  PROVE  LET holds(place) == place \in {"running", "started", "settling", "lost"}
             pends(place) == place \in {"running", "queued", "sleeping", "started", "lost"}
         IN /\ IsFiniteSet(Holding') /\ IsFiniteSet(Pending')
            /\ (holds(pc[c]) <=> holds(to)) => Cardinality(Holding') = Cardinality(Holding)
            /\ ~ holds(pc[c]) /\ holds(to) => Cardinality(Holding') = Cardinality(Holding) + 1
            /\ (pends(pc[c]) <=> pends(to)) => Cardinality(Pending') = Cardinality(Pending)
            /\ ~ pends(pc[c]) /\ pends(to) => Cardinality(Pending') = Cardinality(Pending) + 1
            /\ pends(pc[c]) /\ ~ pends(to) => Cardinality(Pending') = Cardinality(Pending) - 1
PROOF
  <1> DEFINE holds(place) == place \in {"running", "started", "settling", "lost"}
             pends(place) == place \in {"running", "queued", "sleeping", "started", "lost"}
  <1>1. pc \in [Calls -> PCs] /\ IsFiniteSet(Holding) /\ IsFiniteSet(Pending)
    BY DEF BulkheadInv, TypeOK, Permits, Counting
  <1>2. /\ (holds(pc[c]) <=> holds(to)) => Holding' = Holding
        /\ ~ holds(pc[c]) /\ holds(to) => Holding' = Holding \cup {c} /\ c \notin Holding
        /\ holds(pc[c]) /\ ~ holds(to) => Holding' = Holding \ {c}
    BY <1>1 DEF Holding
  <1>3. /\ (pends(pc[c]) <=> pends(to)) => Pending' = Pending
        /\ ~ pends(pc[c]) /\ pends(to) => Pending' = Pending \cup {c} /\ c \notin Pending
        /\ pends(pc[c]) /\ ~ pends(to) => Pending' = Pending \ {c} /\ c \in Pending
    BY <1>1 DEF Pending
  <1>4. /\ IsFiniteSet(Holding \cup {c}) /\ IsFiniteSet(Holding \ {c})
        /\ c \notin Holding => Cardinality(Holding \cup {c}) = Cardinality(Holding) + 1
    BY <1>1, FS_AddElement, FS_RemoveElement
  <1>5. /\ IsFiniteSet(Pending \cup {c}) /\ IsFiniteSet(Pending \ {c})
        /\ c \notin Pending => Cardinality(Pending \cup {c}) = Cardinality(Pending) + 1
        /\ c \in Pending => Cardinality(Pending \ {c}) = Cardinality(Pending) - 1
    BY <1>1, FS_AddElement, FS_RemoveElement
  <1> HIDE DEF holds, pends
  <1>6. IsFiniteSet(Holding') /\ IsFiniteSet(Pending')
    BY <1>1, <1>2, <1>3, <1>4, <1>5
  <1>7. /\ (holds(pc[c]) <=> holds(to)) => Cardinality(Holding') = Cardinality(Holding)
        /\ ~ holds(pc[c]) /\ holds(to) => Cardinality(Holding') = Cardinality(Holding) + 1
    BY <1>2, <1>4
  <1>8. /\ (pends(pc[c]) <=> pends(to)) => Cardinality(Pending') = Cardinality(Pending)
        /\ ~ pends(pc[c]) /\ pends(to) => Cardinality(Pending') = Cardinality(Pending) + 1
        /\ pends(pc[c]) /\ ~ pends(to) => Cardinality(Pending') = Cardinality(Pending) - 1
    BY <1>3, <1>5
  <1> QED BY <1>6, <1>7, <1>8 DEF holds, pends

\* What every action may rely on.
LEMMA Known ==
  ASSUME BulkheadInv
  PROVE  /\ pc \in [Calls -> PCs] /\ queuedAt \in [Calls -> Nat] /\ now \in Nat /\ activeCalls \in Nat
         /\ timer \in [Calls -> Nat \cup {NoTimer}] /\ attempt \in [Calls -> 0..maxRetries]
         /\ config \in Config /\ queue \in Seq(Calls) /\ counts \in Counts /\ resets \in Nat
         /\ Outcomes(counts) \in Nat /\ counts.totalCalls \in Nat
         /\ IsFiniteSet(Holding) /\ Cardinality(Holding) \in Nat /\ activeCalls = Cardinality(Holding)
         /\ IsFiniteSet(Pending) /\ Cardinality(Pending) \in Nat
         /\ Permits /\ QueueConsistent /\ Counting /\ TypeOK
PROOF
  <1>1. TypeOK /\ Permits /\ QueueConsistent /\ Counting
    BY DEF BulkheadInv
  <1>2. counts \in Counts
    BY <1>1 DEF TypeOK
  <1>3. Outcomes(counts) \in Nat /\ counts.totalCalls \in Nat
    BY <1>2, CountersAdd
  <1>4. /\ IsFiniteSet(Holding) /\ Cardinality(Holding) \in Nat
        /\ IsFiniteSet(Pending) /\ Cardinality(Pending) \in Nat
    BY <1>1, FS_CardinalityType DEF Permits, Counting
  <1> QED BY <1>1, <1>3, <1>4 DEF TypeOK, Permits

\* The books balance after a step that begins `called' calls.
LEMMA CountingKept ==
  ASSUME BulkheadInv, resets' = resets, IsFiniteSet(Pending'), counts' \in Counts, NEW called \in Nat,
         counts'.totalCalls = counts.totalCalls + called,
         Outcomes(counts') + Cardinality(Pending') = Outcomes(counts) + Cardinality(Pending) + called
  PROVE  Counting'
PROOF
  <1>1. /\ counts.totalCalls \in Nat /\ Outcomes(counts) \in Nat /\ Cardinality(Pending) \in Nat
        /\ Counting
    BY Known
  <1>2. resets' = 0 => counts'.totalCalls = Outcomes(counts') + Cardinality(Pending')
    BY <1>1 DEF Counting
  <1>3. counts'.totalCalls <= Outcomes(counts') + Cardinality(Pending')
    BY <1>1 DEF Counting
  <1> QED BY <1>2, <1>3 DEF Counting

LEMMA ExecuteNowInv ==
  ASSUME BulkheadInv, NEW c \in Calls, ExecuteNow(c)
  PROVE  BulkheadInv'
PROOF
  <1> DEFINE k == [counts EXCEPT !.totalCalls = @ + 1]
  <1>1. /\ pc[c] = "idle" /\ pc' = [pc EXCEPT ![c] = "running"] /\ activeCalls' = activeCalls + 1
        /\ queuedAt' = [queuedAt EXCEPT ![c] = now] /\ counts' = k
        /\ UNCHANGED <<config, now, queue, timer, attempt, resets>>
    BY DEF ExecuteNow, Call
  <1>2. k \in Counts /\ Outcomes(k) = Outcomes(counts) /\ k.totalCalls = counts.totalCalls + 1
    BY Known, CountersAdd
  <1> HIDE DEF k
  <1>3. QueueConsistent' /\ pc' \in [Calls -> PCs]
    BY <1>1, MoveKeepsQueue DEF PCs
  <1>4. /\ IsFiniteSet(Holding') /\ IsFiniteSet(Pending')
        /\ Cardinality(Holding') = Cardinality(Holding) + 1
        /\ Cardinality(Pending') = Cardinality(Pending) + 1
    BY <1>1, MoveCounts DEF PCs
  <1>5. TypeOK'
    BY <1>1, <1>2, <1>3, Known DEF TypeOK
  <1>6. Permits'
    BY <1>1, <1>4, Known DEF Permits
  <1>7. Counting'
    <2>1. Outcomes(counts') + Cardinality(Pending') = Outcomes(counts) + Cardinality(Pending) + 1
      BY <1>1, <1>2, <1>4, Known
    <2> QED BY <1>1, <1>2, <1>4, <2>1, CountingKept
  <1> QED BY <1>3, <1>5, <1>6, <1>7 DEF BulkheadInv

LEMMA ExecuteFullInv ==
  ASSUME BulkheadInv, NEW c \in Calls, ExecuteFull(c)
  PROVE  BulkheadInv'
PROOF
  <1> DEFINE k == [counts EXCEPT !.totalCalls = @ + 1]
  <1>1. /\ pc[c] = "idle" /\ queuedAt' = [queuedAt EXCEPT ![c] = now]
        /\ UNCHANGED <<config, now, activeCalls, queue, timer, resets>>
        /\ \/ /\ pc' = [pc EXCEPT ![c] = "rejected"] /\ attempt' = attempt
              /\ counts' = [counts EXCEPT !.totalCalls = @ + 1, !.rejectedCalls = @ + 1]
           \/ /\ pc' = [pc EXCEPT ![c] = "sleeping"] /\ attempt' = [attempt EXCEPT ![c] = 1]
              /\ counts' = k
    BY DEF ExecuteFull, Call
  <1>2. k \in Counts /\ Outcomes(k) = Outcomes(counts) /\ k.totalCalls = counts.totalCalls + 1
    BY Known, CountersAdd
  <1>3. attempt' \in [Calls -> 0..maxRetries]
    <2>1. attempt' = attempt \/ attempt' = [attempt EXCEPT ![c] = 1]
      BY <1>1
    <2>2. 1 \in 0..maxRetries
      BY DEF maxRetries
    <2> QED BY <2>1, <2>2, Known
  <1>4. CASE /\ pc' = [pc EXCEPT ![c] = "rejected"]
             /\ counts' = [counts EXCEPT !.totalCalls = @ + 1, !.rejectedCalls = @ + 1]
    <2>1. QueueConsistent' /\ pc' \in [Calls -> PCs]
      BY <1>1, <1>4, MoveKeepsQueue DEF PCs
    <2>2. /\ IsFiniteSet(Holding') /\ IsFiniteSet(Pending')
          /\ Cardinality(Holding') = Cardinality(Holding)
          /\ Cardinality(Pending') = Cardinality(Pending)
      BY <1>1, <1>4, MoveCounts DEF PCs
    <2>3. counts' = [k EXCEPT !.rejectedCalls = @ + 1]
      BY <1>4, Known DEF Counts
    <2> HIDE DEF k
    <2>4. counts' \in Counts /\ Outcomes(counts') = Outcomes(k) + 1 /\ counts'.totalCalls = k.totalCalls
      BY <1>2, <2>3, CountersAdd
    <2>5. TypeOK'
      BY <1>1, <1>3, <2>1, <2>4, Known DEF TypeOK
    <2>6. Permits'
      BY <1>1, <1>4, <2>2, Known DEF Permits
    <2>7. Counting'
      BY <1>1, <1>2, <2>2, <2>4, Known DEF Counting
    <2> QED BY <2>1, <2>5, <2>6, <2>7 DEF BulkheadInv
  <1>5. CASE pc' = [pc EXCEPT ![c] = "sleeping"] /\ counts' = k
    <2>1. QueueConsistent' /\ pc' \in [Calls -> PCs]
      BY <1>1, <1>5, MoveKeepsQueue DEF PCs
    <2>2. /\ IsFiniteSet(Holding') /\ IsFiniteSet(Pending')
          /\ Cardinality(Holding') = Cardinality(Holding)
          /\ Cardinality(Pending') = Cardinality(Pending) + 1
      BY <1>1, <1>5, MoveCounts DEF PCs
    <2> HIDE DEF k
    <2>5. TypeOK'
      BY <1>1, <1>2, <1>3, <1>5, <2>1, Known DEF TypeOK
    <2>6. Permits'
      BY <1>1, <1>5, <2>2, Known DEF Permits
    <2>7. Counting'
      <3>1. Outcomes(counts') + Cardinality(Pending') = Outcomes(counts) + Cardinality(Pending) + 1
        BY <1>2, <1>5, <2>2, Known
      <3> QED BY <1>1, <1>2, <1>5, <2>2, <3>1, CountingKept
    <2> QED BY <2>1, <2>5, <2>6, <2>7 DEF BulkheadInv
  <1> QED BY <1>1, <1>4, <1>5

LEMMA ExecuteQueuedInv ==
  ASSUME BulkheadInv, NEW c \in Calls, ExecuteQueued(c)
  PROVE  BulkheadInv'
PROOF
  <1> DEFINE k   == [counts EXCEPT !.totalCalls = @ + 1]
             due == now + config.queueTimeoutMs
  <1>1. /\ pc[c] = "idle" /\ pc' = [pc EXCEPT ![c] = "queued"] /\ queue' = Append(queue, c)
        /\ timer' = [timer EXCEPT ![c] = due]
        /\ queuedAt' = [queuedAt EXCEPT ![c] = now] /\ counts' = k
        /\ UNCHANGED <<config, now, activeCalls, attempt, resets>>
    BY DEF ExecuteQueued, Call
  <1>2. k \in Counts /\ Outcomes(k) = Outcomes(counts) /\ k.totalCalls = counts.totalCalls + 1
    BY Known, CountersAdd
  <1>3. due \in Nat /\ due # NoTimer
    BY Known DEF Config, NoTimer
  <1> HIDE DEF k, due
  <1>4. pc' \in [Calls -> PCs] /\ {d \in Calls : pc'[d] = "queued"} = Waiting \cup {c}
    BY <1>1, Known DEF PCs, Waiting
  <1>5. /\ IsFiniteSet(Holding') /\ IsFiniteSet(Pending')
        /\ Cardinality(Holding') = Cardinality(Holding)
        /\ Cardinality(Pending') = Cardinality(Pending) + 1
    BY <1>1, MoveCounts DEF PCs
  <1>6. ToSet(queue) = Waiting /\ IsInjective(queue) /\ c \notin Waiting
    BY <1>1, Known DEF QueueConsistent, Waiting
  <1>7. /\ queue' \in Seq(Calls) /\ IsInjective(queue') /\ ToSet(queue') = Waiting \cup {c}
    BY <1>1, <1>6, Known, QueueAppended
  <1>8. timer' \in [Calls -> Nat \cup {NoTimer}]
    BY <1>1, <1>3, Known
  <1>9. \A d \in Calls : pc'[d] = "queued" <=> timer'[d] # NoTimer
    BY <1>1, <1>3, Known DEF QueueConsistent
  <1>10. QueueConsistent'
    BY <1>4, <1>7, <1>9 DEF QueueConsistent
  <1>11. TypeOK'
    BY <1>1, <1>2, <1>4, <1>7, <1>8, Known DEF TypeOK
  <1>12. Permits'
    BY <1>1, <1>5, Known DEF Permits
  <1>13. Counting'
    BY <1>1, <1>2, <1>5, Known DEF Counting
  <1> QED BY <1>10, <1>11, <1>12, <1>13 DEF BulkheadInv

LEMMA TaskSettlesInv ==
  ASSUME BulkheadInv, NEW c \in Calls, NEW ok \in BOOLEAN, TaskSettles(c, ok)
  PROVE  BulkheadInv'
PROOF
  <1>1. pc[c] = "running" /\ ReleasePermit(c, "done", Counted(ok))
        /\ UNCHANGED <<config, now, queuedAt, attempt, resets>>
    BY DEF TaskSettles
  <1>2. /\ Counted(ok) \in Counts /\ Outcomes(Counted(ok)) = Outcomes(counts) + 1
        /\ Counted(ok).totalCalls = counts.totalCalls
    BY Known, CountersAdd DEF Counted
  <1>3. Outcomes(Counted(ok)) = Outcomes(counts) + IF pc[c] = "running" THEN 1 ELSE 0
    BY <1>1, <1>2
  <1> QED BY <1>1, <1>2, <1>3, ReleaseKeeps

LEMMA StartedSettlesInv ==
  ASSUME BulkheadInv, NEW c \in Calls, NEW ok \in BOOLEAN, StartedSettles(c, ok)
  PROVE  BulkheadInv'
PROOF
  <1>1. /\ pc[c] = "started" /\ pc' = [pc EXCEPT ![c] = "settling"] /\ counts' = Counted(ok)
        /\ UNCHANGED <<config, now, activeCalls, queue, queuedAt, timer, attempt, resets>>
    BY DEF StartedSettles, callVars
  <1>2. /\ counts' \in Counts /\ Outcomes(counts') = Outcomes(counts) + 1
        /\ counts'.totalCalls = counts.totalCalls
    BY <1>1, Known, CountersAdd DEF Counted
  <1>3. QueueConsistent' /\ pc' \in [Calls -> PCs]
    BY <1>1, MoveKeepsQueue DEF PCs
  <1>4. /\ IsFiniteSet(Holding') /\ IsFiniteSet(Pending')
        /\ Cardinality(Holding') = Cardinality(Holding)
        /\ Cardinality(Pending') = Cardinality(Pending) - 1
    BY <1>1, MoveCounts DEF PCs
  <1>5. TypeOK'
    BY <1>1, <1>2, <1>3, Known DEF TypeOK
  <1>6. Permits'
    BY <1>1, <1>4, Known DEF Permits
  <1>7. Counting'
    BY <1>1, <1>2, <1>4, Known DEF Counting
  <1> QED BY <1>3, <1>5, <1>6, <1>7 DEF BulkheadInv

LEMMA StartedReleasesInv ==
  ASSUME BulkheadInv, NEW c \in Calls, StartedReleases(c)
  PROVE  BulkheadInv'
PROOF
  <1>1. pc[c] = "settling" /\ ReleasePermit(c, "done", counts)
        /\ UNCHANGED <<config, now, queuedAt, attempt, resets>>
    BY DEF StartedReleases
  <1>2. Outcomes(counts) = Outcomes(counts) + IF pc[c] = "running" THEN 1 ELSE 0
    BY <1>1, Known
  <1> QED BY <1>1, <1>2, Known, ReleaseKeeps

LEMMA TimerFiresInv ==
  ASSUME BulkheadInv, NEW c \in Calls, TimerFires(c)
  PROVE  BulkheadInv'
PROOF
  <1> DEFINE k == [counts EXCEPT !.timedOutCalls = @ + 1]
  <1>1. pc[c] = "queued" /\ ToSet(queue) = Waiting /\ IsInjective(queue) /\ c \in ToSet(queue)
    BY Known DEF TimerFires, QueueConsistent, Waiting
  <1>2. /\ pc' = [pc EXCEPT ![c] = "timedOut"] /\ timer' = [timer EXCEPT ![c] = NoTimer]
        /\ \E i \in DOMAIN queue : queue[i] = c /\ queue' = RemoveAt(queue, i)
        /\ counts' = k /\ UNCHANGED <<config, now, activeCalls, queuedAt, attempt, resets>>
    BY <1>1 DEF TimerFires
  <1>3. /\ k \in Counts /\ Outcomes(k) = Outcomes(counts) + 1 /\ k.totalCalls = counts.totalCalls
    BY Known, CountersAdd
  <1> HIDE DEF k
  <1>4. queue' \in Seq(Calls) /\ IsInjective(queue') /\ ToSet(queue') = Waiting \ {c}
    BY <1>1, <1>2, Known, QueueWithout
  <1>5. pc' \in [Calls -> PCs] /\ {d \in Calls : pc'[d] = "queued"} = Waiting \ {c}
    BY <1>2, Known DEF PCs, Waiting
  <1>6. /\ IsFiniteSet(Holding') /\ IsFiniteSet(Pending')
        /\ Cardinality(Holding') = Cardinality(Holding)
        /\ Cardinality(Pending') = Cardinality(Pending) - 1
    BY <1>1, <1>2, MoveCounts DEF PCs
  <1>7. timer' \in [Calls -> Nat \cup {NoTimer}]
    BY <1>2, Known
  <1>8. \A d \in Calls : pc'[d] = "queued" <=> timer'[d] # NoTimer
    BY <1>2, Known DEF QueueConsistent
  <1>9. QueueConsistent'
    BY <1>4, <1>5, <1>8 DEF QueueConsistent
  <1>10. TypeOK'
    BY <1>2, <1>3, <1>4, <1>5, <1>7, Known DEF TypeOK
  <1>11. Permits'
    BY <1>2, <1>6, Known DEF Permits
  <1>12. Counting'
    <2>1. /\ Outcomes(counts') + Cardinality(Pending') = Outcomes(counts) + Cardinality(Pending) + 0
          /\ counts'.totalCalls = counts.totalCalls + 0
      <3>1. Outcomes(counts') = Outcomes(counts) + 1 /\ counts'.totalCalls = counts.totalCalls
        BY <1>2, <1>3
      <3>2. /\ Cardinality(Pending) \in Nat /\ Outcomes(counts) \in Nat
            /\ counts.totalCalls \in Nat
        BY Known
      <3> QED BY <1>6, <3>1, <3>2
    <2> QED BY <1>2, <1>3, <1>6, <2>1, CountingKept
  <1> QED BY <1>9, <1>10, <1>11, <1>12 DEF BulkheadInv

LEMMA WakesInv ==
  ASSUME BulkheadInv, NEW c \in Calls, Wakes(c)
  PROVE  BulkheadInv'
PROOF
  <1> DEFINE k == [counts EXCEPT !.rejectedCalls = @ + 1]
  <1>1. pc[c] = "sleeping" /\ UNCHANGED <<config, now, queue, queuedAt, timer, resets>>
    BY DEF Wakes
  <1>2. CASE /\ pc' = [pc EXCEPT ![c] = "rejected"] /\ counts' = k
             /\ UNCHANGED <<activeCalls, attempt>>
    <2>1. k \in Counts /\ Outcomes(k) = Outcomes(counts) + 1 /\ k.totalCalls = counts.totalCalls
      BY Known, CountersAdd
    <2> HIDE DEF k
    <2>2. QueueConsistent' /\ pc' \in [Calls -> PCs]
      BY <1>1, <1>2, MoveKeepsQueue DEF PCs
    <2>3. /\ IsFiniteSet(Holding') /\ IsFiniteSet(Pending')
          /\ Cardinality(Holding') = Cardinality(Holding)
          /\ Cardinality(Pending') = Cardinality(Pending) - 1
      BY <1>1, <1>2, MoveCounts DEF PCs
    <2>4. TypeOK'
      BY <1>1, <1>2, <2>1, <2>2, Known DEF TypeOK
    <2>5. Permits'
      BY <1>1, <1>2, <2>3, Known DEF Permits
    <2>6. Counting'
      <3>1. /\ Outcomes(counts') + Cardinality(Pending') = Outcomes(counts) + Cardinality(Pending) + 0
            /\ counts'.totalCalls = counts.totalCalls + 0
        <4>1. Outcomes(counts') = Outcomes(counts) + 1 /\ counts'.totalCalls = counts.totalCalls
          BY <1>2, <2>1
        <4>2. /\ Cardinality(Pending) \in Nat /\ Outcomes(counts) \in Nat
              /\ counts.totalCalls \in Nat
          BY Known
        <4> QED BY <2>3, <4>1, <4>2
      <3> QED BY <1>1, <1>2, <2>1, <2>3, <3>1, CountingKept
    <2> QED BY <2>2, <2>4, <2>5, <2>6 DEF BulkheadInv
  <1>3. CASE /\ attempt[c] # maxRetries /\ attempt' = [attempt EXCEPT ![c] = @ + 1]
             /\ pc' = [pc EXCEPT ![c] = "running"] /\ activeCalls' = activeCalls + 1
             /\ UNCHANGED counts
    <2>1. attempt[c] + 1 \in 0..maxRetries /\ attempt' = [attempt EXCEPT ![c] = attempt[c] + 1]
      <3>1. attempt[c] \in 0..maxRetries /\ attempt[c] # maxRetries
        BY <1>3, Known
      <3> QED BY <1>3, <3>1 DEF maxRetries
    <2>2. QueueConsistent' /\ pc' \in [Calls -> PCs]
      BY <1>1, <1>3, MoveKeepsQueue DEF PCs
    <2>3. /\ IsFiniteSet(Holding') /\ IsFiniteSet(Pending')
          /\ Cardinality(Holding') = Cardinality(Holding) + 1
          /\ Cardinality(Pending') = Cardinality(Pending)
      BY <1>1, <1>3, MoveCounts DEF PCs
    <2>4. TypeOK'
      BY <1>1, <1>3, <2>1, <2>2, Known DEF TypeOK
    <2>5. Permits'
      BY <1>1, <1>3, <2>3, Known DEF Permits
    <2>6. Counting'
      BY <1>1, <1>3, <2>3, Known DEF Counting
    <2> QED BY <2>2, <2>4, <2>5, <2>6 DEF BulkheadInv
  <1>4. CASE /\ attempt[c] # maxRetries /\ attempt' = [attempt EXCEPT ![c] = @ + 1]
             /\ UNCHANGED <<activeCalls, pc, counts>>
    <2>1. attempt[c] + 1 \in 0..maxRetries /\ attempt' = [attempt EXCEPT ![c] = attempt[c] + 1]
      <3>1. attempt[c] \in 0..maxRetries /\ attempt[c] # maxRetries
        BY <1>4, Known
      <3> QED BY <1>4, <3>1 DEF maxRetries
    <2> QED BY <1>1, <1>4, <2>1, Known
            DEF BulkheadInv, TypeOK, Permits, Holding, QueueConsistent, Counting, Pending
  <1> QED BY <1>2, <1>3, <1>4 DEF Wakes

LEMMA StepInv == BulkheadInv /\ [Next]_vars => BulkheadInv'
PROOF
  <1> SUFFICES ASSUME BulkheadInv, [Next]_vars PROVE BulkheadInv'
    OBVIOUS
  <1>1. ASSUME NEW c \in Calls, CallStep(c) PROVE BulkheadInv'
    BY <1>1, ExecuteNowInv, ExecuteFullInv, ExecuteQueuedInv, TaskSettlesInv, StartedSettlesInv,
       StartedReleasesInv, TimerFiresInv, WakesInv DEF CallStep
  <1>2. ASSUME NEW k \in Configs, UpdateConfig(k) PROVE BulkheadInv'
    BY <1>2, ConfigAssumption, Known DEF ConfigAssumption, UpdateConfig, callVars, BulkheadInv, TypeOK,
       Permits, Holding, QueueConsistent, Counting, Pending
  <1>3. CASE ResetMetrics
    <2>1. NoCounts \in Counts /\ NoCounts.totalCalls = 0 /\ Outcomes(NoCounts) = 0
      BY DEF NoCounts, Counts, Outcomes
    <2>2. /\ resets' = resets + 1 /\ counts' = NoCounts
          /\ UNCHANGED <<config, now, activeCalls, queue, pc, queuedAt, timer, attempt>>
      BY <1>3 DEF ResetMetrics, callVars
    <2>3. TypeOK'
      BY <2>1, <2>2, Known DEF TypeOK
    <2>4. Permits' /\ QueueConsistent'
      BY <2>2, Known DEF Permits, Holding, QueueConsistent
    <2>5. Pending' = Pending /\ resets' # 0
      BY <2>2, Known DEF Pending
    <2>6. Counting'
      BY <2>1, <2>2, <2>5, Known DEF Counting
    <2> QED BY <2>3, <2>4, <2>6 DEF BulkheadInv
  <1>4. CASE Tick
    BY <1>4, Known DEF Tick, callVars, BulkheadInv, TypeOK, Permits, Holding, QueueConsistent,
       Counting, Pending
  <1>5. CASE UNCHANGED vars
    BY <1>5 DEF vars, callVars, BulkheadInv, TypeOK, Permits, Holding, QueueConsistent, Counting, Pending
  <1> QED BY <1>1, <1>2, <1>3, <1>4, <1>5 DEF Next

\* The inductive invariant: with a thrower's permit counted as held, the books always agree.
THEOREM BulkheadInvariance == Spec => []BulkheadInv
PROOF
  <1> QED BY InitInv, StepInv, PTL DEF Spec

\* If no task throws before it returns its promise, activeCalls is the number of calls that
\* hold a permit, the queue holds who waits, timers are armed for exactly those, and every
\* call has one outcome: for any calls and configurations.
THEOREM BooksAgree == SyncThrowers = {} => (Spec => []Accounted)
PROOF
  <1> SUFFICES ASSUME SyncThrowers = {} PROVE Spec => []Accounted
    OBVIOUS
  <1>1. BulkheadInv => Accounted
    <2> SUFFICES ASSUME BulkheadInv PROVE Accounted
      OBVIOUS
    <2>1. Holders = Holding
      BY Known DEF Holders, Holding, Permits
    <2>2. PermitsAccounted
      BY <2>1, Known DEF PermitsAccounted
    <2>3. CallsAccounted
      BY Known DEF CallsAccounted, Counting, Pending, Outcomes
    <2> QED BY <2>2, <2>3, Known DEF Accounted
  <1> QED BY <1>1, BulkheadInvariance, PTL

-----------------------------------------------------------------------------
(* The order in which calls start, and the permits that are handed over *)

\* Who waits in the first n places and is in time, each once.
LEMMA StartedCount ==
  ASSUME BulkheadInv, NEW n \in 0..Len(queue)
  PROVE  Cardinality({d \in {queue[i] : i \in 1..n} : InTime(d)}) = StartedOf(n)
PROOF
  <1> DEFINE places == {i \in 1..n : InTime(queue[i])}
             begun  == {d \in {queue[i] : i \in 1..n} : InTime(d)}
             f      == [i \in places |-> queue[i]]
  <1>1. queue \in Seq(Calls) /\ IsInjective(queue) /\ \A i \in 1..n : i \in DOMAIN queue
    BY Known DEF QueueConsistent
  <1>2. IsFiniteSet(places)
    <2>1. IsFiniteSet(1..n)
      BY FS_Interval
    <2> QED BY <2>1, FS_Subset
  <1>3. f \in Bijection(places, begun)
    <2>1. f \in [places -> begun]
      OBVIOUS
    <2>2. ASSUME NEW i \in places, NEW j \in places, f[i] = f[j] PROVE i = j
      BY <1>1, <2>2 DEF IsInjective
    <2>3. \A d \in begun : \E i \in places : f[i] = d
      OBVIOUS
    <2> QED BY <2>1, <2>2, <2>3 DEF Bijection, Injection, Surjection, IsInjective
  <1>4. Cardinality(begun) = Cardinality(places)
    BY <1>2, <1>3, FS_Bijection DEF ExistsBijection
  <1> QED BY <1>4 DEF StartedOf

LEMMA ReleaseInOrder ==
  ASSUME BulkheadInv, NEW c \in Calls, pc[c] \in {"running", "settling"}, NEW cs,
         ReleasePermit(c, "done", cs), NEW i \in DOMAIN queue, pc'[queue[i]] = "started"
  PROVE  InTime(queue[i]) /\ \A j \in 1..(i - 1) : pc'[queue[j]] # "queued"
PROOF
  <1> DEFINE n       == Shifted(config.maxConcurrentCalls - (activeCalls - 1))
             shifted == {queue[j] : j \in 1..n}
             begun   == {d \in shifted : InTime(d)}
  <1>1. /\ queue \in Seq(Calls) /\ IsInjective(queue) /\ Len(queue) \in Nat /\ i \in 1..Len(queue)
        /\ \A j \in 1..Len(queue) : queue[j] \in Calls /\ pc[queue[j]] = "queued"
    <2>1. queue \in Seq(Calls) /\ ToSet(queue) = Waiting /\ IsInjective(queue)
      BY Known DEF QueueConsistent, Waiting
    <2>2. DOMAIN queue = 1..Len(queue)
      BY <2>1
    <2> QED BY <2>1, <2>2 DEF ToSet, Waiting
  <1>2. n \in 0..Len(queue)
    <2>1. config.maxConcurrentCalls - (activeCalls - 1) \in Int
      BY Known DEF Config
    <2> QED BY <1>1, <2>1, ShiftedFacts
  <1>3. pc' = [d \in Calls |-> IF d = c THEN "done" ELSE After(shifted, begun, d)]
    BY DEF ReleasePermit
  <1> HIDE DEF n
  <1>4. \A j \in 1..Len(queue) : queue[j] # c
    BY <1>1
  <1>5. \A j \in 1..Len(queue) : pc'[queue[j]] = After(shifted, begun, queue[j])
    BY <1>1, <1>3, <1>4
  <1> HIDE DEF shifted
  <1>6. queue[i] \in begun
    BY <1>1, <1>5 DEF After
  <1>7. i \in 1..n
    <2>1. PICK j \in 1..n : queue[i] = queue[j]
      BY <1>6 DEF shifted
    <2>2. j \in 1..Len(queue)
      BY <1>1, <1>2
    <2> QED BY <1>1, <2>1, <2>2 DEF IsInjective
  <1>8. ASSUME NEW j \in 1..(i - 1) PROVE pc'[queue[j]] # "queued"
    <2>1. j \in 1..n /\ j \in 1..Len(queue)
      BY <1>1, <1>2, <1>7
    <2>2. queue[j] \in shifted
      BY <2>1 DEF shifted
    <2> QED BY <1>5, <2>1, <2>2 DEF After
  <1> QED BY <1>6, <1>8

LEMMA ReleaseHandsToNext ==
  ASSUME BulkheadInv, SyncThrowers = {}, NEW c \in Calls, pc[c] \in {"running", "settling"}, NEW cs,
         ReleasePermit(c, "done", cs), config' = config
  PROVE  WorkConserving'
PROOF
  <1> DEFINE active  == activeCalls - 1
             free    == config.maxConcurrentCalls - active
             n       == Shifted(free)
             shifted == {queue[i] : i \in 1..n}
             begun   == {d \in shifted : InTime(d)}
  <1>1. /\ queue \in Seq(Calls) /\ Len(queue) \in Nat /\ active \in Int
        /\ config.maxConcurrentCalls \in Nat /\ free \in Int
    BY Known DEF Config
  <1>2. /\ activeCalls' = active + Cardinality(begun)
        /\ queue' = SubSeq(queue, n + 1, Len(queue))
    BY DEF ReleasePermit
  <1>3. /\ n \in 0..Len(queue)
        /\ free <= 0 => n = 0
        /\ free > 0 => n = Len(queue) \/ StartedOf(n) = free
    BY <1>1, ShiftedFacts
  <1>4. Cardinality(begun) = StartedOf(n)
    BY <1>3, StartedCount
  <1>5. CASE free <= 0
    <2>1. begun = {}
      BY <1>3, <1>5
    <2>2. Cardinality(begun) = 0
      BY <2>1, FS_EmptySet
    <2> HIDE DEF begun
    <2> QED BY <1>1, <1>2, <1>5, <2>2 DEF WorkConserving, HasPermit
  <1>6. CASE free > 0 /\ n = Len(queue)
    <2>1. queue' = <<>>
      <3>1. n + 1 \in Int /\ Len(queue) \in Int /\ Len(queue) < n + 1
        BY <1>1, <1>3, <1>6
      <3> HIDE DEF n
      <3> QED BY <1>2, <3>1, SubSeqEmpty
    <2> QED BY <2>1 DEF WorkConserving
  <1>7. CASE free > 0 /\ StartedOf(n) = free
    <2> HIDE DEF begun, n
    <2>1. activeCalls' = active + free
      BY <1>2, <1>4, <1>7
    <2> QED BY <1>1, <2>1 DEF WorkConserving, HasPermit
  <1> HIDE DEF n, active
  <1> QED BY <1>1, <1>3, <1>5, <1>6, <1>7

\* What a step can be: a permit is given back, or nobody gives up a permit and nobody
\* leaves the queue to run.
LEMMA StepKinds ==
  ASSUME BulkheadInv, [Next]_vars
  PROVE  \/ \E c \in Calls, cs \in {counts, Counted(TRUE), Counted(FALSE)} :
              /\ pc[c] \in {"running", "settling"}
              /\ ReleasePermit(c, "done", cs) /\ UNCHANGED <<config, now, queuedAt>>
         \/ /\ Holders \subseteq Holders'
            /\ \A d \in Calls : pc[d] = "queued" => pc'[d] # "started"
PROOF
  <1>1. pc \in [Calls -> PCs]
    BY Known
  <1>2. ASSUME NEW c \in Calls, CallStep(c)
        PROVE  \/ \E cs \in {counts, Counted(TRUE), Counted(FALSE)} :
                    /\ pc[c] \in {"running", "settling"}
                    /\ ReleasePermit(c, "done", cs) /\ UNCHANGED <<config, now, queuedAt>>
               \/ /\ pc[c] \in {"running", "started", "settling"} =>
                       pc'[c] \in {"running", "started", "settling"}
                  /\ pc[c] = "queued" => pc'[c] # "started"
                  /\ \A d \in Calls \ {c} : pc'[d] = pc[d]
    <2>1. CASE ExecuteNow(c)
      BY <1>1, <2>1 DEF ExecuteNow, Call
    <2>2. CASE ExecuteFull(c)
      <3>1. pc[c] = "idle" /\ (pc' = [pc EXCEPT ![c] = "rejected"] \/ pc' = [pc EXCEPT ![c] = "sleeping"])
        BY <2>2 DEF ExecuteFull, Call
      <3> QED BY <1>1, <3>1
    <2>3. CASE ExecuteQueued(c)
      BY <1>1, <2>3 DEF ExecuteQueued, Call
    <2>4. CASE \E ok \in BOOLEAN : TaskSettles(c, ok)
      BY <2>4 DEF TaskSettles
    <2>5. CASE \E ok \in BOOLEAN : StartedSettles(c, ok)
      BY <1>1, <2>5 DEF StartedSettles
    <2>6. CASE StartedReleases(c)
      BY <2>6 DEF StartedReleases
    <2>7. CASE TimerFires(c)
      <3>1. pc[c] = "queued" /\ pc' = [pc EXCEPT ![c] = "timedOut"]
        BY <2>7, Known DEF TimerFires, QueueConsistent
      <3> QED BY <1>1, <3>1
    <2>8. CASE Wakes(c)
      <3>1. pc[c] = "sleeping" /\ \/ pc' = [pc EXCEPT ![c] = "rejected"]
                                  \/ pc' = [pc EXCEPT ![c] = "running"]
                                  \/ pc' = pc
        BY <2>8 DEF Wakes
      <3> QED BY <1>1, <3>1
    <2> QED BY <1>2, <2>1, <2>2, <2>3, <2>4, <2>5, <2>6, <2>7, <2>8 DEF CallStep
  <1>3. CASE \E c \in Calls : CallStep(c)
    <2>1. PICK c \in Calls : CallStep(c)
      BY <1>3
    <2>2. CASE /\ pc[c] \in {"running", "started", "settling"} =>
                    pc'[c] \in {"running", "started", "settling"}
               /\ pc[c] = "queued" => pc'[c] # "started"
               /\ \A d \in Calls \ {c} : pc'[d] = pc[d]
      BY <2>2 DEF Holders
    <2> QED BY <1>2, <2>1, <2>2
  <1>4. CASE pc' = pc
    BY <1>4 DEF Holders
  <1>5. (\E k \in Configs : UpdateConfig(k)) \/ ResetMetrics \/ Tick \/ UNCHANGED vars => pc' = pc
    BY DEF UpdateConfig, ResetMetrics, Tick, vars
  <1> QED BY <1>3, <1>4, <1>5 DEF Next

\* Calls start in the order they came, and never after their time in the queue is over,
\* also if timers are late and configurations change.
THEOREM OrderKept == Spec => StartsInOrder
PROOF
  <1>1. ASSUME BulkheadInv, [Next]_vars, NEW i \in DOMAIN queue, pc'[queue[i]] = "started"
        PROVE  /\ now <= queuedAt[queue[i]] + config.queueTimeoutMs
               /\ \A j \in 1..(i - 1) : pc'[queue[j]] # "queued"
    <2>1. queue[i] \in Calls /\ pc[queue[i]] = "queued"
      BY <1>1, Known DEF QueueConsistent, ToSet
    <2>2. InTime(queue[i]) /\ \A j \in 1..(i - 1) : pc'[queue[j]] # "queued"
      BY <1>1, <2>1, StepKinds, ReleaseInOrder
    <2>3. now \in Nat /\ queuedAt[queue[i]] \in Nat /\ config.queueTimeoutMs \in Nat
      BY <1>1, <2>1, Known DEF Config
    <2> QED BY <2>2, <2>3 DEF InTime
  <1>2. BulkheadInv /\ [Next]_vars =>
          [\A i \in DOMAIN queue : pc'[queue[i]] = "started" =>
             /\ now <= queuedAt[queue[i]] + config.queueTimeoutMs
             /\ \A j \in 1..(i - 1) : pc'[queue[j]] # "queued"]_vars
    BY <1>1
  <1> QED BY <1>2, BulkheadInvariance, PTL DEF Spec, StartsInOrder

\* If no task throws before it returns its promise, nobody waits next to a free permit
\* after a permit was given back.
THEOREM PermitsHandedOver == SyncThrowers = {} => (Spec => ReleaseHandsOver)
PROOF
  <1> SUFFICES ASSUME SyncThrowers = {} PROVE Spec => ReleaseHandsOver
    OBVIOUS
  <1>1. BulkheadInv /\ [Next]_vars =>
          [(\E c \in Holders : c \notin Holders') => WorkConserving']_vars
    BY StepKinds, ReleaseHandsToNext
  <1> QED BY <1>1, BulkheadInvariance, PTL DEF Spec, ReleaseHandsOver

-----------------------------------------------------------------------------
(* The tuner, in module Tuner: first, the greatest of finitely many numbers *)

LEMMA Highest ==
  ASSUME NEW S \in SUBSET Nat, IsFiniteSet(S), S # {}
  PROVE  Max(S) \in S /\ \A x \in S : x <= Max(S)
PROOF
  <1> DEFINE Topped(U) == \E m \in U : \A x \in U : x <= m
             Good == {n \in Nat : \A U \in SUBSET Nat :
                        IsFiniteSet(U) /\ Cardinality(U) = n + 1 => Topped(U)}
  <1>1. 0 \in Good
    <2>1. ASSUME NEW U \in SUBSET Nat, IsFiniteSet(U), Cardinality(U) = 1
          PROVE  Topped(U)
      <3>1. PICK x : U = {x}
        BY <2>1, FS_Singleton
      <3> QED BY <3>1
    <2> QED BY <2>1
  <1>2. ASSUME NEW n \in Nat, n \in Good
        PROVE  n + 1 \in Good
    <2>1. ASSUME NEW U \in SUBSET Nat, IsFiniteSet(U), Cardinality(U) = (n + 1) + 1
          PROVE  Topped(U)
      <3>1. U # {}
        BY <2>1, FS_EmptySet
      <3>2. PICK x \in U : TRUE
        BY <3>1
      <3>3. IsFiniteSet(U \ {x}) /\ Cardinality(U \ {x}) = Cardinality(U) - 1
        BY <2>1, <3>2, FS_RemoveElement
      <3>4. Cardinality(U \ {x}) = n + 1 /\ U \ {x} \in SUBSET Nat
        BY <2>1, <3>3
      <3>5. Topped(U \ {x})
        BY <1>2, <3>3, <3>4
      <3>6. PICK m \in U \ {x} : \A y \in U \ {x} : y <= m
        BY <3>5
      <3>7. CASE m <= x
        <4>1. \A y \in U : y <= x
          BY <3>6, <3>7
        <4> QED BY <3>2, <4>1
      <3>8. CASE x <= m
        <4>1. \A y \in U : y <= m
          BY <3>6, <3>8
        <4> QED BY <3>6, <4>1
      <3>9. x \in Nat /\ m \in Nat
        OBVIOUS
      <3> QED BY <3>7, <3>8, <3>9
    <2> QED BY <2>1
  <1> HIDE DEF Good
  <1>3. Nat \subseteq Good
    BY <1>1, <1>2, AllNumbers
  <1>4. Cardinality(S) \in Nat /\ Cardinality(S) # 0
    BY FS_CardinalityType, FS_EmptySet
  <1>5. Cardinality(S) - 1 \in Good /\ (Cardinality(S) - 1) + 1 = Cardinality(S)
    BY <1>3, <1>4
  <1>6. Topped(S)
    BY <1>5 DEF Good
  <1>7. \E m \in S : \A x \in S : m >= x
    BY <1>6
  <1>8. Max(S) \in S /\ \A x \in S : Max(S) >= x
    BY <1>7 DEF Max
  <1> QED BY <1>8

LEMMA FiniteImage ==
  ASSUME NEW S, IsFiniteSet(S), NEW f
  PROVE  IsFiniteSet({f[x] : x \in S})
PROOF
  <1> DEFINE g == [x \in S |-> f[x]]
             T == {f[x] : x \in S}
  <1>1. g \in Surjection(S, T)
    BY DEF Surjection
  <1> QED BY <1>1, FS_Surjection

-----------------------------------------------------------------------------
(* What the window says of an endpoint *)

Durations(t, items) == {t[i].duration : i \in items}

\* The durations that have more than `index' requests up to them have a least one.
LEMMA RankedIs ==
  ASSUME NEW t, NEW items, IsFiniteSet(items), NEW index \in Nat, index < Cardinality(items),
         \A i \in items : t[i].duration \in Nat
  PROVE  Ranked(t, items, index) \in Durations(t, items)
PROOF
  <1> DEFINE D == Durations(t, items)
             UpTo(d) == {i \in items : t[i].duration <= d}
             Below(d) == {i \in items : t[i].duration < d}
             Enough == {d \in D : Cardinality(UpTo(d)) > index}
  <1>1. D \in SUBSET Nat /\ \A i \in items : t[i].duration \in D
    BY DEF Durations
  <1>2. IsFiniteSet(D)
    <2> DEFINE f == [i \in items |-> t[i].duration]
    <2>1. IsFiniteSet({f[i] : i \in items})
      BY FiniteImage
    <2> QED BY <2>1 DEF Durations
  <1>3. \A d \in Nat : /\ IsFiniteSet(UpTo(d)) /\ Cardinality(UpTo(d)) \in Nat
                       /\ IsFiniteSet(Below(d)) /\ Cardinality(Below(d)) \in Nat
    <2> TAKE d \in Nat
    <2>1. UpTo(d) \in SUBSET items /\ Below(d) \in SUBSET items
      OBVIOUS
    <2>2. IsFiniteSet(UpTo(d)) /\ IsFiniteSet(Below(d))
      BY <2>1, FS_Subset
    <2> QED BY <2>2, FS_CardinalityType
  <1>4. Enough # {}
    <2>1. Cardinality(items) \in Nat
      BY FS_CardinalityType
    <2>2. items # {}
      BY <2>1, FS_EmptySet
    <2>3. D # {}
      BY <2>2 DEF Durations
    <2>4. Max(D) \in D /\ \A x \in D : x <= Max(D)
      BY <1>1, <1>2, <2>3, Highest
    <2>5. UpTo(Max(D)) = items
      BY <1>1, <2>4
    <2> QED BY <2>4, <2>5
  <1>5. PICK d \in Enough : \A e \in Enough : d <= e
    <2>1. IsWellFoundedOn(OpToRel(<, Nat), Nat)
      BY NatLessThanWellFounded
    <2>2. Enough \subseteq Nat
      BY <1>1
    <2> HIDE DEF Enough
    <2>3. PICK d \in Enough : \A e \in Enough : ~(<<e, d>> \in OpToRel(<, Nat))
      BY <1>4, <2>1, <2>2, WFMin
    <2>4. \A e \in Enough : ~(e < d)
      BY <2>2, <2>3 DEF OpToRel
    <2>5. \A e \in Enough : d <= e
      <3>1. ASSUME NEW e \in Enough
            PROVE  d <= e
        <4>1. e \in Nat /\ d \in Nat /\ ~(e < d)
          BY <2>2, <2>3, <2>4
        <4> QED BY <4>1
      <3> QED BY <3>1
    <2> QED BY <2>5
  <1>6. d \in D /\ d \in Nat /\ Cardinality(UpTo(d)) > index
    BY <1>1
  <1>7. Cardinality(Below(d)) <= index
    <2>0. IsFiniteSet(Below(d)) /\ Cardinality(Below(d)) \in Nat
      BY <1>3, <1>6
    <2>1. SUFFICES ASSUME Cardinality(Below(d)) > index
                   PROVE  FALSE
      BY <2>0
    <2> DEFINE L == Durations(t, Below(d))
    <2>2. Below(d) # {}
      BY <1>3, <1>6, <2>1, FS_EmptySet
    <2>3. L \in SUBSET Nat /\ L # {} /\ L \subseteq D /\ \A x \in L : x < d
      BY <1>6, <2>2 DEF Durations
    <2>4. IsFiniteSet(L)
      BY <1>2, <2>3, FS_Subset
    <2> HIDE DEF D, L
    <2>5. Max(L) \in L /\ \A x \in L : x <= Max(L)
      BY <2>3, <2>4, Highest
    <2>6. \A i \in items : t[i].duration < d <=> t[i].duration <= Max(L)
      <3>1. ASSUME NEW i \in items, t[i].duration < d
            PROVE  t[i].duration <= Max(L)
        BY <2>5, <3>1 DEF L, Durations
      <3>2. ASSUME NEW i \in items, t[i].duration <= Max(L)
            PROVE  t[i].duration < d
        <4>1. Max(L) \in Nat /\ Max(L) < d /\ d \in Nat /\ t[i].duration \in Nat
          BY <1>6, <2>3, <2>5
        <4> QED BY <3>2, <4>1
      <3> QED BY <3>1, <3>2
    <2>7. Below(d) = UpTo(Max(L))
      BY <2>6
    <2>8. Max(L) \in Enough
      BY <2>1, <2>3, <2>5, <2>7
    <2>9. Max(L) < d /\ d <= Max(L) /\ Max(L) \in Nat
      BY <1>5, <2>3, <2>5, <2>8
    <2> QED BY <1>6, <2>9
  <1> DEFINE At(e) == Cardinality(Below(e)) <= index /\ Cardinality(UpTo(e)) > index
  <1>8. \E e \in D : At(e)
    BY <1>6, <1>7
  <1>9. Ranked(t, items, index) = CHOOSE e \in D : At(e)
    BY DEF Ranked, Durations
  <1> HIDE DEF At, D
  <1>10. (CHOOSE e \in D : At(e)) \in D
    BY <1>8
  <1> QED BY <1>9, <1>10 DEF D

Window == Seq([path: STRING, duration: Nat, failed: BOOLEAN])

LEMMA WindowIs ==
  ASSUME NEW t \in Window
  PROVE  /\ IsFiniteSet(DOMAIN t)
         /\ \A i \in DOMAIN t : t[i].duration \in Nat
         /\ t # <<>> => DOMAIN t # {}
PROOF
  <1>1. Len(t) \in Nat /\ DOMAIN t = 1..Len(t)
    BY DEF Window
  <1>2. IsFiniteSet(1..Len(t))
    BY <1>1, FS_Interval
  <1>3. \A i \in DOMAIN t : t[i] \in [path: STRING, duration: Nat, failed: BOOLEAN]
    <2> DEFINE R == [path: STRING, duration: Nat, failed: BOOLEAN]
    <2>1. t \in Seq(R)
      BY DEF Window
    <2> HIDE DEF R
    <2>2. \A i \in 1..Len(t) : t[i] \in R
      BY <2>1, ElementOfSeq
    <2> QED BY <1>1, <2>2 DEF R
  <1>4. t # <<>> => 1 \in DOMAIN t
    BY <1>1 DEF Window
  <1> QED BY <1>1, <1>2, <1>3, <1>4

\* An endpoint that somebody has called has a p95.
LEMMA PercentileIs ==
  ASSUME NEW t \in Window, NEW i \in DOMAIN t
  PROVE  Aggregate(t, t[i].path).p95 \in Nat
PROOF
  <1> DEFINE items == Items(t, t[i].path)
             n == Cardinality(items)
             index == Greatest(0, (95 * n + 99) \div 100 - 1)
  <1>1. items \in SUBSET DOMAIN t /\ i \in items
    BY DEF Items
  <1>2. IsFiniteSet(items) /\ n \in Nat /\ n # 0
    <2>1. IsFiniteSet(items)
      BY <1>1, WindowIs, FS_Subset
    <2> QED BY <1>1, <2>1, FS_CardinalityType, FS_EmptySet
  <1>3. \A j \in items : t[j].duration \in Nat
    BY <1>1, WindowIs
  <1>4. Aggregate(t, t[i].path).p95 = Ranked(t, items, index)
    BY DEF Aggregate, Percentile
  <1> HIDE DEF items, n
  <1>5. index \in Nat /\ index < n
    BY <1>2 DEF Greatest
  <1> HIDE DEF index
  <1>6. Ranked(t, items, index) \in Durations(t, items)
    BY <1>2, <1>3, <1>5, RankedIs DEF n
  <1> QED BY <1>3, <1>4, <1>6 DEF Durations

LEMMA SlowestIs ==
  ASSUME NEW t \in Traffics, t \in Window, t # <<>>
  PROVE  Learned[t].p95 \in Nat /\ Learned[t].severe \in Int
PROOF
  <1> DEFINE f == [i \in DOMAIN t |-> Aggregate(t, t[i].path).p95]
             P == {f[i] : i \in DOMAIN t}
  <1>1. IsFiniteSet(DOMAIN t) /\ DOMAIN t # {}
    BY WindowIs
  <1>2. IsFiniteSet(P)
    BY <1>1, FiniteImage
  <1>3. P \in SUBSET Nat /\ P # {}
    BY <1>1, PercentileIs
  <1>4. {a.p95 : a \in Aggregates(t)} = P
    BY DEF Aggregates
  <1> HIDE DEF P
  <1>5. Max(P) \in Nat
    BY <1>2, <1>3, Highest
  <1>6. Learned[t].p95 = Max(P) /\ Learned[t].severe = SevereAnomalies(t)
    BY <1>4 DEF Learned
  <1>7. SevereAnomalies(t) \in Int
    <2> DEFINE S == {i \in DOMAIN t : Severe(t, i)}
               E == {i \in DOMAIN t : ErrorAnomaly(t, i)}
    <2>1. S \in SUBSET DOMAIN t /\ E \in SUBSET DOMAIN t
      OBVIOUS
    <2>2. IsFiniteSet(S) /\ IsFiniteSet(E)
      BY <1>1, <2>1, FS_Subset
    <2>3. Cardinality(S) \in Nat /\ Cardinality(E) \in Nat
      BY <2>2, FS_CardinalityType
    <2>4. SevereAnomalies(t) = Cardinality(S) + Cardinality(E)
      BY DEF SevereAnomalies
    <2> HIDE DEF S, E
    <2> QED BY <2>3, <2>4
  <1> QED BY <1>5, <1>6, <1>7

-----------------------------------------------------------------------------
(* computeNext() stays within the limits *)

LEMMA Part ==
  ASSUME NEW d \in Int, NEW k \in 1..10
  PROVE  /\ (d * k) \div 10 \in Int
         /\ d >= 0 => 0 <= (d * k) \div 10 /\ (d * k) \div 10 <= d
         /\ d <= 0 => d <= (d * k) \div 10 /\ (d * k) \div 10 <= 0
PROOF
  <1>1. CASE k = 1
    BY <1>1
  <1>2. CASE k = 2
    BY <1>2
  <1>3. CASE k = 3
    BY <1>3
  <1>4. CASE k = 4
    BY <1>4
  <1>5. CASE k = 5
    BY <1>5
  <1>6. CASE k = 6
    BY <1>6
  <1>7. CASE k = 7
    BY <1>7
  <1>8. CASE k = 8
    BY <1>8
  <1>9. CASE k = 9
    BY <1>9
  <1>10. CASE k = 10
    BY <1>10
  <1>11. k \in {1, 2, 3, 4, 5, 6, 7, 8, 9, 10}
    OBVIOUS
  <1> QED BY <1>1, <1>2, <1>3, <1>4, <1>5, <1>6, <1>7, <1>8, <1>9, <1>10, <1>11

\* Smoothing moves the time-out towards its target, and not past it.
LEMMA TimeoutStays ==
  ASSUME NEW t, Learned[t].p95 \in Nat, NEW timeout \in MinTimeout..MaxTimeout
  PROVE  NextTimeout(t, timeout) \in MinTimeout..MaxTimeout
PROOF
  <1> DEFINE target == Target(t)
             d == target - timeout
  <1>1. MinTimeout \in Nat /\ MaxTimeout \in Nat /\ Smoothing \in 1..10
    BY TunerAssumption
  <1>2. target \in MinTimeout..MaxTimeout
    BY <1>1 DEF Target, Least, Greatest
  <1> HIDE DEF target
  <1>3. d \in Int
    BY <1>1, <1>2
  <1>4. /\ (d * Smoothing) \div 10 \in Int
        /\ d >= 0 => 0 <= (d * Smoothing) \div 10 /\ (d * Smoothing) \div 10 <= d
        /\ d <= 0 => d <= (d * Smoothing) \div 10 /\ (d * Smoothing) \div 10 <= 0
    BY <1>1, <1>3, Part
  <1> DEFINE part == (d * Smoothing) \div 10
  <1>5. Smoothed(timeout, target) = timeout + part
    BY DEF Smoothed
  <1> HIDE DEF part
  <1>6. /\ part \in Int
        /\ d >= 0 => 0 <= part /\ part <= d
        /\ d <= 0 => d <= part /\ part <= 0
    BY <1>4 DEF part
  <1>7. timeout + part \in MinTimeout..MaxTimeout
    BY <1>1, <1>2, <1>6
  <1> QED BY <1>5, <1>7 DEF NextTimeout, target

LEMMA RetriesStay ==
  ASSUME NEW t, NEW retries \in 1..5
  PROVE  NextRetries(t, retries) \in 1..5
PROOF
  BY DEF NextRetries, Least, Greatest

LEMMA ThresholdStays ==
  ASSUME NEW t, Learned[t].severe \in Int, NEW threshold \in 10..80
  PROVE  NextThreshold(t, threshold) \in 10..80
PROOF
  BY DEF NextThreshold, Least, Greatest

LEMMA NextWithinLimits ==
  ASSUME NEW t \in Traffics, t # <<>>, NEW c \in Limits
  PROVE  ComputeNext(t, c) \in Limits
PROOF
  <1>1. t \in Window
    BY TunerAssumption DEF Window
  <1>2. Learned[t].p95 \in Nat /\ Learned[t].severe \in Int
    BY <1>1, SlowestIs
  <1>3. c.threshold \in 10..80 /\ c.timeout \in MinTimeout..MaxTimeout /\ c.retries \in 1..5
    BY DEF Limits
  <1>4. /\ NextThreshold(t, c.threshold) \in 10..80
        /\ NextTimeout(t, c.timeout) \in MinTimeout..MaxTimeout
        /\ NextRetries(t, c.retries) \in 1..5
    BY <1>2, <1>3, TimeoutStays, RetriesStay, ThresholdStays
  <1> QED BY <1>4 DEF ComputeNext, Limits

-----------------------------------------------------------------------------
(* The configuration, its copies and its listeners *)

Kept == Limits \cup {Nothing}

\* ChangesReachEverybody, and that what is stored may be loaded.
TunerInv ==
  /\ traffic \in Traffics /\ current \in Limits
  /\ durable \in Kept /\ heard \in Kept
  /\ ChangesReachEverybody

LEMMA NothingIsNoConfig == Nothing \notin Limits
PROOF
  <1>1. \A c \in Limits : c # Nothing
    <2> TAKE c \in Limits
    <2>1. DOMAIN c = {"threshold", "timeout", "retries"}
      BY DEF Limits
    <2>2. DOMAIN Nothing = {"none"}
      BY DEF Nothing
    <2> QED BY <2>1, <2>2
  <1> QED BY <1>1

LEMMA SavedFacts ==
  ASSUME TunerInv, NEW c \in Limits, current' = c, Saved(c), UNCHANGED storage
  PROVE  durable' \in Kept /\ heard' \in Kept /\ ChangesReachEverybody'
PROOF
  BY DEF TunerInv, Saved, Kept, ChangesReachEverybody, ConfigBounded

LEMMA TunerSteps == TunerInv /\ [TunerNext]_tunerVars => TunerInv'
PROOF
  <1> SUFFICES ASSUME TunerInv, [TunerNext]_tunerVars
               PROVE  TunerInv'
    OBVIOUS
  <1>1. CASE Cycle
    <2>1. traffic # <<>>
      BY <1>1, TunerAssumption DEF Cycle
    <2>2. ComputeNext(traffic, current) \in Limits
      BY <2>1, NextWithinLimits DEF TunerInv
    <2> QED BY <1>1, <2>2, SavedFacts DEF Cycle, Tune, TunerInv
  <1>2. CASE CooldownEnds \/ Start \/ Stop
    BY <1>2 DEF CooldownEnds, Start, Stop, TunerInv, ChangesReachEverybody, ConfigBounded
  <1>3. CASE Reset
    <2>1. Default \in Limits
      BY TunerAssumption
    <2> QED BY <1>3, <2>1, SavedFacts DEF Reset, TunerInv
  <1>4. CASE Restart
    <2>1. Default \in Limits
      BY TunerAssumption
    <2>2. current' \in Limits
      BY <1>4, <2>1 DEF Restart, Load, TunerInv, Kept
    <2>3. heard' = Nothing /\ fresh' = TRUE /\ current' # heard'
      BY <1>4, <2>2, NothingIsNoConfig DEF Restart
    <2> QED BY <1>4, <2>2, <2>3 DEF Restart, TunerInv, Kept, ChangesReachEverybody, ConfigBounded
  <1>5. CASE Shift
    BY <1>5 DEF Shift, TunerInv, ChangesReachEverybody, ConfigBounded
  <1>6. CASE UNCHANGED tunerVars
    BY <1>6 DEF tunerVars, TunerInv, ChangesReachEverybody, ConfigBounded
  <1> QED BY <1>1, <1>2, <1>3, <1>4, <1>5, <1>6 DEF TunerNext

\* The inductive invariant: the configuration, and every copy of it that is stored or was
\* announced, is within the limits, and they agree (config-tuner.ts:42-157,
\* file-storage.ts:19-27, redis.ts:70-109).
THEOREM TunerInvariance == TunerSpec => []TunerInv
PROOF
  <1>1. TunerInit => TunerInv
    <2> SUFFICES ASSUME TunerInit
                 PROVE  TunerInv
      OBVIOUS
    <2>1. Default \in Limits
      BY TunerAssumption
    <2>2. Default # Nothing
      BY <2>1, NothingIsNoConfig
    <2> QED BY <2>1, <2>2 DEF TunerInit, TunerInv, Kept, ChangesReachEverybody, ConfigBounded
  <1> QED BY <1>1, TunerSteps, PTL DEF TunerSpec

\* Whatever the traffic was, and whichever saves and loads failed: the configuration is within
\* its limits, the listeners were called with it, and the next process would find it.
THEOREM ChangesAlwaysReach == TunerSpec => []ChangesReachEverybody
PROOF
  <1>1. TunerInv => ChangesReachEverybody
    BY DEF TunerInv
  <1> QED BY <1>1, TunerInvariance, PTL
===================================================================================

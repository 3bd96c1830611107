----------------------------- MODULE KeyedRecordsProofs -----------------------------
(***************************************************************************)
(* What holds of the two packages that keep a record under a key, in the   *)
(* memory of a process or in Redis.  Of a RateLimiter: the limits and what *)
(* a refused caller is told, for any limits, windows, weights and callers. *)
(* Of Idempotency, at the end: whose claim a record is and what is         *)
(* replayed, for any number of requests and any time to live.              *)
(***************************************************************************)
EXTENDS RateLimiter, Idempotency, FilterProofs

-----------------------------------------------------------------------------
(* Numbers *)

LEMMA Times ==
  ASSUME NEW a \in Int, NEW b \in Int, NEW c \in Int
  PROVE  /\ a * c \in Int /\ (a + b) * c = a * c + b * c /\ (a - b) * c = a * c - b * c
         /\ 1 * c = c /\ 0 * c = 0
PROOF
  OBVIOUS

LEMMA TimesGrows ==
  ASSUME NEW a \in Int, NEW b \in Int, a <= b, NEW c \in Nat
  PROVE  a * c <= b * c
PROOF
  <1>1. (b - a) * c = b * c - a * c
    BY Times
  <1>2. b - a \in Nat
    OBVIOUS
  <1>3. (b - a) * c >= 0
    BY <1>2
  <1>4. a * c \in Int /\ b * c \in Int
    BY Times
  <1> QED BY <1>1, <1>3, <1>4

LEMMA Quotient ==
  ASSUME NEW x \in Int, NEW d \in Nat \ {0}
  PROVE  x \div d \in Int /\ (x \div d) * d <= x /\ x < (x \div d) * d + d
PROOF
  OBVIOUS

LEMMA QuotientIs ==
  ASSUME NEW x \in Int, NEW d \in Nat \ {0}, NEW q \in Int
  PROVE  /\ q * d <= x => q <= x \div d
         /\ q * d <= x /\ x < q * d + d => q = x \div d
PROOF
  <1> DEFINE p == x \div d
  <1>1. p \in Int /\ p * d <= x /\ x < p * d + d /\ d \in Nat /\ d # 0
    BY Quotient
  <1> HIDE DEF p
  <1>2. ASSUME NEW a \in Int, NEW b \in Int, a * d <= x, x < b * d + d
        PROVE  a <= b
    <2>1. SUFFICES ASSUME b + 1 <= a
                   PROVE  FALSE
      OBVIOUS
    <2>2. (b + 1) * d <= a * d
      BY <1>1, <2>1, TimesGrows
    <2>3. (b + 1) * d = b * d + d /\ b * d \in Int /\ a * d \in Int
      BY <1>1, Times
    <2> QED BY <1>1, <1>2, <2>2, <2>3
  <1>3. q * d <= x => q <= p
    BY <1>1, <1>2
  <1>4. x < q * d + d => p <= q
    BY <1>1, <1>2
  <1> QED BY <1>1, <1>3, <1>4 DEF p

LEMMA WindowFacts ==
  ASSUME NEW t \in Nat
  PROVE  /\ WindowStart(t) \in Nat /\ WindowStart(t) <= t /\ t < WindowStart(t) + Window
         /\ \A u \in Nat : WindowStart(t) <= u /\ u < WindowStart(t) + Window
                             => WindowStart(u) = WindowStart(t)
PROOF
  <1> DEFINE q == t \div Window
  <1>1. Window \in Nat \ {0}
    BY ConstantAssumption
  <1>2. q \in Int /\ q * Window <= t /\ t < q * Window + Window
    BY <1>1, Quotient
  <1>3. 0 <= q
    <2>1. 0 * Window = 0
      BY <1>1, Times
    <2>2. 0 * Window <= t => 0 <= q
      BY <1>1, QuotientIs
    <2> QED BY <2>1, <2>2
  <1>4. WindowStart(t) = q * Window
    BY DEF WindowStart
  <1>5. ASSUME NEW u \in Nat, q * Window <= u, u < q * Window + Window
        PROVE  WindowStart(u) = q * Window
    <2>1. q = u \div Window
      BY <1>1, <1>2, <1>5, QuotientIs
    <2> QED BY <2>1 DEF WindowStart
  <1>6. q * Window \in Nat
    BY <1>1, <1>2, <1>3
  <1> HIDE DEF q
  <1> QED BY <1>2, <1>4, <1>5, <1>6

-----------------------------------------------------------------------------
(* What the algorithms answer *)

Ordered(log) == \A i, j \in 1..Len(log) : i <= j => log[i] <= log[j]

Full == Limit * TokenTicks

\* The states that algorithm a can be in at time t.
States(a, t) ==
  CASE a = "fixed-window" -> [start : Nat, count : Nat]
    [] a = "sliding-window-log" -> {log \in Seq(0..t) : Ordered(log)}
    [] a = "sliding-window-counter" -> [start : Nat, count : Nat, prev : Nat]
    [] a = "token-bucket" -> [parts : 0..Full, at : 0..t]

LEMMA Sizes ==
  /\ Limit \in Nat /\ Limit > 0 /\ Window \in Nat /\ Window > 0
  /\ TokenTicks \in Nat /\ TokenTicks > 0 /\ InitialTokens \in Nat
  /\ \A w \in Weights : w \in Nat /\ 1 <= w /\ w <= Limit
  /\ Full \in Nat
PROOF
  <1>1. /\ Limit \in Nat \ {0} /\ Window \in Nat \ {0} /\ TokenTicks \in Nat \ {0}
        /\ InitialTokens \in Nat /\ Weights \subseteq 1..Limit
    BY ConstantAssumption
  <1>2. Full \in Nat
    BY <1>1 DEF Full
  <1> QED BY <1>1, <1>2

LEMMA StatesAre ==
  ASSUME NEW t
  PROVE  /\ States("fixed-window", t) = [start : Nat, count : Nat]
         /\ States("sliding-window-log", t) = {log \in Seq(0..t) : Ordered(log)}
         /\ States("sliding-window-counter", t) = [start : Nat, count : Nat, prev : Nat]
         /\ States("token-bucket", t) = [parts : 0..Full, at : 0..t]
PROOF
  BY DEF States

LEMMA VerdictIs ==
  ASSUME NEW allowed, NEW resetAt, NEW state
  PROVE  /\ Verdict(allowed, resetAt, state).allowed = allowed
         /\ Verdict(allowed, resetAt, state).resetAt = resetAt
         /\ Verdict(allowed, resetAt, state).state = state
PROOF
  BY DEF Verdict

LEMMA StatesGrow ==
  ASSUME NEW a \in Algorithms, NEW t \in Nat, NEW u \in Nat, t <= u
  PROVE  States(a, t) \subseteq States(a, u)
PROOF
  <1>1. 0..t \subseteq 0..u
    OBVIOUS
  <1>2. Seq(0..t) \subseteq Seq(0..u)
    <2>1. SUFFICES ASSUME NEW log \in Seq(0..t)
                   PROVE  log \in Seq(0..u)
      OBVIOUS
    <2>2. /\ Len(log) \in Nat /\ log = [i \in 1..Len(log) |-> log[i]]
          /\ \A i \in 1..Len(log) : log[i] \in 0..u
      BY <1>1
    <2> QED BY <2>2, IsASeq
  <1>3. CASE a = "fixed-window"
    BY <1>3, StatesAre
  <1>4. CASE a = "sliding-window-log"
    BY <1>2, <1>4, StatesAre
  <1>5. CASE a = "sliding-window-counter"
    BY <1>5, StatesAre
  <1>6. CASE a = "token-bucket"
    <2>1. SUFFICES ASSUME NEW st \in [parts : 0..Full, at : 0..t]
                   PROVE  st \in [parts : 0..Full, at : 0..u]
      BY <1>6, StatesAre
    <2>2. st.parts \in 0..Full /\ st.at \in 0..u /\ st = [parts |-> st.parts, at |-> st.at]
      BY <1>1
    <2> QED BY <2>2, Zenon
  <1> QED BY <1>3, <1>4, <1>5, <1>6 DEF Algorithms

LEMMA InitialStateType ==
  ASSUME NEW a \in Algorithms, NEW t \in Nat
  PROVE  InitialState(a, t) \in States(a, t) /\ LuaInitialState(a, t) \in States(a, t)
PROOF
  <1>1. CASE a = "fixed-window"
    <2>1. InitialState(a, t) = [start |-> 0, count |-> 0] /\ LuaInitialState(a, t) = InitialState(a, t)
      BY <1>1 DEF InitialState, LuaInitialState
    <2> QED BY <1>1, <2>1, StatesAre
  <1>2. CASE a = "sliding-window-log"
    <2>1. InitialState(a, t) = <<>> /\ LuaInitialState(a, t) = InitialState(a, t)
      BY <1>2 DEF InitialState, LuaInitialState
    <2>2. <<>> \in Seq(0..t) /\ Ordered(<<>>)
      BY DEF Ordered
    <2>3. <<>> \in {log \in Seq(0..t) : Ordered(log)}
      BY <2>2
    <2> QED BY <1>2, <2>1, <2>3, StatesAre, Zenon
  <1>3. CASE a = "sliding-window-counter"
    <2>1. /\ InitialState(a, t) = [start |-> WindowStart(t), count |-> 0, prev |-> 0]
          /\ LuaInitialState(a, t) = InitialState(a, t)
      BY <1>3 DEF InitialState, LuaInitialState
    <2>2. WindowStart(t) \in Nat
      BY WindowFacts
    <2> QED BY <1>3, <2>1, <2>2, StatesAre
  <1>4. CASE a = "token-bucket"
    <2>1. /\ InitialState(a, t) = [parts |-> Least(InitialTokens, Limit) * TokenTicks, at |-> t]
          /\ LuaInitialState(a, t) = [parts |-> Full, at |-> t]
      BY <1>4 DEF InitialState, LuaInitialState, Full
    <2>2. Least(InitialTokens, Limit) \in Nat /\ Least(InitialTokens, Limit) <= Limit
      BY Sizes DEF Least
    <2>3. Least(InitialTokens, Limit) * TokenTicks \in Nat /\ Least(InitialTokens, Limit) * TokenTicks <= Full
      BY <2>2, Sizes, TimesGrows DEF Full
    <2>4. Full \in 0..Full /\ t \in 0..t /\ Least(InitialTokens, Limit) * TokenTicks \in 0..Full
      BY <2>3, Sizes
    <2> QED BY <1>4, <2>1, <2>4, StatesAre, Zenon
  <1> QED BY <1>1, <1>2, <1>3, <1>4 DEF Algorithms
LEMMA FixedWindowFacts ==
  ASSUME NEW t \in Nat, NEW w \in Weights, NEW st \in States("fixed-window", t)
  PROVE  LET v == FixedWindow(st, w, t)
         IN  /\ v.state \in States("fixed-window", t)
             /\ v.resetAt = WindowStart(t) + Window
             /\ v.state.start = WindowStart(t)
             /\ v.state.count = IF WindowStart(t) = st.start THEN st.count + w ELSE w
             /\ v.allowed \in BOOLEAN
             /\ v.allowed <=> v.state.count <= Limit
PROOF
  <1>1. st \in [start : Nat, count : Nat]
    BY StatesAre
  <1>2. WindowStart(t) \in Nat /\ w \in Nat
    BY WindowFacts, Sizes
  <1> DEFINE count == IF WindowStart(t) # st.start THEN w ELSE st.count + w
             next == [start |-> WindowStart(t), count |-> count]
  <1>3. /\ FixedWindow(st, w, t).allowed = (count <= Limit)
        /\ FixedWindow(st, w, t).resetAt = WindowStart(t) + Window
        /\ FixedWindow(st, w, t).state = next
    BY VerdictIs DEF FixedWindow
  <1>4. count \in Nat /\ count = IF WindowStart(t) = st.start THEN st.count + w ELSE w
    BY <1>1, <1>2
  <1>6. (count <= Limit) \in BOOLEAN
    OBVIOUS
  <1> HIDE DEF count
  <1>5. next \in [start : Nat, count : Nat] /\ next.start = WindowStart(t) /\ next.count = count
    BY <1>2, <1>4
  <1> HIDE DEF next
  <1> QED BY <1>3, <1>4, <1>5, <1>6, StatesAre

LEMMA LuaFixedWindowFacts ==
  ASSUME NEW t \in Nat, NEW w \in Weights, NEW st \in States("fixed-window", t)
  PROVE  LET v == LuaFixedWindow(st, w, t)
             count == IF WindowStart(t) = st.start THEN st.count ELSE 0
         IN  /\ v.state \in States("fixed-window", t)
             /\ v.resetAt = WindowStart(t) + Window
             /\ v.state.start = WindowStart(t)
             /\ v.state.count = IF v.allowed THEN count + w ELSE count
             /\ v.allowed \in BOOLEAN
             /\ v.allowed <=> count < Limit
PROOF
  <1>1. st \in [start : Nat, count : Nat]
    BY StatesAre
  <1>2. WindowStart(t) \in Nat /\ w \in Nat
    BY WindowFacts, Sizes
  <1> DEFINE c == IF WindowStart(t) # st.start THEN 0 ELSE st.count
             room == c < Limit
             next == [start |-> WindowStart(t), count |-> IF room THEN c + w ELSE c]
  <1>3. /\ LuaFixedWindow(st, w, t).allowed = room
        /\ LuaFixedWindow(st, w, t).resetAt = WindowStart(t) + Window
        /\ LuaFixedWindow(st, w, t).state = next
    BY VerdictIs DEF LuaFixedWindow
  <1>4. c \in Nat /\ c = IF WindowStart(t) = st.start THEN st.count ELSE 0
    BY <1>1, <1>2
  <1>6. room \in BOOLEAN /\ (room <=> c < Limit)
    OBVIOUS
  <1> HIDE DEF c, room
  <1>5. /\ next \in [start : Nat, count : Nat] /\ next.start = WindowStart(t)
        /\ next.count = IF room THEN c + w ELSE c
    BY <1>2, <1>4
  <1> HIDE DEF next
  <1> QED BY <1>3, <1>4, <1>5, <1>6, StatesAre

\* The part of the estimate that is the count, and the part that is not.
LEMMA EstimateFacts ==
  ASSUME NEW t \in Nat, NEW count \in Nat, NEW prev \in Nat
  PROVE  /\ Estimate(count, prev, t) \in Int
         /\ Estimate(count, prev, t) >= count * Window
PROOF
  <1> DEFINE left == Window - (t - WindowStart(t))
  <1>1. Window \in Nat /\ left \in Nat
    BY Sizes, WindowFacts
  <1>2. Estimate(count, prev, t) = count * Window + prev * left
    BY DEF Estimate
  <1> HIDE DEF left
  <1>3. count * Window \in Nat /\ prev * left \in Nat
    BY <1>1
  <1> QED BY <1>2, <1>3

LEMMA LessThanTimes ==
  ASSUME NEW a \in Int, NEW b \in Int, NEW c \in Nat \ {0}
  PROVE  /\ a * c <= b * c => a <= b
         /\ a * c < b * c => a < b
PROOF
  <1>1. ASSUME b + 1 <= a PROVE b * c < a * c
    <2>1. (b + 1) * c <= a * c
      BY <1>1, TimesGrows
    <2>2. (b + 1) * c = b * c + c /\ b * c \in Int /\ a * c \in Int
      BY Times
    <2> QED BY <2>1, <2>2
  <1>2. ASSUME b <= a PROVE b * c <= a * c
    BY <1>2, TimesGrows
  <1>3. a * c \in Int /\ b * c \in Int
    BY Times
  <1> QED BY <1>1, <1>2, <1>3

LEMMA SlidingCounterFacts ==
  ASSUME NEW t \in Nat, NEW w \in Weights, NEW st \in States("sliding-window-counter", t)
  PROVE  LET v == SlidingCounter(st, w, t)
             count == IF WindowStart(t) > st.start THEN 0 ELSE st.count
         IN  /\ v.state \in States("sliding-window-counter", t)
             /\ v.resetAt \in Int
             /\ v.allowed \/ count > 0 => v.resetAt = WindowStart(t) + Window
             /\ v.state.start = WindowStart(t)
             /\ v.state.count = IF v.allowed THEN count + w ELSE count
             /\ v.allowed \in BOOLEAN
             /\ v.allowed => count + w <= Limit
PROOF
  <1>0. st \in [start : Nat, count : Nat, prev : Nat]
    BY StatesAre
  <1>1. st.start \in Nat /\ st.count \in Nat /\ st.prev \in Nat
    BY <1>0
  <1>2. WindowStart(t) \in Nat /\ w \in Nat /\ Window \in Nat \ {0} /\ Limit \in Nat /\ w <= Limit
    BY WindowFacts, Sizes
  <1> DEFINE start == WindowStart(t)
             moved == start > st.start
             prev  == IF moved THEN st.count ELSE st.prev
             c     == IF moved THEN 0 ELSE st.count
             room  == Estimate(c, prev, t) + w * Window <= Limit * Window
             part  == (Window * (Limit - w)) \div (IF prev = 0 THEN 1 ELSE prev)
             early == start + Window - part
             at    == IF room \/ c > 0 THEN start + Window ELSE early
             next  == [start |-> start, count |-> IF room THEN c + w ELSE c, prev |-> prev]
  <1>3. /\ SlidingCounter(st, w, t).allowed = room
        /\ SlidingCounter(st, w, t).resetAt = at
        /\ SlidingCounter(st, w, t).state = next
    BY VerdictIs DEF SlidingCounter
  <1>4. c \in Nat /\ prev \in Nat /\ c = IF WindowStart(t) > st.start THEN 0 ELSE st.count
    BY <1>1
  <1> HIDE DEF c, prev
  <1>5. room \in BOOLEAN
    OBVIOUS
  <1>6. room => c + w <= Limit
    <2>1. Estimate(c, prev, t) \in Int /\ Estimate(c, prev, t) >= c * Window
      BY <1>4, EstimateFacts
    <2>2. c * Window \in Int /\ w * Window \in Int /\ Limit * Window \in Int
          /\ (c + w) * Window = c * Window + w * Window
      BY <1>2, <1>4, Times
    <2>3. room => (c + w) * Window <= Limit * Window
      BY <2>1, <2>2
    <2> HIDE DEF room
    <2> QED BY <1>2, <1>4, <2>3, LessThanTimes
  <1>7. early \in Int
    <2>1. (IF prev = 0 THEN 1 ELSE prev) \in Nat \ {0}
      BY <1>4
    <2>2. Window * (Limit - w) \in Int
      BY <1>2
    <2>3. part \in Int
      BY <2>1, <2>2, Quotient, Zenon
    <2>4. start \in Nat /\ Window \in Nat
      BY <1>2
    <2> HIDE DEF part, start
    <2> QED BY <2>3, <2>4
  <1> HIDE DEF early, room
  <1>8. at \in Int /\ (room \/ c > 0 => at = start + Window)
    BY <1>2, <1>7
  <1>9. /\ next \in [start : Nat, count : Nat, prev : Nat] /\ next.start = WindowStart(t)
        /\ next.count = IF room THEN c + w ELSE c
    BY <1>2, <1>4
  <1> HIDE DEF next, at
  <1> QED BY <1>3, <1>4, <1>5, <1>6, <1>8, <1>9, StatesAre

LEMMA LuaSlidingCounterFacts ==
  ASSUME NEW t \in Nat, NEW w \in Weights, NEW st \in States("sliding-window-counter", t)
  PROVE  LET v == LuaSlidingCounter(st, w, t)
             count == IF WindowStart(t) = st.start THEN st.count ELSE 0
         IN  /\ v.state \in States("sliding-window-counter", t)
             /\ v.resetAt = WindowStart(t) + Window
             /\ v.state.start = WindowStart(t)
             /\ v.state.count = IF v.allowed THEN count + w ELSE count
             /\ v.allowed \in BOOLEAN
             /\ v.allowed => count < Limit
PROOF
  <1>0. st \in [start : Nat, count : Nat, prev : Nat]
    BY StatesAre
  <1>1. st.start \in Nat /\ st.count \in Nat /\ st.prev \in Nat
    BY <1>0
  <1>2. WindowStart(t) \in Nat /\ w \in Nat /\ Window \in Nat \ {0} /\ Limit \in Nat
    BY WindowFacts, Sizes
  <1> DEFINE start == WindowStart(t)
             moved == start # st.start
             prev  == CASE ~moved -> st.prev
                        [] moved /\ st.start = start - Window -> st.count
                        [] moved /\ st.start # start - Window -> 0
             c     == IF moved THEN 0 ELSE st.count
             room  == Estimate(c, prev, t) < Limit * Window
             next  == [start |-> start, count |-> IF room THEN c + w ELSE c, prev |-> prev]
  <1>3. /\ LuaSlidingCounter(st, w, t).allowed = room
        /\ LuaSlidingCounter(st, w, t).resetAt = start + Window
        /\ LuaSlidingCounter(st, w, t).state = next
    BY VerdictIs DEF LuaSlidingCounter
  <1>4. c \in Nat /\ prev \in Nat /\ c = IF WindowStart(t) = st.start THEN st.count ELSE 0
    BY <1>1
  <1> HIDE DEF c, prev
  <1>5. room \in BOOLEAN
    OBVIOUS
  <1>6. room => c < Limit
    <2>1. Estimate(c, prev, t) \in Int /\ Estimate(c, prev, t) >= c * Window
      BY <1>4, EstimateFacts
    <2>2. c * Window \in Int /\ Limit * Window \in Int
      BY <1>2, <1>4, Times
    <2>3. room => c * Window < Limit * Window
      BY <2>1, <2>2
    <2> HIDE DEF room
    <2> QED BY <1>2, <1>4, <2>3, LessThanTimes
  <1> HIDE DEF room
  <1>9. /\ next \in [start : Nat, count : Nat, prev : Nat] /\ next.start = WindowStart(t)
        /\ next.count = IF room THEN c + w ELSE c
    BY <1>2, <1>4
  <1> HIDE DEF next
  <1> QED BY <1>3, <1>4, <1>5, <1>6, <1>9, StatesAre
LEMMA RefilledFacts ==
  ASSUME NEW t \in Nat, NEW st \in States("token-bucket", t)
  PROVE  /\ st.parts \in Nat /\ st.parts <= Full /\ st.at \in Nat /\ st.at <= t
         /\ Refilled(st, t) = Least(st.parts + (t - st.at), Full)
         /\ Refilled(st, t) \in Nat /\ Refilled(st, t) <= Full
PROOF
  <1>1. st \in [parts : 0..Full, at : 0..t]
    BY StatesAre
  <1>2. st.parts \in 0..Full /\ st.at \in 0..t
    BY <1>1
  <1>3. Full \in Nat
    BY Sizes
  <1>4. Refilled(st, t) = Least(st.parts + (t - st.at), Full)
    BY DEF Refilled, Full
  <1> QED BY <1>2, <1>3, <1>4 DEF Least

LEMMA CostFacts ==
  ASSUME NEW w \in Weights
  PROVE  w * TokenTicks \in Nat /\ w * TokenTicks > 0 /\ w * TokenTicks <= Full
PROOF
  <1>1. w \in Nat /\ 1 <= w /\ w <= Limit /\ Limit \in Nat /\ TokenTicks \in Nat /\ TokenTicks > 0
    BY Sizes
  <1>2. 1 * TokenTicks <= w * TokenTicks /\ w * TokenTicks <= Limit * TokenTicks
    BY <1>1, TimesGrows
  <1>3. 1 * TokenTicks = TokenTicks /\ w * TokenTicks \in Int
    BY <1>1, Times
  <1> QED BY <1>1, <1>2, <1>3 DEF Full

LEMMA TokenBucketFacts ==
  ASSUME NEW t \in Nat, NEW w \in Weights, NEW st \in States("token-bucket", t)
  PROVE  LET v == TokenBucket(st, w, t)
         IN  /\ v.state \in States("token-bucket", t)
             /\ v.state.at = t
             /\ v.state.parts = IF v.allowed THEN Refilled(st, t) - w * TokenTicks ELSE Refilled(st, t)
             /\ v.resetAt \in Int
             /\ ~v.allowed => v.resetAt = t + (w * TokenTicks - Refilled(st, t))
             /\ v.allowed \in BOOLEAN
             /\ v.allowed <=> Refilled(st, t) >= w * TokenTicks
PROOF
  <1> DEFINE parts == Refilled(st, t)
             cost  == w * TokenTicks
             room  == parts >= cost
             left  == IF room THEN parts - cost ELSE parts
             at    == t + (IF room THEN Full - left ELSE cost - parts)
             next  == [parts |-> left, at |-> t]
  <1>1. /\ parts \in Nat /\ parts <= Full /\ cost \in Nat /\ Full \in Nat
    BY RefilledFacts, CostFacts, Sizes
  <1>2. /\ TokenBucket(st, w, t).allowed = room
        /\ TokenBucket(st, w, t).resetAt = at
        /\ TokenBucket(st, w, t).state = next
    BY VerdictIs DEF TokenBucket, Full
  <1> HIDE DEF parts, cost
  <1>3. room \in BOOLEAN /\ (room <=> parts >= cost)
    OBVIOUS
  <1>4. left \in 0..Full /\ t \in 0..t
    BY <1>1
  <1>5. at \in Int /\ (~room => at = t + (cost - parts))
    BY <1>1
  <1>6. left = IF room THEN parts - cost ELSE parts
    OBVIOUS
  <1> HIDE DEF left, at, room
  <1>7. next \in [parts : 0..Full, at : 0..t]
    BY <1>4, Zenon
  <1>8. next.parts = left /\ next.at = t
    OBVIOUS
  <1> HIDE DEF next
  <1> QED BY <1>2, <1>3, <1>5, <1>6, <1>7, <1>8, StatesAre DEF parts, cost

LEMMA LuaTokenBucketFacts ==
  ASSUME NEW t \in Nat, NEW w \in Weights, NEW st \in States("token-bucket", t)
  PROVE  LET v == LuaTokenBucket(st, w, t)
         IN  /\ v.state \in States("token-bucket", t)
             /\ v.state.at = t
             /\ v.state.parts = IF v.allowed THEN Refilled(st, t) - w * TokenTicks ELSE Refilled(st, t)
             /\ v.resetAt = t + (Full - v.state.parts)
             /\ v.allowed \in BOOLEAN
             /\ v.allowed <=> Refilled(st, t) >= w * TokenTicks
PROOF
  <1> DEFINE parts == Refilled(st, t)
             cost  == w * TokenTicks
             room  == parts >= cost
             left  == IF room THEN parts - cost ELSE parts
             at    == t + (Full - left)
             next  == [parts |-> left, at |-> t]
  <1>1. /\ parts \in Nat /\ parts <= Full /\ cost \in Nat /\ Full \in Nat
    BY RefilledFacts, CostFacts, Sizes
  <1>2. /\ LuaTokenBucket(st, w, t).allowed = room
        /\ LuaTokenBucket(st, w, t).resetAt = at
        /\ LuaTokenBucket(st, w, t).state = next
    BY VerdictIs DEF LuaTokenBucket, Full
  <1> HIDE DEF parts, cost
  <1>3. room \in BOOLEAN /\ (room <=> parts >= cost)
    OBVIOUS
  <1>4. left \in 0..Full /\ t \in 0..t
    BY <1>1
  <1>6. left = IF room THEN parts - cost ELSE parts
    OBVIOUS
  <1> HIDE DEF left, room
  <1>7. next \in [parts : 0..Full, at : 0..t]
    BY <1>4, Zenon
  <1>8. next.parts = left /\ next.at = t
    OBVIOUS
  <1> HIDE DEF next
  <1> QED BY <1>2, <1>3, <1>6, <1>7, <1>8, StatesAre DEF parts, cost
LEMMA FreshFacts ==
  ASSUME NEW t \in Nat, NEW log \in Seq(0..t), Ordered(log)
  PROVE  /\ Fresh(log, t) \in Seq(0..t) /\ Ordered(Fresh(log, t))
         /\ \A i \in 1..Len(Fresh(log, t)) : t < Fresh(log, t)[i] + Window
PROOF
  <1> DEFINE young == (t - Window + 1)..t
             valid == Only(log, young)
  <1>1. Window \in Nat
    BY Sizes
  <1>2. /\ valid \in Seq(0..t)
        /\ \A k \in 1..Len(valid) : /\ PlaceOf(log, young, k) \in 1..Len(log)
                                    /\ valid[k] = log[PlaceOf(log, young, k)]
                                    /\ valid[k] \in young
        /\ \A k, l \in 1..Len(valid) : k <= l => PlaceOf(log, young, k) <= PlaceOf(log, young, l)
    BY OnlyKeeps
  <1>3. \A i \in 1..Len(valid) : t < valid[i] + Window
    <2>1. \A x \in young : t < x + Window
      BY <1>1
    <2> HIDE DEF young, valid
    <2> QED BY <1>2, <2>1
  <1>4. Fresh(log, t) = valid
    BY DEF Fresh
  <1> HIDE DEF young, valid
  <1>5. Ordered(valid)
    BY <1>2 DEF Ordered
  <1> QED BY <1>2, <1>3, <1>4, <1>5

LEMMA AddedFacts ==
  ASSUME NEW t \in Nat, NEW log \in Seq(0..t), Ordered(log), NEW w \in Nat
  PROVE  LET next == log \o [i \in 1..w |-> t]
         IN  next \in Seq(0..t) /\ Ordered(next) /\ Len(next) = Len(log) + w
PROOF
  <1> DEFINE more == [i \in 1..w |-> t]
             next == log \o more
  <1>1. t \in 0..t
    OBVIOUS
  <1>2. more \in Seq(0..t) /\ Len(more) = w
    BY <1>1
  <1>3. \A i \in 1..w : more[i] = t
    OBVIOUS
  <1> HIDE DEF more
  <1>4. /\ next \in Seq(0..t) /\ Len(next) = Len(log) + w
        /\ \A i \in 1..Len(next) : next[i] = IF i <= Len(log) THEN log[i] ELSE more[i - Len(log)]
    BY <1>2, ConcatProperties
  <1>5. Len(log) \in Nat
    OBVIOUS
  <1> HIDE DEF next
  <1>6. \A i \in 1..Len(next) : i <= Len(log) => next[i] = log[i] /\ i \in 1..Len(log)
    BY <1>4, <1>5
  <1>7. ASSUME NEW i \in 1..Len(next), ~(i <= Len(log))
        PROVE  next[i] = t
    <2>1. i - Len(log) \in 1..w
      BY <1>4, <1>5, <1>7
    <2>2. next[i] = more[i - Len(log)]
      BY <1>4, <1>7
    <2> QED BY <1>3, <2>1, <2>2
  <1>8. \A i \in 1..Len(next) : next[i] \in Nat /\ next[i] <= t
    <2>1. \A i \in 1..Len(next) : next[i] \in 0..t
      BY <1>4
    <2> QED BY <2>1
  <1>9. Ordered(next)
    <2>1. SUFFICES ASSUME NEW i \in 1..Len(next), NEW j \in 1..Len(next), i <= j
                   PROVE  next[i] <= next[j]
      BY DEF Ordered
    <2>2. CASE j <= Len(log)
      <3>1. i <= Len(log)
        BY <1>4, <1>5, <2>1, <2>2
      <3>2. i \in 1..Len(log) /\ j \in 1..Len(log)
        BY <1>6, <2>2, <3>1
      <3>3. log[i] <= log[j]
        BY <2>1, <3>2 DEF Ordered
      <3> QED BY <1>6, <2>2, <3>1, <3>3
    <2>3. CASE ~(j <= Len(log))
      BY <1>7, <1>8, <2>3
    <2> QED BY <2>2, <2>3
  <1> QED BY <1>4, <1>9 DEF next, more

LEMMA SlidingLogFacts ==
  ASSUME NEW t \in Nat, NEW w \in Weights, NEW st \in States("sliding-window-log", t)
  PROVE  LET v == SlidingLog(st, w, t)
             valid == Fresh(st, t)
             m == Len(valid) - Limit + w
         IN  /\ v.state \in States("sliding-window-log", t)
             /\ v.resetAt \in Int
             /\ v.allowed \in BOOLEAN
             /\ v.allowed <=> Len(valid) + w <= Limit
             /\ v.state = IF v.allowed THEN valid \o [i \in 1..w |-> t] ELSE valid
             /\ v.state # <<>> /\ v.resetAt >= v.state[1] + Window
             /\ ~v.allowed => /\ v.state = valid
                              /\ m \in 1..Len(valid)
                              /\ v.resetAt = valid[m] + Window
PROOF
  <1> DEFINE valid == Fresh(st, t)
             m     == Len(valid) - Limit + w
             room  == Len(valid) + w <= Limit
             next  == IF room THEN valid \o [i \in 1..w |-> t] ELSE valid
             leaver == CASE ~room -> valid[m]
                         [] room /\ next # <<>> -> next[1]
                         [] room /\ next = <<>> -> t
  <1>1. /\ st \in Seq(0..t) /\ Ordered(st)
    BY StatesAre
  <1>2. /\ w \in Nat /\ w <= Limit /\ Limit \in Nat /\ Window \in Nat /\ 1 <= w
    BY Sizes
  <1>3. /\ SlidingLog(st, w, t).allowed = room
        /\ SlidingLog(st, w, t).resetAt = leaver + Window
        /\ SlidingLog(st, w, t).state = next
    <2>1. SlidingLog(st, w, t) = Verdict(room, leaver + Window, next)
      BY Zenon DEF SlidingLog
    <2> HIDE DEF room, next, leaver
    <2> QED BY <2>1, VerdictIs
  <1>4. valid \in Seq(0..t) /\ Ordered(valid)
    BY <1>1, FreshFacts
  <1> HIDE DEF valid
  <1>5. next \in Seq(0..t) /\ Ordered(next)
    BY <1>2, <1>4, AddedFacts
  <1>6. room => next # <<>>
    BY <1>2, <1>4, AddedFacts
  <1>7. ~room => next = valid
    OBVIOUS
  <1>15. next = IF room THEN valid \o [i \in 1..w |-> t] ELSE valid
    OBVIOUS
  <1>8. Len(valid) \in Nat
    BY <1>4
  <1>9. ~room => m \in 1..Len(valid)
    BY <1>2, <1>8
  <1>10. room \in BOOLEAN
    OBVIOUS
  <1>11. room <=> Len(valid) + w <= Limit
    OBVIOUS
  <1> HIDE DEF room, next, m
  <1>12. leaver \in Int /\ (~room => leaver = valid[m])
    <2>1. CASE ~room
      <3>1. leaver = valid[m]
        BY <2>1
      <3>2. valid[m] \in 0..t
        BY <1>4, <1>9, <2>1
      <3> QED BY <3>1, <3>2
    <2>2. CASE room
      <3>1. leaver = next[1]
        BY <1>6, <2>2
      <3>2. next[1] \in 0..t
        BY <1>5, <1>6, <2>2
      <3> QED BY <2>2, <3>1, <3>2
    <2> QED BY <2>1, <2>2
  <1> HIDE DEF leaver
  <1>16. next # <<>> /\ leaver + Window >= next[1] + Window
    <2>1. CASE ~room
      <3>1. next = valid /\ m \in 1..Len(valid) /\ leaver = valid[m]
        BY <1>7, <1>9, <1>12, <2>1
      <3>2. valid # <<>> /\ 1 \in 1..Len(valid) /\ 1 <= m
        BY <1>8, <3>1
      <3>3. valid[1] <= valid[m] /\ valid[1] \in 0..t /\ valid[m] \in 0..t
        BY <1>4, <3>1, <3>2 DEF Ordered
      <3> QED BY <1>2, <3>1, <3>2, <3>3
    <2>2. CASE room
      <3>1. leaver = next[1] /\ next # <<>>
        BY <1>6, <2>2 DEF leaver
      <3>2. next[1] \in 0..t
        BY <1>5, <3>1
      <3> QED BY <1>2, <3>1, <3>2
    <2> QED BY <2>1, <2>2
  <1>13. leaver + Window \in Int
    BY <1>2, <1>12
  <1>14. next \in States("sliding-window-log", t)
    BY <1>5, StatesAre
  <1> QED BY <1>3, <1>7, <1>9, <1>10, <1>11, <1>12, <1>13, <1>14, <1>15, <1>16 DEF valid, m

LEMMA LuaSlidingLogFacts ==
  ASSUME NEW t \in Nat, NEW w \in Weights, NEW st \in States("sliding-window-log", t)
  PROVE  LET v == LuaSlidingLog(st, w, t)
             valid == Fresh(st, t)
         IN  /\ v.state \in States("sliding-window-log", t)
             /\ v.resetAt \in Int
             /\ v.allowed \in BOOLEAN
             /\ v.allowed <=> Len(valid) < Limit
             /\ v.state = IF v.allowed THEN valid \o [i \in 1..w |-> t] ELSE valid
             /\ v.state # <<>> /\ v.resetAt = v.state[1] + Window
PROOF
  <1> DEFINE valid == Fresh(st, t)
             room  == Len(valid) < Limit
             next  == IF room THEN valid \o [i \in 1..w |-> t] ELSE valid
             first == IF next = <<>> THEN t ELSE next[1]
  <1>1. /\ st \in Seq(0..t) /\ Ordered(st)
    BY StatesAre
  <1>2. w \in Nat /\ 1 <= w /\ Window \in Nat /\ Limit \in Nat /\ Limit > 0
    BY Sizes
  <1>3. /\ LuaSlidingLog(st, w, t).allowed = room
        /\ LuaSlidingLog(st, w, t).resetAt = first + Window
        /\ LuaSlidingLog(st, w, t).state = next
    <2>1. LuaSlidingLog(st, w, t) = Verdict(room, first + Window, next)
      BY Zenon DEF LuaSlidingLog
    <2> HIDE DEF room, next, first
    <2> QED BY <2>1, VerdictIs
  <1>4. valid \in Seq(0..t) /\ Ordered(valid)
    BY <1>1, FreshFacts
  <1> HIDE DEF valid
  <1>5. next \in Seq(0..t) /\ Ordered(next)
    BY <1>2, <1>4, AddedFacts
  <1>6. room \in BOOLEAN /\ (room <=> Len(valid) < Limit)
    OBVIOUS
  <1>10. next = IF room THEN valid \o [i \in 1..w |-> t] ELSE valid
    OBVIOUS
  <1>11. next # <<>>
    <2>1. room => next # <<>>
      BY <1>2, <1>4, AddedFacts
    <2>2. ~room => next = valid /\ valid # <<>>
      BY <1>2, <1>4
    <2> QED BY <2>1, <2>2
  <1> HIDE DEF room, next
  <1>12. first = next[1]
    BY <1>11
  <1>7. first \in Int
    <2>1. next # <<>> => next[1] \in 0..t
      BY <1>5
    <2> QED BY <2>1
  <1> HIDE DEF first
  <1>8. first + Window \in Int
    BY <1>2, <1>7
  <1>9. next \in States("sliding-window-log", t)
    BY <1>5, StatesAre
  <1> QED BY <1>3, <1>6, <1>8, <1>9, <1>10, <1>11, <1>12 DEF valid
\* What an algorithm writes is a state of its own, at the time of the clock.
LEMMA ConsumeTypes ==
  ASSUME NEW a \in Algorithms, NEW t \in Nat, NEW w \in Weights, NEW st \in States(a, t)
  PROVE  /\ /\ Consume(a, st, w, t).state \in States(a, t)
            /\ Consume(a, st, w, t).resetAt \in Int
            /\ Consume(a, st, w, t).allowed \in BOOLEAN
         /\ /\ LuaConsume(a, st, w, t).state \in States(a, t)
            /\ LuaConsume(a, st, w, t).resetAt \in Int
            /\ LuaConsume(a, st, w, t).allowed \in BOOLEAN
PROOF
  <1>0. WindowStart(t) + Window \in Int
    BY WindowFacts, Sizes
  <1>1. CASE a = "fixed-window"
    <2>1. Consume(a, st, w, t) = FixedWindow(st, w, t) /\ LuaConsume(a, st, w, t) = LuaFixedWindow(st, w, t)
      BY <1>1 DEF Consume, LuaConsume
    <2> QED BY <1>0, <1>1, <2>1, FixedWindowFacts, LuaFixedWindowFacts
  <1>2. CASE a = "sliding-window-log"
    <2>1. Consume(a, st, w, t) = SlidingLog(st, w, t) /\ LuaConsume(a, st, w, t) = LuaSlidingLog(st, w, t)
      BY <1>2 DEF Consume, LuaConsume
    <2> QED BY <1>2, <2>1, SlidingLogFacts, LuaSlidingLogFacts
  <1>3. CASE a = "sliding-window-counter"
    <2>1. /\ Consume(a, st, w, t) = SlidingCounter(st, w, t)
          /\ LuaConsume(a, st, w, t) = LuaSlidingCounter(st, w, t)
      BY <1>3 DEF Consume, LuaConsume
    <2> QED BY <1>0, <1>3, <2>1, SlidingCounterFacts, LuaSlidingCounterFacts
  <1>4. CASE a = "token-bucket"
    <2>1. Consume(a, st, w, t) = TokenBucket(st, w, t) /\ LuaConsume(a, st, w, t) = LuaTokenBucket(st, w, t)
      BY <1>4 DEF Consume, LuaConsume
    <2>2. LuaTokenBucket(st, w, t).resetAt \in Int
      <3>1. /\ LuaTokenBucket(st, w, t).resetAt = t + (Full - LuaTokenBucket(st, w, t).state.parts)
            /\ LuaTokenBucket(st, w, t).state \in States("token-bucket", t)
        BY <1>4, LuaTokenBucketFacts
      <3>2. LuaTokenBucket(st, w, t).state.parts \in Nat
        BY <3>1, RefilledFacts
      <3> QED BY <3>1, <3>2, Sizes
    <2> QED BY <1>4, <2>1, <2>2, TokenBucketFacts, LuaTokenBucketFacts
  <1> QED BY <1>1, <1>2, <1>3, <1>4 DEF Algorithms

-----------------------------------------------------------------------------
(* The type invariant *)

Entries == [until : Nat, state : States(algorithm, now)] \cup {Nothing}

Types ==
  /\ algorithm \in Algorithms
  /\ kind \in Kinds /\ algorithm \in InUse /\ callers \in 1..Concurrency
  /\ now \in 0..MaxTime
  /\ memory \in Entries /\ redis \in Entries
  /\ waiting \in Seq([weight : Weights, state : States(algorithm, now)])
  /\ Len(waiting) <= callers
  /\ granted \in [{"memory", "redis"} -> [0..MaxTime -> Nat]]
  /\ asked \in 0..MaxRequests /\ faults \in 0..MaxFaults /\ resets \in 0..MaxResets
  /\ evicted \in 0..MaxEvictions

LEMMA Numbers ==
  ASSUME Types
  PROVE  /\ now \in Nat /\ now <= MaxTime /\ MaxTime \in Nat /\ callers \in Nat /\ callers >= 1
         /\ Concurrency \in Nat /\ MaxRequests \in Nat /\ MaxFaults \in Nat /\ MaxResets \in Nat
         /\ MaxEvictions \in Nat /\ evicted \in Nat
PROOF
  BY ConstantAssumption DEF Types

LEMMA EntryFacts ==
  ASSUME NEW e \in Entries, e # Nothing
  PROVE  e.until \in Nat /\ e.state \in States(algorithm, now) /\ DOMAIN e = {"until", "state"}
PROOF
  BY DEF Entries

LEMMA StateTypes ==
  ASSUME Types
  PROVE  MemoryState \in States(algorithm, now) /\ RedisState \in States(algorithm, now)
PROOF
  <1>1. now \in Nat
    BY Numbers
  <1>2. InitialState(algorithm, now) \in States(algorithm, now) /\ LuaInitialState(algorithm, now) \in States(algorithm, now)
    BY <1>1, InitialStateType DEF Types
  <1>3. Live(memory) => memory.state \in States(algorithm, now)
    BY EntryFacts DEF Types, Live
  <1>4. Live(redis) => redis.state \in States(algorithm, now)
    BY EntryFacts DEF Types, Live
  <1> QED BY <1>2, <1>3, <1>4 DEF MemoryState, RedisState

LEMMA KeptFacts ==
  ASSUME Types, NEW v, v.resetAt \in Int, v.state \in States(algorithm, now)
  PROVE  /\ Kept(v) \in Entries /\ Kept(v) # Nothing /\ Kept(v).state = v.state
         /\ Kept(v).until = IF v.resetAt > now THEN v.resetAt ELSE now + 1
         /\ KeptInRedis(v) \in Entries /\ KeptInRedis(v) # Nothing /\ KeptInRedis(v).state = v.state
         /\ KeptInRedis(v).until = IF v.resetAt > now THEN v.resetAt - 1 ELSE now
PROOF
  <1>1. now \in Nat
    BY Numbers
  <1> DEFINE u == now + Longer(v.resetAt - now, 1)
  <1>2. u = IF v.resetAt > now THEN v.resetAt ELSE now + 1
    BY <1>1 DEF Longer
  <1>3. Kept(v) = [state |-> v.state, until |-> u]
    BY DEF Kept
  <1>9. KeptInRedis(v) = [state |-> v.state, until |-> u - 1]
    <2>1. Longer(v.resetAt - now, 1) \in Int
      BY <1>1 DEF Longer
    <2>2. now + (Longer(v.resetAt - now, 1) - 1) = u - 1
      BY <1>1, <2>1
    <2> HIDE DEF u
    <2> QED BY <2>2 DEF KeptInRedis
  <1> HIDE DEF u
  <1>4. u \in Nat /\ u - 1 \in Nat
    BY <1>1, <1>2
  <1>5. Kept(v).state = v.state /\ Kept(v).until = u /\ KeptInRedis(v).state = v.state /\ KeptInRedis(v).until = u - 1
    BY <1>3, <1>9
  <1>6. Kept(v) # Nothing /\ KeptInRedis(v) # Nothing
    <2>1. Nothing.until = -1
      BY DEF Nothing
    <2> QED BY <1>4, <1>5, <2>1
  <1>7. Kept(v) \in Entries /\ KeptInRedis(v) \in Entries
    BY <1>3, <1>4, <1>9 DEF Entries
  <1>8. u - 1 = IF v.resetAt > now THEN v.resetAt - 1 ELSE now
    BY <1>1, <1>2
  <1> QED BY <1>2, <1>5, <1>6, <1>7, <1>8

LEMMA ScriptTypes ==
  ASSUME Types, NEW w \in Weights
  PROVE  /\ Script(w).state \in States(algorithm, now) /\ Script(w).resetAt \in Int
         /\ Script(w).allowed \in BOOLEAN
PROOF
  <1>1. now \in Nat /\ algorithm \in Algorithms /\ RedisState \in States(algorithm, now)
    BY Numbers, StateTypes DEF Types
  <1> QED BY <1>1, ConsumeTypes DEF Script

\* The request at the head of those that wait, and the ones behind it.
LEMMA HeadTypes ==
  ASSUME Types, waiting # <<>>
  PROVE  /\ Head(waiting).weight \in Weights /\ Head(waiting).state \in States(algorithm, now)
         /\ Head(waiting) = waiting[1] /\ Len(waiting) >= 1
         /\ LET v == Consume(algorithm, Head(waiting).state, Head(waiting).weight, now)
            IN  v.state \in States(algorithm, now) /\ v.resetAt \in Int /\ v.allowed \in BOOLEAN
         /\ Tail(waiting) \in Seq([weight : Weights, state : States(algorithm, now)])
         /\ Len(Tail(waiting)) = Len(waiting) - 1
         /\ \A i \in 1..Len(Tail(waiting)) : Tail(waiting)[i] = waiting[i + 1]
PROOF
  <1> DEFINE R == [weight : Weights, state : States(algorithm, now)]
  <1>1. waiting \in Seq(R) /\ now \in Nat /\ algorithm \in Algorithms
    BY Numbers DEF Types
  <1>2. Head(waiting) \in R
    <2> HIDE DEF R
    <2> QED BY <1>1
  <1>3. Head(waiting).weight \in Weights /\ Head(waiting).state \in States(algorithm, now)
    BY <1>2
  <1>4. LET v == Consume(algorithm, Head(waiting).state, Head(waiting).weight, now)
        IN  v.state \in States(algorithm, now) /\ v.resetAt \in Int /\ v.allowed \in BOOLEAN
    BY <1>1, <1>3, ConsumeTypes
  <1> HIDE DEF R
  <1>5. /\ Head(waiting) = waiting[1] /\ Len(waiting) >= 1
        /\ Tail(waiting) \in Seq(R) /\ Len(Tail(waiting)) = Len(waiting) - 1
        /\ \A i \in 1..Len(Tail(waiting)) : Tail(waiting)[i] = waiting[i + 1]
    BY <1>1
  <1> QED BY <1>3, <1>4, <1>5 DEF R
StoreNames == {"memory", "redis"}

\* A verdict that allows adds its weight from now on; one that does not adds nothing.
LEMMA GrantFacts ==
  ASSUME Types, NEW s \in StoreNames, NEW w \in Weights, NEW allowed \in BOOLEAN, Grant(s, w, allowed)
  PROVE  /\ granted' \in [StoreNames -> [0..MaxTime -> Nat]]
         /\ \A u \in StoreNames, t \in 0..MaxTime :
              granted'[u][t] = granted[u][t] + IF allowed /\ u = s /\ ~(t < now) THEN w ELSE 0
PROOF
  <1> DEFINE more == [t \in 0..MaxTime |-> granted[s][t] + IF t < now THEN 0 ELSE w]
  <1>1. granted \in [StoreNames -> [0..MaxTime -> Nat]] /\ w \in Nat
    BY Sizes DEF Types, StoreNames
  <1>2. \A u \in StoreNames, t \in 0..MaxTime : granted[u][t] \in Nat
    BY <1>1
  <1>3. \A t \in 0..MaxTime : more[t] = granted[s][t] + IF t < now THEN 0 ELSE w
    OBVIOUS
  <1>4. more \in [0..MaxTime -> Nat]
    BY <1>1, <1>2
  <1>5. granted' = IF allowed THEN [granted EXCEPT ![s] = more] ELSE granted
    BY DEF Grant
  <1> HIDE DEF more
  <1>6. CASE allowed
    <2>1. granted' = [granted EXCEPT ![s] = more]
      BY <1>5, <1>6
    <2>2. granted' \in [StoreNames -> [0..MaxTime -> Nat]]
      BY <1>1, <1>4, <2>1
    <2>3. \A u \in StoreNames : granted'[u] = IF u = s THEN more ELSE granted[u]
      BY <1>1, <2>1
    <2> QED BY <1>1, <1>2, <1>3, <1>6, <2>2, <2>3
  <1>7. CASE ~allowed
    BY <1>1, <1>2, <1>5, <1>7
  <1> QED BY <1>6, <1>7

LEMMA ResetGrants ==
  ASSUME Types, NEW s \in StoreNames, granted' = [granted EXCEPT ![s] = None]
  PROVE  /\ granted' \in [StoreNames -> [0..MaxTime -> Nat]]
         /\ \A u \in StoreNames, t \in 0..MaxTime : granted'[u][t] = IF u = s THEN 0 ELSE granted[u][t]
PROOF
  <1>1. granted \in [StoreNames -> [0..MaxTime -> Nat]]
    BY DEF Types, StoreNames
  <1>2. None \in [0..MaxTime -> Nat] /\ \A t \in 0..MaxTime : None[t] = 0
    BY DEF None
  <1>3. \A u \in StoreNames : granted'[u] = IF u = s THEN None ELSE granted[u]
    BY <1>1
  <1>4. granted' \in [StoreNames -> [0..MaxTime -> Nat]]
    BY <1>1, <1>2
  <1> QED BY <1>2, <1>3, <1>4

LEMMA ReadMemoryTypes ==
  ASSUME Types, NEW w \in Weights, ReadMemory(w)
  PROVE  /\ memory' \in Entries
         /\ waiting' \in Seq([weight : Weights, state : States(algorithm, now)])
         /\ Len(waiting') = Len(waiting) + 1 /\ Len(waiting') <= callers
         /\ \A i \in 1..Len(waiting') :
              waiting'[i] = IF i <= Len(waiting) THEN waiting[i] ELSE [weight |-> w, state |-> MemoryState]
         /\ memory' = IF Live(memory) THEN memory ELSE Nothing
PROOF
  <1> DEFINE R == [weight : Weights, state : States(algorithm, now)]
             r == [weight |-> w, state |-> MemoryState]
  <1>1. r \in R
    BY StateTypes
  <1>2. /\ waiting \in Seq(R) /\ waiting' = Append(waiting, r) /\ Len(waiting) < callers
        /\ callers \in Nat /\ memory \in Entries /\ Nothing \in Entries
        /\ memory' = IF Live(memory) THEN memory ELSE Nothing
    BY Numbers DEF Types, ReadMemory, Entries
  <1> HIDE DEF R, r
  <1>3. /\ Append(waiting, r) \in Seq(R) /\ Len(Append(waiting, r)) = Len(waiting) + 1
        /\ \A i \in 1..(Len(waiting) + 1) : Append(waiting, r)[i] = IF i <= Len(waiting) THEN waiting[i] ELSE r
    BY <1>1, <1>2, AppendProperties
  <1>4. Len(waiting) \in Nat
    BY <1>2
  <1> QED BY <1>2, <1>3, <1>4 DEF R, r

LEMMA TypesInit ==
  ASSUME Init
  PROVE  Types
PROOF
  <1>1. /\ kind \in Kinds /\ algorithm \in InUse /\ callers \in 1..Concurrency
        /\ now = 0 /\ memory = Nothing /\ redis = Nothing /\ waiting = <<>>
        /\ granted = [s \in {"memory", "redis"} |-> None]
        /\ asked = 0 /\ faults = 0 /\ resets = 0 /\ evicted = 0
    BY DEF Init
  <1>2. /\ MaxTime \in Nat /\ MaxRequests \in Nat /\ MaxFaults \in Nat /\ MaxResets \in Nat
        /\ MaxEvictions \in Nat /\ Concurrency \in Nat /\ InUse \subseteq Algorithms
    BY ConstantAssumption
  <1>3. granted \in [{"memory", "redis"} -> [0..MaxTime -> Nat]]
    <2>1. None \in [0..MaxTime -> Nat]
      BY DEF None
    <2> QED BY <1>1, <2>1
  <1>4. memory \in Entries /\ redis \in Entries
    BY <1>1 DEF Entries
  <1>5. waiting \in Seq([weight : Weights, state : States(algorithm, now)]) /\ Len(waiting) <= callers
    <2>1. Len(waiting) = 0 /\ callers \in Nat
      BY <1>1, <1>2
    <2> QED BY <1>1, <2>1
  <1> QED BY <1>1, <1>2, <1>3, <1>4, <1>5 DEF Types

LEMMA TypesStep ==
  ASSUME Types, [Next]_vars
  PROVE  Types'
PROOF
  <1>1. algorithm' = algorithm /\ kind' = kind /\ callers' = callers
    BY DEF Next, vars, setup, ConsumeFromMemory, ConsumeFromRedis, RedisFails, WriteBack, Reset, Evict, Tick
  <1>2. /\ asked \in 0..MaxRequests /\ faults \in 0..MaxFaults /\ resets \in 0..MaxResets
        /\ evicted \in 0..MaxEvictions /\ MaxEvictions \in Nat
        /\ MaxRequests \in Nat /\ MaxFaults \in Nat /\ MaxResets \in Nat /\ now \in Nat
    BY Numbers DEF Types
  <1>3. ( /\ asked \in 0..MaxRequests /\ faults \in 0..MaxFaults /\ resets \in 0..MaxResets
          /\ evicted \in 0..MaxEvictions )'
    BY <1>2 DEF Next, vars, bounds, Asks, ConsumeFromMemory, ConsumeFromRedis, RedisFails, WriteBack, Reset, Evict, Tick
  <1>4. granted \in [StoreNames -> [0..MaxTime -> Nat]]
    BY DEF Types, StoreNames
  <1> DEFINE Rest ==
        /\ memory \in Entries /\ redis \in Entries
        /\ waiting \in Seq([weight : Weights, state : States(algorithm, now)])
        /\ Len(waiting) <= callers
        /\ granted \in [StoreNames -> [0..MaxTime -> Nat]]
        /\ now \in 0..MaxTime
  <1>5. Rest
    BY <1>4 DEF Types
  <1>6. SUFFICES Rest'
    BY <1>1, <1>3 DEF Types, StoreNames
  <1>7. ASSUME now' = now
        PROVE  Entries' = Entries /\ States(algorithm, now)' = States(algorithm, now)
    BY <1>1, <1>7 DEF Entries
  <1>8. ASSUME NEW w \in Weights, ConsumeFromMemory(w)
        PROVE  Rest'
    <2>1. ReadMemory(w) /\ now' = now /\ redis' = redis /\ granted' = granted
      BY <1>8 DEF ConsumeFromMemory
    <2> QED BY <1>1, <1>5, <1>7, <2>1, ReadMemoryTypes
  <1>9. ASSUME NEW w \in Weights, ConsumeFromRedis(w)
        PROVE  Rest'
    <2>1. /\ redis' = KeptInRedis(Script(w)) /\ Grant("redis", w, Script(w).allowed)
          /\ now' = now /\ memory' = memory /\ waiting' = waiting
      BY <1>9 DEF ConsumeFromRedis
    <2>2. redis' \in Entries
      BY <2>1, ScriptTypes, KeptFacts
    <2>3. granted' \in [StoreNames -> [0..MaxTime -> Nat]]
      <3>1. Script(w).allowed \in BOOLEAN /\ "redis" \in StoreNames
        BY ScriptTypes DEF StoreNames
      <3> QED BY <2>1, <3>1, GrantFacts
    <2> QED BY <1>1, <1>5, <1>7, <2>1, <2>2, <2>3
  <1>10. ASSUME NEW w \in Weights, RedisFails(w)
         PROVE  Rest'
    <2>1. /\ redis' \in {redis, KeptInRedis(Script(w))}
          /\ ReadMemory(w) \/ (waiting' = waiting /\ memory' = memory)
          /\ now' = now /\ granted' = granted
      BY <1>10 DEF RedisFails
    <2>2. redis' \in Entries
      BY <1>5, <2>1, ScriptTypes, KeptFacts
    <2> QED BY <1>1, <1>5, <1>7, <2>1, <2>2, ReadMemoryTypes
  <1>11. CASE WriteBack
    <2> DEFINE w == Head(waiting).weight
               v == Consume(algorithm, Head(waiting).state, w, now)
    <2>1. /\ waiting # <<>> /\ memory' = Kept(v) /\ Grant("memory", w, v.allowed)
          /\ waiting' = Tail(waiting) /\ now' = now /\ redis' = redis
      BY <1>11 DEF WriteBack
    <2>2. /\ w \in Weights /\ v.state \in States(algorithm, now) /\ v.resetAt \in Int /\ v.allowed \in BOOLEAN
          /\ Tail(waiting) \in Seq([weight : Weights, state : States(algorithm, now)])
          /\ Len(Tail(waiting)) = Len(waiting) - 1
      BY <2>1, HeadTypes
    <2> HIDE DEF w, v
    <2>3. memory' \in Entries
      BY <2>1, <2>2, KeptFacts
    <2>4. granted' \in [StoreNames -> [0..MaxTime -> Nat]]
      <3>1. "memory" \in StoreNames
        BY DEF StoreNames
      <3> QED BY <2>1, <2>2, <3>1, GrantFacts
    <2>5. Len(waiting') <= callers
      <3>1. Len(waiting) \in Nat /\ callers \in Nat
        BY <1>5, Numbers
      <3> QED BY <1>5, <2>1, <2>2, <3>1
    <2> QED BY <1>1, <1>5, <1>7, <2>1, <2>2, <2>3, <2>4, <2>5
  <1>12. CASE Reset
    <2>1. /\ now' = now /\ waiting' = waiting
          /\ \/ memory' = Nothing /\ granted' = [granted EXCEPT !["memory"] = None] /\ redis' = redis
             \/ redis' = Nothing /\ granted' = [granted EXCEPT !["redis"] = None] /\ memory' = memory
      BY <1>12 DEF Reset
    <2>2. Nothing \in Entries
      BY DEF Entries
    <2>3. "memory" \in StoreNames /\ "redis" \in StoreNames
      BY DEF StoreNames
    <2>4. granted' \in [StoreNames -> [0..MaxTime -> Nat]]
      BY <2>1, <2>3, ResetGrants
    <2> QED BY <1>1, <1>5, <1>7, <2>1, <2>2, <2>4
  <1>13. CASE Tick
    <2>1. /\ now < MaxTime /\ waiting = <<>> /\ now' = now + 1
          /\ memory' = memory /\ redis' = redis /\ waiting' = waiting /\ granted' = granted
      BY <1>13 DEF Tick
    <2>2. now' \in 0..MaxTime /\ now' \in Nat /\ now <= now'
      BY <1>2, <2>1, Numbers
    <2>3. States(algorithm, now) \subseteq States(algorithm, now')
      BY <1>2, <2>2, StatesGrow DEF Types
    <2>4. Entries \subseteq Entries'
      <3>1. [until : Nat, state : States(algorithm, now)] \subseteq [until : Nat, state : States(algorithm, now')]
        BY <2>3
      <3> QED BY <1>1, <3>1 DEF Entries
    <2>5. waiting' \in Seq([weight : Weights, state : States(algorithm, now)]') /\ Len(waiting') <= callers
      BY <1>5, <2>1
    <2> QED BY <1>1, <1>5, <2>1, <2>2, <2>4, <2>5
  <1>15. CASE Evict
    <2>1. /\ now' = now /\ memory' = Nothing /\ redis' = redis /\ waiting' = waiting /\ granted' = granted
      BY <1>15 DEF Evict
    <2>2. Nothing \in Entries
      BY DEF Entries
    <2> QED BY <1>1, <1>5, <1>7, <2>1, <2>2
  <1>14. CASE UNCHANGED vars
    <2>1. /\ now' = now /\ memory' = memory /\ redis' = redis /\ waiting' = waiting /\ granted' = granted
      BY <1>14 DEF vars
    <2> QED BY <1>1, <1>5, <1>7, <2>1
  <1> QED BY <1>8, <1>9, <1>10, <1>11, <1>12, <1>13, <1>14, <1>15 DEF Next

-----------------------------------------------------------------------------
(* The weight that was allowed *)

\* What was allowed by a time to come is what was allowed by now.
Steady == \A s \in StoreNames, t \in now..MaxTime : granted[s][t] = granted[s][now]

LEMMA GrantedTypes ==
  ASSUME Types, NEW s \in StoreNames
  PROVE  /\ \A t \in 0..MaxTime : granted[s][t] \in Nat
         /\ \A a, b \in 0..MaxTime : Allowed(s, a, b) \in Int
PROOF
  <1>1. granted \in [StoreNames -> [0..MaxTime -> Nat]] /\ MaxTime \in Nat
    BY Numbers DEF Types, StoreNames
  <1>2. \A t \in 0..MaxTime : granted[s][t] \in Nat
    BY <1>1
  <1>3. ASSUME NEW a \in 0..MaxTime, NEW b \in 0..MaxTime
        PROVE  Allowed(s, a, b) \in Int
    <2>1. a # 0 => a - 1 \in 0..MaxTime
      BY <1>1
    <2> QED BY <1>2, <2>1 DEF Allowed
  <1> QED BY <1>2, <1>3

LEMMA AllowedAfterGrant ==
  ASSUME Types, NEW s \in StoreNames, NEW w \in Weights, NEW allowed \in BOOLEAN, Grant(s, w, allowed),
         NEW u \in StoreNames, NEW a \in 0..now, NEW b \in 0..now, a <= b
  PROVE  Allowed(u, a, b)' = Allowed(u, a, b) + IF allowed /\ u = s /\ b = now THEN w ELSE 0
PROOF
  <1>1. now \in Nat /\ now <= MaxTime /\ MaxTime \in Nat /\ w \in Nat
    BY Numbers, Sizes
  <1>2. /\ b \in 0..MaxTime /\ (~(b < now) <=> b = now)
        /\ a # 0 => a - 1 \in 0..MaxTime /\ a - 1 < now
    BY <1>1
  <1>3. granted'[u][b] = granted[u][b] + IF allowed /\ u = s /\ b = now THEN w ELSE 0
    BY <1>2, GrantFacts
  <1>4. a # 0 => granted'[u][a - 1] = granted[u][a - 1] + 0
    BY <1>2, GrantFacts
  <1>5. granted[u][b] \in Nat /\ (a # 0 => granted[u][a - 1] \in Nat)
    BY <1>2, GrantedTypes
  <1> QED BY <1>1, <1>3, <1>4, <1>5 DEF Allowed

LEMMA AllowedAfterReset ==
  ASSUME Types, NEW s \in StoreNames, granted' = [granted EXCEPT ![s] = None],
         NEW u \in StoreNames, NEW a \in 0..now, NEW b \in 0..now
  PROVE  Allowed(u, a, b)' = IF u = s THEN 0 ELSE Allowed(u, a, b)
PROOF
  <1>1. now \in Nat /\ now <= MaxTime /\ MaxTime \in Nat
    BY Numbers
  <1>2. b \in 0..MaxTime /\ (a # 0 => a - 1 \in 0..MaxTime)
    BY <1>1
  <1>3. granted'[u][b] = IF u = s THEN 0 ELSE granted[u][b]
    BY <1>2, ResetGrants
  <1>4. a # 0 => granted'[u][a - 1] = IF u = s THEN 0 ELSE granted[u][a - 1]
    BY <1>2, ResetGrants
  <1> QED BY <1>3, <1>4 DEF Allowed

LEMMA AllowedAfterTick ==
  ASSUME Types, Steady, Tick, NEW u \in StoreNames
  PROVE  /\ \A a, b \in 0..now : Allowed(u, a, b)' = Allowed(u, a, b)
         /\ \A a \in 0..now : Allowed(u, a, now)' = Allowed(u, a, now)
         /\ Allowed(u, now, now)' = 0
PROOF
  <1>1. now \in Nat /\ now < MaxTime /\ MaxTime \in Nat /\ granted' = granted /\ now' = now + 1
    BY Numbers DEF Tick
  <1>2. now + 1 \in now..MaxTime /\ now \in 0..MaxTime
    BY <1>1
  <1>3. granted[u][now + 1] = granted[u][now] /\ granted[u][now] \in Nat
    BY <1>2, GrantedTypes DEF Steady
  <1>4. now + 1 # 0 /\ (now + 1) - 1 = now
    BY <1>1
  <1> QED BY <1>1, <1>3, <1>4 DEF Allowed

\* The ways in which time passes, and in which weight is allowed or forgotten.
LEMMA GrantedCases ==
  ASSUME Types, [Next]_vars
  PROVE  \/ now' = now /\ granted' = granted
         \/ /\ now' = now
            /\ \E s \in StoreNames, w \in Weights, allowed \in BOOLEAN : Grant(s, w, allowed)
         \/ /\ now' = now
            /\ \E s \in StoreNames : granted' = [granted EXCEPT ![s] = None]
         \/ Tick
PROOF
  <1>0. "memory" \in StoreNames /\ "redis" \in StoreNames
    BY DEF StoreNames
  <1>1. ASSUME NEW w \in Weights, ConsumeFromMemory(w) \/ RedisFails(w)
        PROVE  now' = now /\ granted' = granted
    BY <1>1 DEF ConsumeFromMemory, RedisFails
  <1>2. ASSUME NEW w \in Weights, ConsumeFromRedis(w)
        PROVE  /\ now' = now
               /\ \E s \in StoreNames, x \in Weights, allowed \in BOOLEAN : Grant(s, x, allowed)
    <2>1. Grant("redis", w, Script(w).allowed) /\ now' = now
      BY <1>2 DEF ConsumeFromRedis
    <2>2. Script(w).allowed \in BOOLEAN
      BY ScriptTypes
    <2> QED BY <1>0, <2>1, <2>2
  <1>3. ASSUME WriteBack
        PROVE  /\ now' = now
               /\ \E s \in StoreNames, x \in Weights, allowed \in BOOLEAN : Grant(s, x, allowed)
    <2> DEFINE w == Head(waiting).weight
               v == Consume(algorithm, Head(waiting).state, w, now)
    <2>1. waiting # <<>> /\ Grant("memory", w, v.allowed) /\ now' = now
      BY <1>3 DEF WriteBack
    <2>2. w \in Weights /\ v.allowed \in BOOLEAN
      BY <2>1, HeadTypes
    <2> HIDE DEF w, v
    <2> QED BY <1>0, <2>1, <2>2
  <1>4. ASSUME Reset
        PROVE  now' = now /\ \E s \in StoreNames : granted' = [granted EXCEPT ![s] = None]
    BY <1>0, <1>4 DEF Reset
  <1>5. Evict \/ UNCHANGED vars => now' = now /\ granted' = granted
    BY DEF Evict, vars
  <1> QED BY <1>1, <1>2, <1>3, <1>4, <1>5 DEF Next

LEMMA SteadyStep ==
  ASSUME Types, Steady, [Next]_vars
  PROVE  Steady'
PROOF
  <1>1. now \in Nat /\ now <= MaxTime /\ MaxTime \in Nat
    BY Numbers
  <1>2. CASE now' = now /\ granted' = granted
    BY <1>2 DEF Steady
  <1>3. ASSUME NEW s \in StoreNames, NEW w \in Weights, NEW allowed \in BOOLEAN, Grant(s, w, allowed), now' = now
        PROVE  Steady'
    <2>1. SUFFICES ASSUME NEW u \in StoreNames, NEW t \in now..MaxTime
                   PROVE  granted'[u][t] = granted'[u][now]
      BY <1>3 DEF Steady
    <2>2. t \in 0..MaxTime /\ now \in 0..MaxTime /\ ~(t < now) /\ ~(now < now)
      BY <1>1
    <2>3. granted[u][t] = granted[u][now]
      BY DEF Steady
    <2> DEFINE more == IF allowed /\ u = s THEN w ELSE 0
    <2>4. granted'[u][t] = granted[u][t] + more /\ granted'[u][now] = granted[u][now] + more
      BY <1>3, <2>2, GrantFacts
    <2> QED BY <2>3, <2>4
  <1>4. ASSUME NEW s \in StoreNames, granted' = [granted EXCEPT ![s] = None], now' = now
        PROVE  Steady'
    <2>1. SUFFICES ASSUME NEW u \in StoreNames, NEW t \in now..MaxTime
                   PROVE  granted'[u][t] = granted'[u][now]
      BY <1>4 DEF Steady
    <2>2. t \in 0..MaxTime /\ now \in 0..MaxTime /\ granted[u][t] = granted[u][now]
      BY <1>1 DEF Steady
    <2>3. \A x \in StoreNames, y \in 0..MaxTime : granted'[x][y] = IF x = s THEN 0 ELSE granted[x][y]
      BY <1>4, ResetGrants
    <2> QED BY <2>2, <2>3
  <1>5. CASE Tick
    <2>1. now' = now + 1 /\ now < MaxTime /\ granted' = granted
      BY <1>5 DEF Tick
    <2>2. \A t \in (now + 1)..MaxTime : t \in now..MaxTime
      BY <1>1
    <2>3. now + 1 \in now..MaxTime
      BY <1>1, <2>1
    <2> QED BY <2>1, <2>2, <2>3 DEF Steady
  <1> QED BY <1>2, <1>3, <1>4, <1>5, GrantedCases

\* Some weight is the heaviest.
LEMMA HeaviestIs ==
  Heaviest \in Weights /\ \A w \in Weights : w <= Heaviest
PROOF
  <1> DEFINE Above == {n \in Nat : \A w \in Weights : w <= Limit - n}
  <1>1. SUFFICES ASSUME \A v \in Weights : \E w \in Weights : ~(w <= v)
                 PROVE  FALSE
    BY DEF Heaviest
  <1>2. /\ Limit \in Nat /\ \A w \in Weights : w \in Nat /\ 1 <= w /\ w <= Limit
        /\ Weights # {}
    BY ConstantAssumption
  <1>3. 0 \in Above
    BY <1>2
  <1>4. ASSUME NEW n \in Nat, n \in Above
        PROVE  n + 1 \in Above
    <2>1. \A w \in Weights : w <= Limit - n
      BY <1>4
    <2>2. \A w \in Weights : w # Limit - n
      <3>1. SUFFICES ASSUME NEW v \in Weights, v = Limit - n
                     PROVE  FALSE
        OBVIOUS
      <3>2. \A w \in Weights : w <= v
        BY <2>1, <3>1
      <3> QED BY <1>1, <3>2
    <2>3. \A w \in Weights : w <= Limit - (n + 1)
      BY <1>2, <2>1, <2>2
    <2> QED BY <2>3
  <1> HIDE DEF Above
  <1>5. Limit \in Above
    BY <1>2, <1>3, <1>4, AllNumbers
  <1>6. \A w \in Weights : w <= Limit - Limit
    BY <1>5 DEF Above
  <1>7. PICK w \in Weights : TRUE
    BY <1>2
  <1> QED BY <1>2, <1>6, <1>7

-----------------------------------------------------------------------------
(* What a store has allowed, but for what its evictions account for *)

\* What each request that is counted may stand for: of callers that interleave, those
\* which read the same count are counted once, by the one that writes last.
Factor == (callers - 1) * Heaviest + 1

Excess(s, a) == Allowed(s, a, now) - Lost(s) * Bound(s)

LEMMA BoundFacts ==
  ASSUME Types
  PROVE  /\ Heaviest \in Nat /\ Heaviest >= 1 /\ Factor \in Nat /\ Factor >= 1 /\ Limit \in Nat /\ Limit > 0
         /\ callers = 1 => Factor = 1 /\ Bound("memory") = Limit
         /\ Bound("memory") = Limit * Factor /\ Bound("redis") = Limit + (Heaviest - 1)
         /\ Lost("redis") = 0 /\ Lost("memory") = evicted
         /\ \A s \in StoreNames : /\ Bound(s) \in Nat /\ Bound(s) >= 1 /\ Lost(s) \in Nat
                                  /\ Lost(s) * Bound(s) \in Nat
PROOF
  <1>1. Heaviest \in Nat /\ Heaviest >= 1 /\ Limit \in Nat /\ Limit > 0 /\ callers \in Nat /\ callers >= 1
        /\ evicted \in Nat
    BY Numbers, HeaviestIs, Sizes
  <1> DEFINE K == callers - 1
  <1>2. K \in Nat /\ (callers = 1 => K = 0)
    BY <1>1
  <1> HIDE DEF K
  <1>3. K * Heaviest \in Nat /\ (K = 0 => K * Heaviest = 0)
    BY <1>1, <1>2
  <1>4. Factor = K * Heaviest + 1
    BY DEF Factor, K
  <1>5. Factor \in Nat /\ Factor >= 1 /\ (callers = 1 => Factor = 1)
    BY <1>2, <1>3, <1>4
  <1>6. Bound("memory") = Limit * Factor /\ Bound("redis") = Limit + (Heaviest - 1)
    BY <1>4 DEF Bound, K
  <1>7. 1 * Factor <= Limit * Factor /\ 1 * Factor = Factor /\ Limit * Factor \in Int /\ Limit * 1 = Limit
    BY <1>1, <1>5, Times, TimesGrows
  <1>8. Lost("redis") = 0 /\ Lost("memory") = evicted
    BY DEF Lost
  <1>9. ASSUME NEW s \in StoreNames
        PROVE  Bound(s) \in Nat /\ Bound(s) >= 1 /\ Lost(s) \in Nat
    BY <1>1, <1>5, <1>6, <1>7, <1>8 DEF StoreNames
  <1>10. \A s \in StoreNames : Lost(s) * Bound(s) \in Nat
    BY <1>9
  <1> QED BY <1>1, <1>5, <1>6, <1>7, <1>8, <1>9, <1>10

LEMMA ExcessTypes ==
  ASSUME Types, NEW s \in StoreNames, NEW a \in 0..now
  PROVE  Excess(s, a) \in Int /\ Allowed(s, a, now) \in Int /\ Excess(s, a) <= Allowed(s, a, now)
PROOF
  <1>1. a \in 0..MaxTime /\ now \in 0..MaxTime
    BY Numbers
  <1>2. Allowed(s, a, now) \in Int /\ Lost(s) * Bound(s) \in Nat
    BY <1>1, GrantedTypes, BoundFacts
  <1> QED BY <1>2 DEF Excess

LEMMA ExcessStays ==
  ASSUME Types, granted' = granted, now' = now, evicted' = evicted, callers' = callers, NEW s \in StoreNames
  PROVE  Bound(s)' = Bound(s) /\ \A a : Excess(s, a)' = Excess(s, a)
PROOF
  <1>1. Bound(s)' = Bound(s) /\ Lost(s)' = Lost(s)
    BY DEF Bound, Lost
  <1>2. \A a : Allowed(s, a, now)' = Allowed(s, a, now)
    BY DEF Allowed
  <1> QED BY <1>1, <1>2 DEF Excess

LEMMA ExcessAfterGrant ==
  ASSUME Types, NEW s \in StoreNames, NEW w \in Weights, NEW allowed \in BOOLEAN, Grant(s, w, allowed),
         now' = now, evicted' = evicted, callers' = callers, NEW u \in StoreNames
  PROVE  /\ Bound(u)' = Bound(u)
         /\ \A a \in 0..now : Excess(u, a)' = Excess(u, a) + IF allowed /\ u = s THEN w ELSE 0
PROOF
  <1>1. Bound(u)' = Bound(u) /\ Lost(u)' = Lost(u)
    BY DEF Bound, Lost
  <1> DEFINE more == IF allowed /\ u = s THEN w ELSE 0
  <1>2. ASSUME NEW a \in 0..now
        PROVE  Excess(u, a)' = Excess(u, a) + more
    <2>1. now \in 0..now /\ a <= now
      BY Numbers
    <2>2. \A x, y \in 0..now : x <= y =>
            Allowed(u, x, y)' = Allowed(u, x, y) + IF allowed /\ u = s /\ y = now THEN w ELSE 0
      BY AllowedAfterGrant
    <2>6. granted'[u][now] - (IF a = 0 THEN 0 ELSE granted'[u][a - 1]) = Allowed(u, a, now) + more
      BY <2>1, <2>2 DEF Allowed
    <2>3. Allowed(u, a, now)' = Allowed(u, a, now) + more
      BY <2>6 DEF Allowed
    <2>4. Allowed(u, a, now) \in Int /\ Lost(u) * Bound(u) \in Nat /\ more \in Nat
      BY ExcessTypes, BoundFacts, Sizes
    <2> DEFINE l == Lost(u) * Bound(u)
    <2>5. Excess(u, a)' = Allowed(u, a, now)' - l /\ Excess(u, a) = Allowed(u, a, now) - l
      BY <1>1 DEF Excess
    <2> HIDE DEF l, more
    <2> QED BY <2>3, <2>4, <2>5 DEF l
  <1> QED BY <1>1, <1>2

LEMMA ExcessAfterReset ==
  ASSUME Types, NEW s \in StoreNames, granted' = [granted EXCEPT ![s] = None],
         now' = now, evicted' = evicted, callers' = callers, NEW u \in StoreNames
  PROVE  /\ Bound(u)' = Bound(u)
         /\ u = s => \A a \in 0..now : Excess(u, a)' <= 0 /\ Excess(u, a)' \in Int
         /\ u # s => \A a \in 0..now : Excess(u, a)' = Excess(u, a)
PROOF
  <1>1. Bound(u)' = Bound(u) /\ Lost(u)' = Lost(u)
    BY DEF Bound, Lost
  <1> DEFINE l == Lost(u) * Bound(u)
  <1>2. ASSUME NEW a \in 0..now
        PROVE  /\ u = s => Excess(u, a)' <= 0 /\ Excess(u, a)' \in Int
               /\ u # s => Excess(u, a)' = Excess(u, a)
    <2>1. now \in 0..now
      BY Numbers
    <2>2. \A x, y \in 0..now : Allowed(u, x, y)' = IF u = s THEN 0 ELSE Allowed(u, x, y)
      BY AllowedAfterReset
    <2>6. granted'[u][now] - (IF a = 0 THEN 0 ELSE granted'[u][a - 1]) = IF u = s THEN 0 ELSE Allowed(u, a, now)
      BY <2>1, <2>2 DEF Allowed
    <2>3. Allowed(u, a, now)' = IF u = s THEN 0 ELSE Allowed(u, a, now)
      BY <2>6 DEF Allowed
    <2>4. l \in Nat
      BY BoundFacts
    <2>5. Excess(u, a)' = Allowed(u, a, now)' - l /\ Excess(u, a) = Allowed(u, a, now) - l
      BY <1>1 DEF Excess
    <2> HIDE DEF l
    <2> QED BY <2>3, <2>4, <2>5
  <1> QED BY <1>1, <1>2

LEMMA ExcessAfterEvict ==
  ASSUME Types, Evict, NEW u \in StoreNames
  PROVE  /\ Bound(u)' = Bound(u)
         /\ \A a \in 0..now : Excess(u, a)' = Excess(u, a) - IF u = "memory" THEN Bound(u) ELSE 0
PROOF
  <1>1. granted' = granted /\ now' = now /\ callers' = callers /\ evicted' = evicted + 1
    BY DEF Evict, setup
  <1>2. Bound(u)' = Bound(u) /\ Lost(u)' = Lost(u) + IF u = "memory" THEN 1 ELSE 0
    BY <1>1, Numbers DEF Bound, Lost
  <1>3. ASSUME NEW a \in 0..now
        PROVE  Excess(u, a)' = Excess(u, a) - IF u = "memory" THEN Bound(u) ELSE 0
    <2> DEFINE n == Lost(u)
               m == IF u = "memory" THEN 1 ELSE 0
               B == Bound(u)
               x == Allowed(u, a, now)
    <2>1. Allowed(u, a, now)' = x /\ x \in Int
      BY <1>1, ExcessTypes DEF Allowed
    <2>2. n \in Nat /\ m \in Nat /\ B \in Nat
      BY BoundFacts
    <2>3. Excess(u, a)' = x - (n + m) * B /\ Excess(u, a) = x - n * B
      BY <1>2, <2>1 DEF Excess
    <2>4. m * B = IF u = "memory" THEN B ELSE 0
      BY <2>2, Times
    <2> HIDE DEF n, m, B, x
    <2>5. (n + m) * B = n * B + m * B /\ n * B \in Int /\ m * B \in Int
      BY <2>2, Times
    <2> QED BY <2>1, <2>3, <2>4, <2>5 DEF B
  <1> QED BY <1>2, <1>3

LEMMA ExcessAfterTick ==
  ASSUME Types, Steady, Tick, NEW u \in StoreNames
  PROVE  /\ Bound(u)' = Bound(u)
         /\ \A a \in 0..now : Excess(u, a)' = Excess(u, a)
         /\ \A a : a = now' => Excess(u, a)' <= 0 /\ Excess(u, a)' \in Int
PROOF
  <1>1. evicted' = evicted /\ callers' = callers /\ now' = now + 1 /\ now \in Nat
    BY Numbers DEF Tick, setup, bounds
  <1>2. Bound(u)' = Bound(u) /\ Lost(u)' = Lost(u)
    BY <1>1 DEF Bound, Lost
  <1>3. /\ \A a \in 0..now : Allowed(u, a, now)' = Allowed(u, a, now)
        /\ Allowed(u, now, now)' = 0
    BY AllowedAfterTick
  <1>4. Lost(u) * Bound(u) \in Nat
    BY BoundFacts
  <1> QED BY <1>2, <1>3, <1>4 DEF Excess, Allowed

-----------------------------------------------------------------------------

(* The count of the current window *)

\* What the windows before, and the evictions, do not account for.
Over(s, a) == Excess(s, a) - (Windows(a, now) - 1) * Bound(s)

Counted(st) == IF st.start = WindowStart(now) THEN st.count ELSE 0

CountsInMemory ==
  \/ algorithm = "fixed-window"
  \/ algorithm = "sliding-window-counter" /\ callers = 1

\* A waiting request may have read its count before those ahead of it write theirs.
MemoryCounts(a) ==
  CountsInMemory =>
    /\ Over("memory", a) <= Bound("memory")
    /\ memory = Nothing => Over("memory", a) <= 0
    /\ memory # Nothing =>
         /\ Over("memory", a) <= Counted(memory.state) * Factor
         /\ memory.state.start + Window <= memory.until \/ memory.state.count = 0
    /\ \A i \in 1..Len(waiting) :
         Over("memory", a) <= Counted(waiting[i].state) * Factor + (callers - i) * Heaviest

RedisCounts(a) ==
  algorithm \in {"fixed-window", "sliding-window-counter"} =>
    /\ Over("redis", a) <= Bound("redis")
    /\ redis = Nothing => Over("redis", a) <= 0
    /\ redis # Nothing =>
         /\ Over("redis", a) <= Counted(redis.state)
         /\ redis.state.start + Window <= redis.until + 1

LEMMA WindowsFacts ==
  ASSUME NEW b \in Nat, NEW a \in 0..b
  PROVE  Windows(a, b) - 1 \in Nat /\ Windows(a, b) \in Nat
PROOF
  <1> DEFINE p == a \div Window
             q == b \div Window
  <1>1. Window \in Nat \ {0} /\ a \in Nat /\ a <= b
    BY ConstantAssumption
  <1>2. p \in Int /\ p * Window <= a /\ q \in Int
    BY <1>1, Quotient
  <1> HIDE DEF p
  <1>3. p * Window <= b /\ p * Window \in Int
    BY <1>1, <1>2, Times
  <1>4. p <= q
    BY <1>1, <1>2, <1>3, QuotientIs
  <1>5. Windows(a, b) = 1 + q - p
    BY DEF Windows, p
  <1> HIDE DEF q
  <1> QED BY <1>2, <1>4, <1>5

LEMMA OverTypes ==
  ASSUME Types, NEW s \in StoreNames, NEW a \in 0..now
  PROVE  /\ Over(s, a) \in Int /\ (Windows(a, now) - 1) * Bound(s) \in Nat
         /\ Excess(s, a) \in Int
PROOF
  <1> DEFINE n == Windows(a, now) - 1
             B == Bound(s)
  <1>1. n \in Nat /\ B \in Nat /\ Excess(s, a) \in Int
    BY Numbers, WindowsFacts, BoundFacts, ExcessTypes
  <1>2. Over(s, a) = Excess(s, a) - n * B
    BY DEF Over
  <1> HIDE DEF n, B
  <1>3. n * B \in Nat
    BY <1>1
  <1> QED BY <1>1, <1>2, <1>3 DEF n, B

LEMMA OverMoves ==
  ASSUME Types, NEW s \in StoreNames, NEW a \in 0..now, now' = now, Bound(s)' = Bound(s),
         NEW d \in Int, Excess(s, a)' = Excess(s, a) + d
  PROVE  Over(s, a)' = Over(s, a) + d
PROOF
  <1> DEFINE n == (Windows(a, now) - 1) * Bound(s)
  <1>1. n \in Nat /\ Excess(s, a) \in Int
    BY OverTypes
  <1>2. Over(s, a)' = Excess(s, a)' - n /\ Over(s, a) = Excess(s, a) - n
    BY DEF Over, Windows
  <1> HIDE DEF n
  <1> QED BY <1>1, <1>2

\* A store that has just been reset, or has allowed nothing since the clock moved.
LEMMA OverNone ==
  ASSUME Types, NEW s \in StoreNames, now' \in Nat, NEW a \in 0..now', Bound(s)' = Bound(s),
         Excess(s, a)' <= 0, Excess(s, a)' \in Int
  PROVE  Over(s, a)' <= 0 /\ Over(s, a)' \in Int
PROOF
  <1> DEFINE n == Windows(a, now') - 1
             B == Bound(s)
  <1>1. n \in Nat /\ B \in Nat
    BY WindowsFacts, BoundFacts
  <1>2. Over(s, a)' = Excess(s, a)' - n * B
    BY DEF Over, Windows
  <1> HIDE DEF n, B
  <1>3. n * B \in Nat
    BY <1>1
  <1> QED BY <1>2, <1>3


LEMMA CountedTypes ==
  ASSUME Types, algorithm \in {"fixed-window", "sliding-window-counter"},
         NEW st \in States(algorithm, now)
  PROVE  /\ st.start \in Nat /\ st.count \in Nat /\ Counted(st) \in Nat
         /\ st.start # WindowStart(now) => Counted(st) = 0
         /\ st.start = WindowStart(now) => Counted(st) = st.count
PROOF
  <1>1. st \in [start : Nat, count : Nat] \/ st \in [start : Nat, count : Nat, prev : Nat]
    BY StatesAre
  <1>2. st.start \in Nat /\ st.count \in Nat
    BY <1>1
  <1> QED BY <1>2 DEF Counted

LEMMA WindowTypes ==
  ASSUME Types
  PROVE  /\ WindowStart(now) \in 0..now /\ now < WindowStart(now) + Window /\ Window \in Nat
         /\ now \in 0..MaxTime /\ now \in Nat
PROOF
  <1>1. now \in Nat /\ now <= MaxTime /\ MaxTime \in Nat
    BY Numbers
  <1>2. WindowStart(now) \in 0..now /\ now < WindowStart(now) + Window
    BY <1>1, WindowFacts
  <1> QED BY <1>1, <1>2, Sizes

\* The count that a request reads stands for what was allowed, and what is dropped for nothing.
LEMMA MemoryRead ==
  ASSUME Types, NEW a \in 0..now, MemoryCounts(a), CountsInMemory
  PROVE  /\ Over("memory", a) <= Counted(MemoryState) * Factor
         /\ ~Live(memory) => Over("memory", a) <= 0
PROOF
  <1>0. "memory" \in StoreNames /\ algorithm \in {"fixed-window", "sliding-window-counter"}
    BY DEF StoreNames, CountsInMemory
  <1>1. /\ WindowStart(now) \in Nat /\ now < WindowStart(now) + Window /\ Window \in Nat /\ now \in Nat
        /\ Over("memory", a) \in Int /\ Factor \in Nat
    BY <1>0, WindowTypes, OverTypes, BoundFacts
  <1>2. MemoryState \in States(algorithm, now) /\ Counted(MemoryState) \in Nat
    BY <1>0, StateTypes, CountedTypes
  <1>3. ~Live(memory) => Over("memory", a) <= 0
    <2>1. CASE memory = Nothing
      BY <2>1 DEF MemoryCounts
    <2>2. CASE memory # Nothing /\ ~Live(memory)
      <3>1. /\ memory.state \in States(algorithm, now) /\ memory.until \in Nat
            /\ ~(now <= memory.until)
        BY <2>2, EntryFacts DEF Types, Live
      <3>2. /\ Over("memory", a) <= Counted(memory.state) * Factor
            /\ memory.state.start + Window <= memory.until \/ memory.state.count = 0
        BY <2>2 DEF MemoryCounts
      <3>3. Counted(memory.state) = 0
        BY <1>0, <1>1, <3>1, <3>2, CountedTypes
      <3>4. 0 * Factor = 0
        BY <1>1, Times
      <3> QED BY <3>2, <3>3, <3>4
    <2> QED BY <2>1, <2>2 DEF Live
  <1>4. CASE Live(memory)
    BY <1>3, <1>4 DEF MemoryCounts, MemoryState, Live
  <1>5. CASE ~Live(memory)
    <2>1. 0 <= Counted(MemoryState) * Factor /\ Counted(MemoryState) * Factor \in Int
      BY <1>1, <1>2
    <2> HIDE DEF MemoryCounts
    <2> QED BY <1>1, <1>3, <1>5, <2>1
  <1> QED BY <1>3, <1>4, <1>5

\* The script, too.
LEMMA RedisRead ==
  ASSUME Types, NEW a \in 0..now, RedisCounts(a), algorithm \in {"fixed-window", "sliding-window-counter"}
  PROVE  Over("redis", a) <= Counted(RedisState)
PROOF
  <1>0. "redis" \in StoreNames
    BY DEF StoreNames
  <1>1. /\ WindowStart(now) \in Nat /\ now < WindowStart(now) + Window /\ Window \in Nat /\ now \in Nat
        /\ Over("redis", a) \in Int
    BY <1>0, WindowTypes, OverTypes
  <1>2. RedisState \in States(algorithm, now) /\ Counted(RedisState) \in Nat
    BY StateTypes, CountedTypes
  <1>3. ~Live(redis) => Over("redis", a) <= 0
    <2>1. CASE redis = Nothing
      BY <2>1 DEF RedisCounts
    <2>2. CASE redis # Nothing /\ ~Live(redis)
      <3>1. redis.state \in States(algorithm, now) /\ redis.until \in Nat /\ ~(now <= redis.until)
        BY <2>2, EntryFacts DEF Types, Live
      <3>2. Over("redis", a) <= Counted(redis.state) /\ redis.state.start + Window <= redis.until + 1
        BY <2>2 DEF RedisCounts
      <3>3. Counted(redis.state) = 0
        BY <1>1, <3>1, <3>2, CountedTypes
      <3> QED BY <3>2, <3>3
    <2> QED BY <2>1, <2>2 DEF Live
  <1>4. CASE Live(redis)
    BY <1>4 DEF RedisCounts, RedisState, Live
  <1>5. CASE ~Live(redis)
    BY <1>1, <1>2, <1>3, <1>5
  <1> QED BY <1>4, <1>5
\* What a class does to the count of the window.
LEMMA ConsumeCounts ==
  ASSUME Types, CountsInMemory, NEW w \in Weights, NEW st \in States(algorithm, now)
  PROVE  LET v == Consume(algorithm, st, w, now)
         IN  /\ Counted(v.state) = v.state.count
             /\ v.state.start + Window <= Kept(v).until \/ v.state.count = 0
             /\ v.state.count >= Counted(st) + IF v.allowed \/ callers > 1 THEN w ELSE 0
             /\ v.allowed => v.state.count <= Limit
PROOF
  <1> DEFINE v == Consume(algorithm, st, w, now)
  <1>1. /\ now \in Nat /\ w \in Nat /\ callers \in Nat /\ Limit \in Nat
        /\ algorithm \in {"fixed-window", "sliding-window-counter"} /\ "memory" \in StoreNames
    BY Numbers, Sizes DEF CountsInMemory, StoreNames
  <1>2. WindowStart(now) \in Nat /\ now < WindowStart(now) + Window /\ Window \in Nat
    BY <1>1, WindowTypes
  <1>3. v.state \in States(algorithm, now) /\ v.resetAt \in Int /\ v.allowed \in BOOLEAN
    BY <1>1, ConsumeTypes DEF Types
  <1>4. Kept(v).until = IF v.resetAt > now THEN v.resetAt ELSE now + 1
    BY <1>3, KeptFacts
  <1>5. v.state.count \in Nat /\ v.state.start \in Nat
    BY <1>1, <1>3, CountedTypes
  <1>6. st.start \in Nat /\ st.count \in Nat
    BY <1>1, CountedTypes
  <1>7. v.resetAt = WindowStart(now) + Window => Kept(v).until = WindowStart(now) + Window
    BY <1>2, <1>4
  <1>8. CASE algorithm = "fixed-window"
    <2>1. v = FixedWindow(st, w, now)
      BY <1>8 DEF Consume
    <2>2. /\ v.resetAt = WindowStart(now) + Window
          /\ v.state.start = WindowStart(now)
          /\ v.state.count = IF WindowStart(now) = st.start THEN st.count + w ELSE w
          /\ v.allowed <=> v.state.count <= Limit
      BY <1>1, <1>8, <2>1, FixedWindowFacts
    <2> HIDE DEF v
    <2>3. Counted(v.state) = v.state.count /\ v.state.count >= Counted(st) + w
      BY <1>1, <1>6, <2>2 DEF Counted
    <2>4. Counted(st) \in Nat
      BY <1>1, CountedTypes
    <2>5. v.state.start + Window <= Kept(v).until
      BY <1>2, <1>7, <2>2
    <2> QED BY <1>1, <1>5, <2>2, <2>3, <2>4, <2>5 DEF v
  <1>9. CASE algorithm = "sliding-window-counter"
    <2>1. v = SlidingCounter(st, w, now) /\ callers = 1
      BY <1>9 DEF Consume, CountsInMemory
    <2> DEFINE count == IF WindowStart(now) > st.start THEN 0 ELSE st.count
    <2>2. /\ v.allowed \/ count > 0 => v.resetAt = WindowStart(now) + Window
          /\ v.state.start = WindowStart(now)
          /\ v.state.count = IF v.allowed THEN count + w ELSE count
          /\ v.allowed => count + w <= Limit
      BY <1>1, <1>9, <2>1, SlidingCounterFacts
    <2>3. count \in Nat /\ count >= Counted(st)
      BY <1>2, <1>6 DEF Counted
    <2>4. Counted(st) \in Nat
      BY <1>1, CountedTypes
    <2> HIDE DEF v, count
    <2>5. Counted(v.state) = v.state.count
      BY <2>2 DEF Counted
    <2>6. v.state.start + Window <= Kept(v).until \/ v.state.count = 0
      BY <1>2, <1>3, <1>7, <2>2, <2>3
    <2>7. v.state.count >= Counted(st) + IF v.allowed \/ callers > 1 THEN w ELSE 0
      BY <1>1, <1>3, <2>1, <2>2, <2>3, <2>4
    <2> QED BY <1>3, <2>2, <2>5, <2>6, <2>7 DEF v
  <1> QED BY <1>1, <1>8, <1>9

\* What the script does to it.
LEMMA ScriptCounts ==
  ASSUME Types, algorithm \in {"fixed-window", "sliding-window-counter"}, NEW w \in Weights
  PROVE  /\ Counted(Script(w).state) = Counted(RedisState) + IF Script(w).allowed THEN w ELSE 0
         /\ Script(w).state.start + Window <= KeptInRedis(Script(w)).until + 1
         /\ Script(w).allowed => Counted(RedisState) < Limit
PROOF
  <1> DEFINE v == Script(w)
             st == RedisState
  <1>1. /\ now \in Nat /\ w \in Nat /\ "redis" \in StoreNames
        /\ st \in States(algorithm, now) /\ Counted(st) \in Nat /\ st.start \in Nat /\ st.count \in Nat
    BY Numbers, Sizes, StateTypes, CountedTypes DEF StoreNames
  <1>2. WindowStart(now) \in Nat /\ now < WindowStart(now) + Window /\ Window \in Nat
    BY <1>1, WindowTypes
  <1>3. v.resetAt \in Int /\ v.state \in States(algorithm, now) /\ v.allowed \in BOOLEAN
    BY ScriptTypes
  <1>4. KeptInRedis(v).until = IF v.resetAt > now THEN v.resetAt - 1 ELSE now
    BY <1>3, KeptFacts
  <1>5. /\ v.resetAt = WindowStart(now) + Window
        /\ v.state.start = WindowStart(now)
        /\ v.state.count = Counted(st) + IF v.allowed THEN w ELSE 0
        /\ v.allowed => Counted(st) < Limit
    <2> DEFINE count == IF WindowStart(now) = st.start THEN st.count ELSE 0
    <2>1. count = Counted(st)
      BY DEF Counted
    <2>2. CASE algorithm = "fixed-window"
      <3>1. v = LuaFixedWindow(st, w, now)
        BY <2>2 DEF Script, LuaConsume
      <3>2. /\ v.resetAt = WindowStart(now) + Window
            /\ v.state.start = WindowStart(now)
            /\ v.state.count = IF v.allowed THEN count + w ELSE count
            /\ v.allowed => count < Limit
        BY <1>1, <2>2, <3>1, LuaFixedWindowFacts
      <3> HIDE DEF v, st, count
      <3> QED BY <1>1, <2>1, <3>2
    <2>3. CASE algorithm = "sliding-window-counter"
      <3>1. v = LuaSlidingCounter(st, w, now)
        BY <2>3 DEF Script, LuaConsume
      <3>2. /\ v.resetAt = WindowStart(now) + Window
            /\ v.state.start = WindowStart(now)
            /\ v.state.count = IF v.allowed THEN count + w ELSE count
            /\ v.allowed => count < Limit
        BY <1>1, <2>3, <3>1, LuaSlidingCounterFacts
      <3> HIDE DEF v, st, count
      <3> QED BY <1>1, <2>1, <3>2
    <2> QED BY <2>2, <2>3
  <1> HIDE DEF v, st
  <1>6. Counted(v.state) = v.state.count
    BY <1>5 DEF Counted
  <1>7. v.state.start + Window <= KeptInRedis(v).until + 1
    BY <1>1, <1>2, <1>4, <1>5
  <1> QED BY <1>5, <1>6, <1>7 DEF v, st

LEMMA SameWindow ==
  ASSUME Types, now' = now
  PROVE  /\ WindowStart(now)' = WindowStart(now)
         /\ \A st : Counted(st)' = Counted(st)
         /\ callers' = callers => Factor' = Factor
PROOF
  BY DEF WindowStart, Counted, Factor

LEMMA MemoryCountsWriteBack ==
  ASSUME Types, NEW a \in 0..now, MemoryCounts(a), CountsInMemory, WriteBack
  PROVE  MemoryCounts(a)'
PROOF
  <1> DEFINE w == Head(waiting).weight
             st == Head(waiting).state
             v == Consume(algorithm, st, w, now)
             G == Over("memory", a)
             more == IF v.allowed THEN w ELSE 0
             c == v.state.count
  <1>1. /\ waiting # <<>> /\ memory' = Kept(v) /\ Grant("memory", w, v.allowed) /\ waiting' = Tail(waiting)
        /\ now' = now /\ algorithm' = algorithm /\ callers' = callers /\ evicted' = evicted
    BY DEF WriteBack, setup, bounds
  <1>2. /\ w \in Weights /\ st \in States(algorithm, now) /\ st = waiting[1].state
        /\ v.state \in States(algorithm, now) /\ v.resetAt \in Int /\ v.allowed \in BOOLEAN
        /\ Len(Tail(waiting)) = Len(waiting) - 1 /\ Len(waiting) >= 1
        /\ \A i \in 1..Len(Tail(waiting)) : Tail(waiting)[i] = waiting[i + 1]
    BY <1>1, HeadTypes
  <1>3. /\ "memory" \in StoreNames /\ algorithm \in {"fixed-window", "sliding-window-counter"}
        /\ callers \in Nat /\ callers >= 1 /\ Len(waiting) \in Nat /\ Len(waiting) <= callers
        /\ Limit \in Nat /\ w \in Nat /\ w >= 1 /\ w <= Heaviest
    <2>1. Len(waiting) \in Nat /\ Len(waiting) <= callers
      BY DEF Types
    <2>2. algorithm \in {"fixed-window", "sliding-window-counter"} /\ "memory" \in StoreNames
      BY DEF CountsInMemory, StoreNames
    <2> HIDE DEF w
    <2> QED BY <1>2, <2>1, <2>2, Numbers, Sizes, HeaviestIs
  <1>4. /\ Heaviest \in Nat /\ Heaviest >= 1 /\ Factor \in Nat /\ Factor >= 1
        /\ callers = 1 => Factor = 1
        /\ Factor = (callers - 1) * Heaviest + 1
        /\ Bound("memory") = Limit * Factor /\ Bound("memory") \in Nat
    BY <1>3, BoundFacts DEF Factor
  <1>5. /\ Counted(v.state) = c
        /\ v.state.start + Window <= Kept(v).until \/ c = 0
        /\ c >= Counted(st) + IF v.allowed \/ callers > 1 THEN w ELSE 0
        /\ v.allowed => c <= Limit
    BY <1>2, ConsumeCounts
  <1>6. c \in Nat /\ Counted(st) \in Nat
    BY <1>2, <1>3, CountedTypes
  <1>7. G' = G + more /\ G \in Int /\ more \in Nat /\ more <= Heaviest
    <2>1. Bound("memory")' = Bound("memory")
          /\ Excess("memory", a)' = Excess("memory", a) + IF v.allowed /\ "memory" = "memory" THEN w ELSE 0
      BY <1>1, <1>2, <1>3, ExcessAfterGrant
    <2>2. G \in Int
      BY <1>3, OverTypes
    <2>3. more \in Int /\ Excess("memory", a)' = Excess("memory", a) + more
      BY <1>3, <2>1
    <2> HIDE DEF more
    <2>4. G' = G + more
      BY <1>1, <1>3, <2>1, <2>3, OverMoves
    <2> HIDE DEF G, v, w
    <2> QED BY <1>3, <1>4, <2>2, <2>4 DEF more
  <1>8. Factor' = Factor /\ \A x : Counted(x)' = Counted(x)
    BY <1>1, SameWindow
  <1>9. Kept(v).state = v.state /\ Kept(v) # Nothing
    BY <1>2, KeptFacts
  <1>10. G <= Counted(st) * Factor + (callers - 1) * Heaviest
    <2>1. 1 \in 1..Len(waiting)
      BY <1>2, <1>3
    <2> QED BY <1>2, <2>1 DEF MemoryCounts
  <1>11. G + more <= c * Factor
    <2> HIDE DEF G, more, v, w, st, c
    <2>1. CASE callers = 1
      <3>1. (callers - 1) * Heaviest = 0 /\ Counted(st) * Factor = Counted(st) /\ c * Factor = c
        BY <1>4, <1>6, <2>1
      <3>2. c >= Counted(st) + more
        BY <1>3, <1>5, <2>1 DEF more
      <3> QED BY <1>6, <1>7, <1>10, <3>1, <3>2
    <2>2. CASE callers > 1
      <3> DEFINE K == (callers - 1) * Heaviest
      <3>1. Counted(st) + w <= c
        BY <1>3, <1>5, <1>6, <2>2
      <3>2. (Counted(st) + w) * Factor <= c * Factor
        <4> DEFINE x == Counted(st) + w
        <4>1. x \in Int /\ c \in Int /\ x <= c /\ Factor \in Nat
          BY <1>3, <1>4, <1>6, <3>1
        <4> HIDE DEF x
        <4> QED BY <4>1, TimesGrows DEF x
      <3>3. (Counted(st) + w) * Factor = Counted(st) * Factor + w * Factor
        BY <1>3, <1>4, <1>6, Times
      <3>4. K \in Nat /\ Factor = K + 1
        <4>1. callers - 1 \in Nat
          BY <1>3
        <4> QED BY <1>4, <4>1
      <3> HIDE DEF K
      <3>5. w * Factor >= K + w
        <4>1. (K + 1) * w = K * w + 1 * w /\ 1 * w = w /\ 1 * K = K /\ K * w \in Int
          BY <1>3, <3>4, Times
        <4>2. 1 * K <= w * K
          BY <1>3, <3>4, TimesGrows
        <4>3. w * K = K * w /\ w * Factor = (K + 1) * w
          BY <1>3, <3>4
        <4> QED BY <1>3, <3>4, <4>1, <4>2, <4>3
      <3>6. Counted(st) * Factor \in Int /\ c * Factor \in Int /\ w * Factor \in Int /\ (Counted(st) + w) * Factor \in Int
        BY <1>3, <1>4, <1>6, Times
      <3>7. G <= Counted(st) * Factor + K /\ more <= w
        BY <1>3, <1>10 DEF K, more
      <3> QED BY <1>3, <1>7, <3>2, <3>3, <3>4, <3>5, <3>6, <3>7
    <2> QED BY <1>3, <2>1, <2>2
  <1>12. G' <= Bound("memory") \/ G' = G
    <2> HIDE DEF G, c, v, w, st
    <2>1. CASE v.allowed
      <3>1. c * Factor <= Limit * Factor
        BY <1>3, <1>4, <1>5, <1>6, <2>1, TimesGrows
      <3>2. c * Factor \in Int /\ Limit * Factor \in Int
        BY <1>3, <1>4, <1>6, Times
      <3> QED BY <1>4, <1>7, <1>11, <3>1, <3>2
    <2>2. CASE ~v.allowed
      BY <1>7, <2>2 DEF more
    <2> QED BY <2>1, <2>2
  <1>13. ASSUME NEW i \in 1..Len(waiting')
         PROVE  G' <= Counted(waiting'[i].state) * Factor + (callers - i) * Heaviest
    <2> DEFINE ci == Counted(waiting[i + 1].state)
    <2>1. i + 1 \in 1..Len(waiting) /\ waiting'[i] = waiting[i + 1] /\ i \in Nat /\ i <= Len(waiting) - 1
      BY <1>1, <1>2, <1>3
    <2>2. G <= ci * Factor + (callers - (i + 1)) * Heaviest
      BY <2>1 DEF MemoryCounts
    <2>3. (callers - (i + 1)) * Heaviest = (callers - i) * Heaviest - Heaviest
      <3> DEFINE k == callers - i
      <3>1. k \in Int /\ callers - (i + 1) = k - 1
        BY <1>3, <2>1
      <3> HIDE DEF k
      <3>2. (k - 1) * Heaviest = k * Heaviest - Heaviest
        BY <1>4, <3>1, Times
      <3> QED BY <3>1, <3>2 DEF k
    <2>4. ci \in Nat
      <3>1. waiting[i + 1] \in [weight : Weights, state : States(algorithm, now)]
        <4> DEFINE R == [weight : Weights, state : States(algorithm, now)]
        <4>1. waiting \in Seq(R)
          BY DEF Types
        <4> HIDE DEF R
        <4>2. waiting[i + 1] \in R
          BY <2>1, <4>1
        <4> QED BY <4>2 DEF R
      <3>2. waiting[i + 1].state \in States(algorithm, now)
        BY <3>1
      <3> QED BY <1>3, <3>2, CountedTypes
    <2>5. ci * Factor \in Int /\ (callers - i) * Heaviest \in Int
      <3>1. callers - i \in Int
        BY <1>3, <2>1
      <3> HIDE DEF ci
      <3> QED BY <1>4, <2>4, <3>1, Times
    <2>6. G' <= ci * Factor + (callers - i) * Heaviest
      <3> HIDE DEF G, ci, more
      <3> QED BY <1>4, <1>7, <2>2, <2>3, <2>5
    <2> QED BY <2>1, <2>6
  <1>14. MemoryCounts(a)'
    <2>1. memory' # Nothing /\ memory'.state = v.state /\ memory'.until = Kept(v).until
      BY <1>1, <1>9
    <2>4. G' <= Bound("memory") /\ Bound("memory")' = Bound("memory")
      <3>1. G <= Bound("memory")
        BY DEF MemoryCounts
      <3> QED BY <1>1, <1>12, <3>1 DEF Bound
    <2>2. G' <= Counted(memory'.state) * Factor
      <3> HIDE DEF G, v, c, more
      <3> QED BY <1>5, <1>7, <1>11, <2>1
    <2>3. memory'.state.start + Window <= memory'.until \/ memory'.state.count = 0
      BY <1>5, <2>1
    <2> HIDE DEF v, w, st, c
    <2> QED BY <1>1, <1>8, <1>13, <2>1, <2>2, <2>3, <2>4 DEF MemoryCounts
  <1> QED BY <1>14

\* The next time is in the same window, or the first of the next.
LEMMA NextWindow ==
  ASSUME NEW t \in Nat
  PROVE  \/ WindowStart(t + 1) = WindowStart(t) /\ (t + 1) \div Window = t \div Window
         \/ (t + 1) \div Window = (t \div Window) + 1
PROOF
  <1> DEFINE q == t \div Window
  <1>1. Window \in Nat \ {0} /\ t + 1 \in Nat
    BY ConstantAssumption
  <1>2. q \in Int /\ WindowStart(t) = q * Window /\ WindowStart(t) <= t /\ t < WindowStart(t) + Window
        /\ WindowStart(t) \in Nat
    BY <1>1, Quotient, WindowFacts DEF WindowStart
  <1>3. CASE t + 1 < WindowStart(t) + Window
    <2> HIDE DEF q
    <2>1. q * Window <= t + 1 /\ t + 1 < q * Window + Window /\ t + 1 \in Int
      BY <1>1, <1>2, <1>3
    <2>2. q = (t + 1) \div Window
      BY <1>1, <1>2, <2>1, QuotientIs
    <2> QED BY <1>2, <2>2 DEF WindowStart, q
  <1>4. CASE ~(t + 1 < WindowStart(t) + Window)
    <2>1. t + 1 = WindowStart(t) + Window
      BY <1>1, <1>2, <1>4
    <2>2. (q + 1) * Window = q * Window + Window /\ q + 1 \in Int
      BY <1>1, <1>2, Times
    <2> HIDE DEF q
    <2>3. (q + 1) * Window = t + 1
      BY <1>2, <2>1, <2>2
    <2>4. q + 1 = (t + 1) \div Window
      BY <1>1, <2>2, <2>3, QuotientIs
    <2> QED BY <2>4 DEF q
  <1> QED BY <1>3, <1>4

LEMMA OverAfterTick ==
  ASSUME Types, Steady, Tick, NEW u \in StoreNames, NEW a \in 0..now
  PROVE  /\ Bound(u)' = Bound(u)
         /\ \/ /\ Over(u, a)' = Over(u, a)
               /\ \A st : Counted(st)' = Counted(st)
            \/ Over(u, a)' = Over(u, a) - Bound(u)
PROOF
  <1> DEFINE q == now \div Window
             p == a \div Window
             B == Bound(u)
  <1>1. now' = now + 1 /\ now \in Nat /\ Window \in Nat \ {0}
    BY Numbers, ConstantAssumption DEF Tick
  <1>2. Bound(u)' = Bound(u) /\ Excess(u, a)' = Excess(u, a) /\ Excess(u, a) \in Int /\ B \in Nat
    BY ExcessAfterTick, ExcessTypes, BoundFacts
  <1>3. p \in Int /\ q \in Int
    BY <1>1, Quotient
  <1>4. /\ Over(u, a) = Excess(u, a) - ((1 + q - p) - 1) * B
        /\ Over(u, a)' = Excess(u, a) - ((1 + ((now + 1) \div Window) - p) - 1) * B
    BY <1>1, <1>2 DEF Over, Windows
  <1>5. CASE WindowStart(now + 1) = WindowStart(now) /\ (now + 1) \div Window = q
    <2>1. Over(u, a)' = Over(u, a)
      BY <1>4, <1>5
    <2>2. \A st : Counted(st)' = Counted(st)
      BY <1>1, <1>5 DEF Counted, WindowStart
    <2> QED BY <1>2, <2>1, <2>2
  <1>6. CASE (now + 1) \div Window = q + 1
    <2> DEFINE n == (1 + q - p) - 1
    <2>1. n \in Int /\ (1 + (q + 1) - p) - 1 = n + 1
      BY <1>3
    <2> HIDE DEF n
    <2>2. (n + 1) * B = n * B + 1 * B /\ 1 * B = B /\ n * B \in Int
      BY <1>2, <2>1, Times
    <2>3. Over(u, a) = Excess(u, a) - n * B /\ Over(u, a)' = Excess(u, a) - (n + 1) * B
      BY <1>4, <1>6, <2>1 DEF n
    <2> HIDE DEF B
    <2>4. Over(u, a)' = Over(u, a) - B
      BY <1>2, <2>2, <2>3
    <2> QED BY <1>2, <2>4 DEF B
  <1> QED BY <1>1, <1>5, <1>6, NextWindow

LEMMA EntryCounts ==
  ASSUME Types, algorithm \in {"fixed-window", "sliding-window-counter"}
  PROVE  /\ memory # Nothing => memory.state.count \in Nat
         /\ redis # Nothing => redis.state.count \in Nat
         /\ \A i \in 1..Len(waiting) : waiting[i].state.count \in Nat /\ i \in Nat /\ i <= callers
PROOF
  <1>1. memory # Nothing => memory.state.count \in Nat
    BY EntryFacts, CountedTypes DEF Types
  <1>2. redis # Nothing => redis.state.count \in Nat
    BY EntryFacts, CountedTypes DEF Types
  <1>3. ASSUME NEW i \in 1..Len(waiting)
        PROVE  waiting[i].state.count \in Nat /\ i \in Nat /\ i <= callers
    <2> DEFINE R == [weight : Weights, state : States(algorithm, now)]
    <2>1. waiting \in Seq(R) /\ Len(waiting) <= callers /\ callers \in Nat
      BY Numbers DEF Types
    <2> HIDE DEF R
    <2>2. waiting[i] \in R /\ i \in Nat /\ i <= callers
      BY <2>1
    <2>3. waiting[i].state \in States(algorithm, now)
      BY <2>2 DEF R
    <2> QED BY <2>2, <2>3, CountedTypes
  <1> QED BY <1>1, <1>2, <1>3


\* A clock that moves on leaves the counts of what nothing is allowed of.
LEMMA MemoryCountsFirst ==
  ASSUME Types, CountsInMemory, Tick, NEW a, Over("memory", a)' <= 0, Over("memory", a)' \in Int,
         memory # Nothing => memory.state.start + Window <= memory.until \/ memory.state.count = 0
  PROVE  MemoryCounts(a)'
PROOF
  <1>1. memory' = memory /\ waiting' = waiting /\ waiting = <<>> /\ callers' = callers
    BY DEF Tick, setup
  <1>2. \A i : i \notin 1..Len(waiting')
    BY <1>1
  <1>3. /\ algorithm \in {"fixed-window", "sliding-window-counter"} /\ "memory" \in StoreNames
        /\ Factor' = Factor /\ Factor \in Nat /\ Bound("memory")' = Bound("memory")
    BY <1>1, BoundFacts DEF Factor, Bound, CountsInMemory, StoreNames
  <1>4. Bound("memory") \in Nat
    BY <1>3, BoundFacts
  <1>5. memory # Nothing => Over("memory", a)' <= (Counted(memory.state) * Factor)'
    <2>1. SUFFICES ASSUME memory # Nothing
                   PROVE  Over("memory", a)' <= (Counted(memory.state) * Factor)'
      OBVIOUS
    <2>2. memory.state.count \in Nat
      BY <1>3, <2>1, EntryCounts
    <2>3. Counted(memory.state)' \in Nat
      BY <1>1, <2>2 DEF Counted
    <2> DEFINE c == Counted(memory.state)'
               g == Over("memory", a)'
    <2>4. c \in Nat /\ g \in Int /\ g <= 0
      BY <2>3
    <2> HIDE DEF c, g
    <2>5. c * Factor \in Nat
      BY <1>3, <2>4
    <2>6. g <= c * Factor
      BY <2>4, <2>5
    <2> QED BY <1>3, <2>6 DEF c, g
  <1>6. Over("memory", a)' <= Bound("memory")'
    <2> DEFINE g == Over("memory", a)'
    <2>1. g <= 0 /\ g \in Int
      OBVIOUS
    <2> HIDE DEF g
    <2>2. g <= Bound("memory")
      BY <1>4, <2>1
    <2> QED BY <1>3, <2>2 DEF g
  <1> QED BY <1>1, <1>2, <1>5, <1>6 DEF MemoryCounts

LEMMA MemoryCountsStep ==
  ASSUME Types, Steady, NEW a \in 0..now, MemoryCounts(a), [Next]_vars
  PROVE  MemoryCounts(a)'
PROOF
  <1>1. algorithm' = algorithm /\ callers' = callers
    BY DEF Next, vars, setup, ConsumeFromMemory, ConsumeFromRedis, RedisFails, WriteBack, Reset, Evict, Tick
  <1>2. SUFFICES ASSUME CountsInMemory
                 PROVE  MemoryCounts(a)'
    BY <1>1 DEF MemoryCounts, CountsInMemory
  <1>3. /\ "memory" \in StoreNames /\ "redis" \in StoreNames
        /\ algorithm \in {"fixed-window", "sliding-window-counter"}
        /\ Over("memory", a) \in Int /\ Over("memory", a) <= Bound("memory") /\ Bound("memory") \in Nat
    <2>1. "memory" \in StoreNames /\ "redis" \in StoreNames
      BY DEF StoreNames
    <2>2. Over("memory", a) <= Bound("memory")
      BY <1>2 DEF MemoryCounts
    <2> QED BY <1>2, <2>1, <2>2, OverTypes, BoundFacts DEF CountsInMemory
  <1>4. ASSUME now' = now, memory' = memory, waiting' = waiting, Over("memory", a)' = Over("memory", a)
        PROVE  MemoryCounts(a)'
    <2>1. Factor' = Factor /\ \A x : Counted(x)' = Counted(x)
      BY <1>1, <1>4, SameWindow
    <2>2. Bound("memory")' = Bound("memory")
      BY <1>1 DEF Bound
    <2> QED BY <1>1, <1>2, <1>4, <2>1, <2>2 DEF MemoryCounts
  <1>5. ASSUME granted' = granted, now' = now, evicted' = evicted
        PROVE  Over("memory", a)' = Over("memory", a) /\ Bound("memory")' = Bound("memory")
    <2>1. Bound("memory")' = Bound("memory") /\ Excess("memory", a)' = Excess("memory", a)
      BY <1>1, <1>3, <1>5, ExcessStays
    <2> QED BY <1>5, <2>1 DEF Over, Windows
  <1>6. ASSUME NEW w \in Weights, ReadMemory(w), granted' = granted, now' = now, evicted' = evicted
        PROVE  MemoryCounts(a)'
    <2>1. Factor' = Factor /\ \A x : Counted(x)' = Counted(x)
      BY <1>1, <1>6, SameWindow
    <2>2. Over("memory", a)' = Over("memory", a) /\ Bound("memory")' = Bound("memory")
      BY <1>5, <1>6
    <2>3. /\ Len(waiting') = Len(waiting) + 1 /\ Len(waiting') <= callers
          /\ \A i \in 1..Len(waiting') :
               waiting'[i] = IF i <= Len(waiting) THEN waiting[i] ELSE [weight |-> w, state |-> MemoryState]
          /\ memory' = IF Live(memory) THEN memory ELSE Nothing
      BY <1>6, ReadMemoryTypes
    <2>4. /\ Over("memory", a) <= Counted(MemoryState) * Factor
          /\ ~Live(memory) => Over("memory", a) <= 0
      BY <1>2, MemoryRead
    <2>5. ASSUME NEW i \in 1..Len(waiting')
          PROVE  Over("memory", a) <= Counted(waiting'[i].state) * Factor + (callers - i) * Heaviest
      <3>1. Len(waiting) \in Nat /\ callers \in Nat
        BY Numbers DEF Types
      <3>2. CASE i <= Len(waiting)
        <4>1. i \in 1..Len(waiting) /\ waiting'[i] = waiting[i]
          BY <2>3, <3>1, <3>2
        <4> QED BY <1>2, <4>1 DEF MemoryCounts
      <3>3. CASE ~(i <= Len(waiting))
        <4>1. waiting'[i].state = MemoryState /\ i \in Nat /\ i <= callers
          BY <2>3, <3>1, <3>3
        <4>2. MemoryState \in States(algorithm, now)
          BY StateTypes
        <4>3. /\ Counted(MemoryState) \in Nat /\ Factor \in Nat /\ Heaviest \in Nat
              /\ Over("memory", a) \in Int /\ callers - i \in Nat
          BY <1>3, <3>1, <4>1, <4>2, CountedTypes, BoundFacts
        <4>4. Counted(MemoryState) * Factor \in Int /\ (callers - i) * Heaviest \in Nat
          BY <4>3
        <4> QED BY <2>4, <4>1, <4>3, <4>4
      <3> QED BY <3>2, <3>3
    <2>6. memory' = Nothing => Over("memory", a) <= 0
      BY <1>2, <2>3, <2>4 DEF MemoryCounts
    <2>7. memory' # Nothing => memory' = memory
      BY <2>3
    <2> QED BY <1>1, <1>2, <1>3, <2>1, <2>2, <2>5, <2>6, <2>7 DEF MemoryCounts
  <1>7. ASSUME NEW w \in Weights, ConsumeFromMemory(w)
        PROVE  MemoryCounts(a)'
    BY <1>6, <1>7 DEF ConsumeFromMemory
  <1>8. ASSUME NEW w \in Weights, ConsumeFromRedis(w)
        PROVE  MemoryCounts(a)'
    <2>1. /\ Grant("redis", w, Script(w).allowed) /\ now' = now /\ memory' = memory /\ waiting' = waiting
          /\ evicted' = evicted
      BY <1>8 DEF ConsumeFromRedis
    <2>2. /\ Bound("memory")' = Bound("memory")
          /\ Excess("memory", a)' = Excess("memory", a) + IF Script(w).allowed /\ "memory" = "redis" THEN w ELSE 0
      BY <1>1, <1>3, <2>1, ScriptTypes, ExcessAfterGrant
    <2>3. Over("memory", a)' = Over("memory", a) + 0
      BY <1>3, <2>1, <2>2, OverMoves
    <2> QED BY <1>3, <1>4, <2>1, <2>3
  <1>9. ASSUME NEW w \in Weights, RedisFails(w)
        PROVE  MemoryCounts(a)'
    BY <1>4, <1>5, <1>6, <1>9 DEF RedisFails
  <1>10. CASE WriteBack
    BY <1>2, <1>10, MemoryCountsWriteBack
  <1>11. CASE Reset
    <2>1. now' = now /\ waiting' = waiting /\ evicted' = evicted
      BY <1>11 DEF Reset
    <2>2. CASE memory' = Nothing /\ granted' = [granted EXCEPT !["memory"] = None]
      <3>1. Over("memory", a)' <= 0 /\ Over("memory", a)' \in Int /\ Bound("memory")' = Bound("memory")
        <4>1. /\ Bound("memory")' = Bound("memory")
              /\ Excess("memory", a)' <= 0 /\ Excess("memory", a)' \in Int
          BY <1>1, <1>3, <2>1, <2>2, ExcessAfterReset
        <4> QED BY <1>3, <2>1, <4>1, Numbers, OverNone
      <3>2. Factor' = Factor /\ \A x : Counted(x)' = Counted(x)
        BY <1>1, <2>1, SameWindow
      <3>3. ASSUME NEW i \in 1..Len(waiting)
            PROVE  0 <= Counted(waiting[i].state) * Factor + (callers - i) * Heaviest
        <4> DEFINE st == waiting[i].state
        <4>1. st.count \in Nat /\ i \in Nat /\ i <= callers
          BY <1>3, EntryCounts
        <4>2. Counted(st) \in Nat
          BY <4>1 DEF Counted
        <4>5. callers - i \in Nat
          BY <4>1, Numbers
        <4>3. Factor \in Nat /\ Heaviest \in Nat /\ callers - i \in Nat
          BY <4>5, BoundFacts
        <4> HIDE DEF st
        <4>4. Counted(st) * Factor \in Nat /\ (callers - i) * Heaviest \in Nat
          BY <4>2, <4>3
        <4> QED BY <4>4 DEF st
      <3> DEFINE g == Over("memory", a)'
      <3>4. g <= 0 /\ g \in Int
        BY <3>1
      <3> HIDE DEF g
      <3>5. ASSUME NEW i \in 1..Len(waiting)
            PROVE  g <= Counted(waiting[i].state) * Factor + (callers - i) * Heaviest
        <4> DEFINE x == Counted(waiting[i].state) * Factor
                   y == (callers - i) * Heaviest
        <4>1. 0 <= x + y
          BY <3>3
        <4>2. x + y \in Int
          <5>1. waiting[i].state.count \in Nat /\ i \in Nat /\ i <= callers /\ callers \in Nat
            BY <1>3, EntryCounts, Numbers
          <5>2. Counted(waiting[i].state) \in Nat /\ callers - i \in Int
            BY <5>1 DEF Counted
          <5>3. x \in Int /\ y \in Int
            BY <5>2, BoundFacts, Times
          <5> HIDE DEF x, y
          <5> QED BY <5>3
        <4> HIDE DEF x, y
        <4>3. g <= x + y
          BY <3>4, <4>1, <4>2
        <4> QED BY <4>3 DEF x, y
      <3>6. g <= Bound("memory")
        BY <1>3, <3>4
      <3> QED BY <1>1, <2>1, <2>2, <3>1, <3>2, <3>5, <3>6 DEF MemoryCounts, g
    <2>3. CASE memory' = memory /\ granted' = [granted EXCEPT !["redis"] = None]
      <3>1. Over("memory", a)' = Over("memory", a) + 0
        <4>2. /\ Bound("memory")' = Bound("memory")
              /\ Excess("memory", a)' = Excess("memory", a)
          BY <1>1, <1>3, <2>1, <2>3, ExcessAfterReset
        <4>3. Excess("memory", a) \in Int
          BY <1>3, ExcessTypes
        <4>1. /\ Bound("memory")' = Bound("memory")
              /\ Excess("memory", a)' = Excess("memory", a) + 0
          BY <4>2, <4>3
        <4> QED BY <1>3, <2>1, <4>1, OverMoves
      <3> QED BY <1>3, <1>4, <2>1, <2>3, <3>1
    <2> QED BY <1>11, <2>2, <2>3 DEF Reset
  <1>14. CASE Evict
    <2>1. memory' = Nothing /\ now' = now /\ waiting' = waiting
      BY <1>14 DEF Evict
    <2>2. Over("memory", a)' = Over("memory", a) + (0 - Bound("memory")) /\ Bound("memory")' = Bound("memory")
      <3>1. /\ Bound("memory")' = Bound("memory")
            /\ Excess("memory", a)' = Excess("memory", a) + (0 - Bound("memory"))
        BY <1>3, <1>14, ExcessTypes, ExcessAfterEvict
      <3>2. 0 - Bound("memory") \in Int
        BY <1>3
      <3> QED BY <1>3, <2>1, <3>1, <3>2, OverMoves
    <2>3. Factor' = Factor /\ \A x : Counted(x)' = Counted(x)
      BY <1>1, <2>1, SameWindow
    <2> DEFINE g == Over("memory", a)'
    <2>4. g <= 0 /\ g <= Bound("memory") /\ g <= Over("memory", a) /\ g \in Int
      BY <1>3, <2>2
    <2> HIDE DEF g
    <2>5. ASSUME NEW i \in 1..Len(waiting)
          PROVE  g <= Counted(waiting[i].state) * Factor + (callers - i) * Heaviest
      <3> DEFINE x == Counted(waiting[i].state) * Factor
                 y == (callers - i) * Heaviest
      <3>1. Over("memory", a) <= x + y
        BY <1>2 DEF MemoryCounts
      <3>2. x + y \in Int
        <4>1. waiting[i].state.count \in Nat /\ i \in Nat /\ i <= callers /\ callers \in Nat
          BY <1>3, EntryCounts, Numbers
        <4>2. Counted(waiting[i].state) \in Nat /\ callers - i \in Int
          BY <4>1 DEF Counted
        <4>3. x \in Int /\ y \in Int
          BY <4>2, BoundFacts, Times
        <4> HIDE DEF x, y
        <4> QED BY <4>3
      <3> HIDE DEF x, y
      <3>3. g <= x + y
        BY <1>3, <2>4, <3>1, <3>2
      <3> QED BY <3>3 DEF x, y
    <2> QED BY <1>1, <2>1, <2>2, <2>3, <2>4, <2>5 DEF MemoryCounts, g
  <1>12. CASE Tick
    <2>1. memory' = memory /\ waiting' = waiting /\ waiting = <<>> /\ now' = now + 1
      BY <1>12 DEF Tick
    <2>2. \A i : i \notin 1..Len(waiting')
      BY <2>1
    <2>3. Factor' = Factor /\ Factor \in Nat
      BY <1>1, BoundFacts DEF Factor
    <2>7. Bound("memory")' = Bound("memory")
      BY <1>1 DEF Bound
    <2>4. CASE Over("memory", a)' = Over("memory", a) /\ \A st : Counted(st)' = Counted(st)
      BY <1>1, <1>2, <1>3, <2>1, <2>2, <2>3, <2>4, <2>7 DEF MemoryCounts
    <2>5. CASE Over("memory", a)' = Over("memory", a) - Bound("memory")
      <3>1. Over("memory", a)' <= 0 /\ Over("memory", a)' \in Int
        BY <1>3, <2>5
      <3>2. memory # Nothing => memory.state.start + Window <= memory.until \/ memory.state.count = 0
        BY <1>2 DEF MemoryCounts
      <3> QED BY <1>2, <1>12, <3>1, <3>2, MemoryCountsFirst
    <2> QED BY <1>3, <1>12, <2>4, <2>5, OverAfterTick
  <1>13. CASE UNCHANGED vars
    BY <1>4, <1>5, <1>13 DEF vars, bounds
  <1> QED BY <1>7, <1>8, <1>9, <1>10, <1>11, <1>12, <1>13, <1>14 DEF Next

LEMMA RedisCountsFirst ==
  ASSUME Types, algorithm \in {"fixed-window", "sliding-window-counter"}, Tick, NEW a,
         Over("redis", a)' <= 0, Over("redis", a)' \in Int,
         redis # Nothing => redis.state.start + Window <= redis.until + 1
  PROVE  RedisCounts(a)'
PROOF
  <1>1. redis' = redis /\ Bound("redis")' = Bound("redis") /\ Bound("redis") \in Nat
    BY BoundFacts DEF Tick, Bound, StoreNames
  <1> DEFINE g == Over("redis", a)'
  <1>2. g \in Int /\ g <= 0
    OBVIOUS
  <1> HIDE DEF g
  <1>3. redis # Nothing => g <= Counted(redis.state)'
    <2>1. redis # Nothing => redis.state.count \in Nat
      BY EntryCounts
    <2>2. redis # Nothing => Counted(redis.state)' \in Nat
      BY <1>1, <2>1 DEF Counted
    <2> QED BY <1>2, <2>2
  <1>4. g <= Bound("redis")
    BY <1>1, <1>2
  <1> QED BY <1>1, <1>2, <1>3, <1>4 DEF RedisCounts, g

LEMMA RedisCountsStep ==
  ASSUME Types, Steady, NEW a \in 0..now, RedisCounts(a), [Next]_vars
  PROVE  RedisCounts(a)'
PROOF
  <1>1. algorithm' = algorithm
    BY DEF Next, vars, setup, ConsumeFromMemory, ConsumeFromRedis, RedisFails, WriteBack, Reset, Evict, Tick
  <1>2. SUFFICES ASSUME algorithm \in {"fixed-window", "sliding-window-counter"}
                 PROVE  RedisCounts(a)'
    BY <1>1 DEF RedisCounts
  <1>3. /\ "memory" \in StoreNames /\ "redis" \in StoreNames
        /\ Over("redis", a) \in Int /\ Over("redis", a) <= Bound("redis")
        /\ Bound("redis") = Limit + (Heaviest - 1) /\ Limit \in Nat /\ Heaviest \in Nat /\ Bound("redis") \in Nat
    <2>1. "memory" \in StoreNames /\ "redis" \in StoreNames
      BY DEF StoreNames
    <2>2. Over("redis", a) <= Bound("redis")
      BY <1>2 DEF RedisCounts
    <2> QED BY <2>1, <2>2, OverTypes, BoundFacts
  <1>14. Bound("redis")' = Bound("redis")
    BY DEF Bound
  <1>4. ASSUME now' = now, redis' = redis, Over("redis", a)' = Over("redis", a)
        PROVE  RedisCounts(a)'
    <2>1. \A x : Counted(x)' = Counted(x)
      BY <1>4, SameWindow
    <2> QED BY <1>1, <1>2, <1>4, <1>14, <2>1 DEF RedisCounts
  <1>5. ASSUME granted' = granted, now' = now
        PROVE  Over("redis", a)' = Over("redis", a)
    BY <1>5, <1>14 DEF Over, Excess, Lost, Allowed, Windows
  <1>6. ASSUME NEW w \in Weights, redis' = KeptInRedis(Script(w)), now' = now,
               NEW more \in Nat, Over("redis", a)' = Over("redis", a) + more,
               Script(w).allowed \/ more = 0, more <= w
        PROVE  RedisCounts(a)'
    <2>1. \A x : Counted(x)' = Counted(x)
      BY <1>6, SameWindow
    <2>2. /\ Counted(Script(w).state) = Counted(RedisState) + IF Script(w).allowed THEN w ELSE 0
          /\ Script(w).state.start + Window <= KeptInRedis(Script(w)).until + 1
          /\ Script(w).allowed => Counted(RedisState) < Limit
      BY <1>2, ScriptCounts
    <2>3. redis' # Nothing /\ redis'.state = Script(w).state
      BY <1>6, ScriptTypes, KeptFacts
    <2>4. Over("redis", a) <= Counted(RedisState)
      BY <1>2, RedisRead
    <2>5. Over("redis", a) \in Int /\ Counted(RedisState) \in Nat /\ w \in Nat /\ w <= Heaviest
      BY <1>2, <1>3, StateTypes, CountedTypes, Sizes, HeaviestIs
    <2>6. Over("redis", a)' <= Counted(redis'.state)
      BY <1>6, <2>2, <2>3, <2>4, <2>5
    <2>7. Over("redis", a)' <= Bound("redis")
      BY <1>3, <1>6, <2>2, <2>4, <2>5
    <2> QED BY <1>1, <1>2, <1>6, <1>14, <2>1, <2>2, <2>3, <2>6, <2>7 DEF RedisCounts
  <1>7. ASSUME NEW w \in Weights, ConsumeFromMemory(w)
        PROVE  RedisCounts(a)'
    BY <1>4, <1>5, <1>7 DEF ConsumeFromMemory
  <1>8. ASSUME NEW w \in Weights, ConsumeFromRedis(w)
        PROVE  RedisCounts(a)'
    <2> DEFINE more == IF Script(w).allowed THEN w ELSE 0
    <2>1. /\ Grant("redis", w, Script(w).allowed) /\ now' = now /\ redis' = KeptInRedis(Script(w))
          /\ evicted' = evicted /\ callers' = callers
      BY <1>8 DEF ConsumeFromRedis, setup
    <2>2. Excess("redis", a)' = Excess("redis", a) + IF Script(w).allowed /\ "redis" = "redis" THEN w ELSE 0
      BY <1>3, <2>1, ScriptTypes, ExcessAfterGrant
    <2>3. more \in Nat /\ more \in Int /\ (Script(w).allowed \/ more = 0) /\ more <= w
          /\ Excess("redis", a)' = Excess("redis", a) + more
      BY <2>2, Sizes
    <2> HIDE DEF more
    <2>4. Over("redis", a)' = Over("redis", a) + more
      BY <1>3, <1>14, <2>1, <2>3, OverMoves
    <2> QED BY <1>6, <2>1, <2>3, <2>4
  <1>9. ASSUME NEW w \in Weights, RedisFails(w)
        PROVE  RedisCounts(a)'
    <2>1. now' = now /\ granted' = granted /\ redis' \in {redis, KeptInRedis(Script(w))}
      BY <1>9 DEF RedisFails
    <2>2. Over("redis", a)' = Over("redis", a) /\ Over("redis", a) \in Int
      BY <1>3, <1>5, <2>1
    <2>3. Over("redis", a)' = Over("redis", a) + 0 /\ w \in Nat /\ 0 \in Nat /\ 0 <= w
      BY <2>2, Sizes
    <2>4. CASE redis' = redis
      BY <1>4, <2>1, <2>2, <2>4
    <2>5. CASE redis' = KeptInRedis(Script(w))
      BY <1>6, <2>1, <2>3, <2>5
    <2> QED BY <2>1, <2>4, <2>5
  <1>10. CASE WriteBack
    <2> DEFINE w == Head(waiting).weight
               v == Consume(algorithm, Head(waiting).state, w, now)
    <2>1. /\ waiting # <<>> /\ Grant("memory", w, v.allowed) /\ now' = now /\ redis' = redis
          /\ evicted' = evicted /\ callers' = callers
      BY <1>10 DEF WriteBack, setup, bounds
    <2>2. w \in Weights /\ v.allowed \in BOOLEAN
      BY <2>1, HeadTypes
    <2> HIDE DEF w, v
    <2>3. Excess("redis", a)' = Excess("redis", a) + IF v.allowed /\ "redis" = "memory" THEN w ELSE 0
      BY <1>3, <2>1, <2>2, ExcessAfterGrant
    <2>4. Over("redis", a)' = Over("redis", a) + 0
      BY <1>3, <1>14, <2>1, <2>3, OverMoves
    <2> QED BY <1>3, <1>4, <2>1, <2>4
  <1>11. CASE Reset
    <2>1. now' = now /\ evicted' = evicted /\ callers' = callers
      BY <1>11 DEF Reset, setup
    <2>2. CASE redis' = Nothing /\ granted' = [granted EXCEPT !["redis"] = None]
      <3>2. Excess("redis", a)' <= 0 /\ Excess("redis", a)' \in Int
        BY <1>3, <2>1, <2>2, ExcessAfterReset
      <3>1. Over("redis", a)' <= 0 /\ Over("redis", a)' \in Int
        BY <1>3, <1>14, <2>1, <3>2, Numbers, OverNone
      <3> DEFINE g == Over("redis", a)'
      <3>3. g <= 0 /\ g \in Int
        BY <3>1
      <3> HIDE DEF g
      <3>4. g <= Bound("redis")
        BY <1>3, <3>3
      <3> QED BY <1>14, <2>2, <3>3, <3>4 DEF RedisCounts, g
    <2>3. CASE redis' = redis /\ granted' = [granted EXCEPT !["memory"] = None]
      <3>2. Excess("redis", a)' = Excess("redis", a) /\ Excess("redis", a) \in Int
        BY <1>3, <2>1, <2>3, ExcessTypes, ExcessAfterReset
      <3>1. Over("redis", a)' = Over("redis", a) + 0
        BY <1>3, <1>14, <2>1, <3>2, OverMoves
      <3> QED BY <1>3, <1>4, <2>1, <2>3, <3>1
    <2> QED BY <1>11, <2>2, <2>3 DEF Reset
  <1>12. CASE Tick
    <2>1. redis' = redis
      BY <1>12 DEF Tick
    <2>2. CASE Over("redis", a)' = Over("redis", a) /\ \A st : Counted(st)' = Counted(st)
      BY <1>1, <1>2, <1>3, <1>14, <2>1, <2>2 DEF RedisCounts
    <2>3. CASE Over("redis", a)' = Over("redis", a) - Bound("redis")
      <3>1. Over("redis", a)' <= 0 /\ Over("redis", a)' \in Int
        BY <1>3, <2>3
      <3>2. redis # Nothing => redis.state.start + Window <= redis.until + 1
        BY <1>2 DEF RedisCounts
      <3> QED BY <1>2, <1>12, <3>1, <3>2, RedisCountsFirst
    <2> QED BY <1>3, <1>12, <2>2, <2>3, OverAfterTick
  <1>15. CASE Evict
    BY <1>4, <1>5, <1>15 DEF Evict
  <1>13. CASE UNCHANGED vars
    BY <1>4, <1>5, <1>13 DEF vars
  <1> QED BY <1>7, <1>8, <1>9, <1>10, <1>11, <1>12, <1>13, <1>15 DEF Next


(* The level of the bucket *)

Level == IF redis = Nothing THEN Full ELSE Refilled(redis.state, now)

\* A bucket is dropped when it is full, and what it has given it no longer holds.
RedisLevel ==
  algorithm = "token-bucket" =>
    /\ redis # Nothing => redis.state.at + (Full - redis.state.parts) <= redis.until + 1
    /\ \A a \in 0..now : Allowed("redis", a, now) * TokenTicks + Level <= Full + (now - a)

LEMMA LevelFacts ==
  ASSUME Types, RedisLevel, algorithm = "token-bucket"
  PROVE  Level \in Nat /\ Level <= Full /\ Full \in Nat /\ Refilled(RedisState, now) = Level
PROOF
  <1>1. now \in Nat /\ Full \in Nat
    BY Numbers, Sizes
  <1>2. CASE redis = Nothing
    <2>1. RedisState = [parts |-> Full, at |-> now]
      BY <1>2 DEF RedisState, Live, LuaInitialState, Full
    <2>2. RedisState \in States("token-bucket", now)
      BY StateTypes
    <2>3. Refilled(RedisState, now) = Least(RedisState.parts + (now - RedisState.at), Full)
      BY <1>1, <2>2, RefilledFacts
    <2>4. RedisState.parts = Full /\ RedisState.at = now
      BY <2>1
    <2> QED BY <1>1, <1>2, <2>3, <2>4 DEF Level, Least
  <1>3. CASE redis # Nothing
    <2>1. redis.state \in States("token-bucket", now) /\ redis.until \in Nat
      BY <1>3, EntryFacts DEF Types
    <2>2. /\ redis.state.parts \in Nat /\ redis.state.parts <= Full /\ redis.state.at \in Nat
          /\ Refilled(redis.state, now) = Least(redis.state.parts + (now - redis.state.at), Full)
          /\ Refilled(redis.state, now) \in Nat /\ Refilled(redis.state, now) <= Full
      BY <1>1, <2>1, RefilledFacts
    <2>3. CASE now <= redis.until
      BY <1>1, <1>3, <2>2, <2>3 DEF Level, RedisState, Live
    <2>4. CASE ~(now <= redis.until)
      <3>1. RedisState = [parts |-> Full, at |-> now]
        BY <2>4 DEF RedisState, Live, LuaInitialState, Full
      <3>2. RedisState \in States("token-bucket", now)
        BY StateTypes
      <3>3. Refilled(RedisState, now) = Least(RedisState.parts + (now - RedisState.at), Full)
        BY <1>1, <3>2, RefilledFacts
      <3>4. RedisState.parts = Full /\ RedisState.at = now
        BY <3>1
      <3>5. redis.state.at + (Full - redis.state.parts) <= redis.until + 1
        BY <1>3 DEF RedisLevel
      <3>6. Refilled(RedisState, now) = Full
        BY <1>1, <3>3, <3>4 DEF Least
      <3>7. Refilled(redis.state, now) = Full
        BY <1>1, <2>1, <2>2, <2>4, <3>5 DEF Least
      <3> QED BY <1>1, <1>3, <3>6, <3>7 DEF Level
    <2> QED BY <2>3, <2>4
  <1> QED BY <1>2, <1>3

\* What the script takes from the bucket, and when the bucket is full again.
LEMMA ScriptLevel ==
  ASSUME Types, RedisLevel, algorithm = "token-bucket", NEW w \in Weights,
         redis' = KeptInRedis(Script(w)), now' = now
  PROVE  /\ redis' # Nothing
         /\ redis'.state.at + (Full - redis'.state.parts) <= redis'.until + 1
         /\ Level' = IF Script(w).allowed THEN Level - w * TokenTicks ELSE Level
         /\ w * TokenTicks \in Nat
PROOF
  <1> DEFINE v == Script(w)
  <1>1. /\ now \in Nat /\ Level \in Nat /\ Level <= Full /\ Full \in Nat
        /\ Refilled(RedisState, now) = Level /\ RedisState \in States("token-bucket", now)
        /\ w * TokenTicks \in Nat
    BY Numbers, LevelFacts, StateTypes, CostFacts
  <1>2. v = LuaTokenBucket(RedisState, w, now)
    BY DEF Script, LuaConsume
  <1>3. /\ v.state \in States("token-bucket", now) /\ v.state.at = now
        /\ v.state.parts = IF v.allowed THEN Level - w * TokenTicks ELSE Level
        /\ v.resetAt = now + (Full - v.state.parts)
        /\ v.allowed \in BOOLEAN
    BY <1>1, <1>2, LuaTokenBucketFacts
  <1>4. v.resetAt \in Int /\ v.state \in States(algorithm, now)
    BY ScriptTypes
  <1>5. /\ redis' # Nothing /\ redis'.state = v.state
        /\ redis'.until = IF v.resetAt > now THEN v.resetAt - 1 ELSE now
    BY <1>4, KeptFacts
  <1>6. /\ v.state.parts \in Nat /\ v.state.parts <= Full
        /\ Refilled(v.state, now) = Least(v.state.parts + (now - v.state.at), Full)
    BY <1>1, <1>3, RefilledFacts
  <1> HIDE DEF v
  <1>7. Level' = Refilled(v.state, now)
    BY <1>5 DEF Level, Refilled
  <1>8. Level' = v.state.parts
    BY <1>1, <1>3, <1>6, <1>7 DEF Least
  <1>9. redis'.state.at + (Full - redis'.state.parts) <= redis'.until + 1
    BY <1>1, <1>3, <1>4, <1>5, <1>6
  <1> QED BY <1>1, <1>3, <1>5, <1>8, <1>9 DEF v

LEMMA LevelSums ==
  ASSUME NEW x \in Int, NEW level \in Int, NEW room \in Int, x + level <= room, NEW next \in Int
  PROVE  /\ \A cost \in Int : next + cost <= level => (x + cost) + next <= room
         /\ next <= level + 1 => x + next <= room + 1
PROOF
  OBVIOUS

LEMMA RedisLevelStep ==
  ASSUME Types, Steady, RedisLevel, [Next]_vars
  PROVE  RedisLevel'
PROOF
  <1>1. algorithm' = algorithm
    BY DEF Next, vars, setup, ConsumeFromMemory, ConsumeFromRedis, RedisFails, WriteBack, Reset, Evict, Tick
  <1>2. SUFFICES ASSUME algorithm = "token-bucket"
                 PROVE  RedisLevel'
    BY <1>1 DEF RedisLevel
  <1>3. /\ now \in Nat /\ now <= MaxTime /\ MaxTime \in Nat /\ TokenTicks \in Nat
        /\ "memory" \in StoreNames /\ "redis" \in StoreNames
        /\ Level \in Nat /\ Level <= Full /\ Full \in Nat
    BY <1>2, Numbers, Sizes, LevelFacts DEF StoreNames
  <1>4. \A a \in 0..now : a \in Nat /\ a <= now /\ Allowed("redis", a, now) \in Int
    BY <1>3, GrantedTypes
  <1>5. \A a \in 0..now : Allowed("redis", a, now) * TokenTicks + Level <= Full + (now - a)
    BY <1>2 DEF RedisLevel
  <1>6. ASSUME now' = now, redis' = redis, \A a \in 0..now : Allowed("redis", a, now)' = Allowed("redis", a, now)
        PROVE  RedisLevel'
    <2>1. Level' = Level
      BY <1>6 DEF Level, Refilled
    <2> QED BY <1>2, <1>6, <2>1 DEF RedisLevel
  <1>7. ASSUME granted' = granted, now' = now
        PROVE  \A a \in 0..now : Allowed("redis", a, now)' = Allowed("redis", a, now)
    BY <1>7 DEF Allowed
  <1>8. ASSUME NEW w \in Weights, NEW allowed \in BOOLEAN, NEW s \in StoreNames, Grant(s, w, allowed), now' = now,
               NEW a \in 0..now
        PROVE  Allowed("redis", a, now)' = Allowed("redis", a, now) + IF allowed /\ "redis" = s THEN w ELSE 0
    <2>1. \A x, y \in 0..now : x <= y =>
            Allowed("redis", x, y)' = Allowed("redis", x, y) + IF allowed /\ "redis" = s /\ y = now THEN w ELSE 0
      BY <1>3, <1>8, AllowedAfterGrant
    <2>2. now \in 0..now /\ a <= now
      BY <1>3
    <2>3. granted'[("redis")][now] - (IF a = 0 THEN 0 ELSE granted'["redis"][a - 1]) =
            Allowed("redis", a, now) + IF allowed /\ "redis" = s /\ now = now THEN w ELSE 0
      BY <2>1, <2>2 DEF Allowed
    <2> QED BY <1>8, <2>3 DEF Allowed
  <1>9. ASSUME NEW w \in Weights, redis' = KeptInRedis(Script(w)), now' = now, NEW cost \in Nat,
               Script(w).allowed => cost <= w * TokenTicks,
               ~Script(w).allowed => cost = 0,
               \A a \in 0..now : Allowed("redis", a, now)' * TokenTicks = Allowed("redis", a, now) * TokenTicks + cost
        PROVE  RedisLevel'
    <2>1. /\ redis' # Nothing
          /\ redis'.state.at + (Full - redis'.state.parts) <= redis'.until + 1
          /\ Level' = IF Script(w).allowed THEN Level - w * TokenTicks ELSE Level
          /\ w * TokenTicks \in Nat
      BY <1>2, <1>9, ScriptLevel
    <2>2. Level' + cost <= Level /\ Level' \in Int
      BY <1>3, <1>9, <2>1
    <2>3. ASSUME NEW a \in 0..now
          PROVE  Allowed("redis", a, now)' * TokenTicks + Level' <= Full + (now - a)
      <3> DEFINE x == Allowed("redis", a, now) * TokenTicks
      <3>1. x \in Int /\ x + Level <= Full + (now - a) /\ a \in Nat
        BY <1>3, <1>4, <1>5, Times
      <3>2. Allowed("redis", a, now)' * TokenTicks = x + cost
        BY <1>9
      <3> HIDE DEF x
      <3>3. Full + (now - a) \in Int /\ Level \in Int
        BY <1>3, <3>1
      <3>5. x \in Int /\ cost \in Int /\ Level' \in Int
        BY <2>2, <3>1
      <3>6. x + Level <= Full + (now - a) /\ Level' + cost <= Level
        BY <2>2, <3>1
      <3>4. (x + cost) + Level' <= Full + (now - a)
        BY <3>3, <3>5, <3>6, LevelSums, Zenon
      <3> QED BY <3>2, <3>4
    <2> QED BY <1>9, <2>1, <2>3 DEF RedisLevel
  <1>10. ASSUME NEW w \in Weights, ConsumeFromMemory(w)
         PROVE  RedisLevel'
    BY <1>6, <1>7, <1>10 DEF ConsumeFromMemory
  <1>11. ASSUME NEW w \in Weights, ConsumeFromRedis(w)
         PROVE  RedisLevel'
    <2> DEFINE more == IF Script(w).allowed THEN w ELSE 0
    <2>1. Grant("redis", w, Script(w).allowed) /\ now' = now /\ redis' = KeptInRedis(Script(w))
      BY <1>11 DEF ConsumeFromRedis
    <2>2. Script(w).allowed \in BOOLEAN /\ w \in Nat
      BY ScriptTypes, Sizes
    <2>3. \A a \in 0..now : Allowed("redis", a, now)' = Allowed("redis", a, now) + IF Script(w).allowed /\ "redis" = "redis" THEN w ELSE 0
      BY <1>3, <1>8, <2>1, <2>2
    <2>4. more \in Nat /\ more * TokenTicks \in Nat /\ (~Script(w).allowed => more * TokenTicks = 0)
          /\ (Script(w).allowed => more * TokenTicks <= w * TokenTicks)
      BY <1>3, <2>2, CostFacts
    <2>5. ASSUME NEW a \in 0..now
          PROVE  Allowed("redis", a, now)' * TokenTicks = Allowed("redis", a, now) * TokenTicks + more * TokenTicks
      <3>1. Allowed("redis", a, now)' = Allowed("redis", a, now) + more
        BY <2>3
      <3>2. Allowed("redis", a, now) \in Int
        BY <1>4
      <3> DEFINE x == Allowed("redis", a, now)
      <3> HIDE DEF x, more
      <3>3. (x + more) * TokenTicks = x * TokenTicks + more * TokenTicks
        BY <1>3, <2>4, <3>2, Times DEF x
      <3> QED BY <3>1, <3>3 DEF x
    <2> HIDE DEF more
    <2> QED BY <1>9, <2>1, <2>4, <2>5
  <1>12. ASSUME NEW w \in Weights, RedisFails(w)
         PROVE  RedisLevel'
    <2>1. now' = now /\ granted' = granted /\ redis' \in {redis, KeptInRedis(Script(w))}
      BY <1>12 DEF RedisFails
    <2>2. CASE redis' = redis
      BY <1>6, <1>7, <2>1, <2>2
    <2>3. CASE redis' = KeptInRedis(Script(w))
      <3>1. w * TokenTicks \in Nat /\ 0 \in Nat
        BY CostFacts
      <3>2. ASSUME NEW a \in 0..now
            PROVE  Allowed("redis", a, now)' * TokenTicks = Allowed("redis", a, now) * TokenTicks + 0
        <4>1. Allowed("redis", a, now)' = Allowed("redis", a, now) /\ Allowed("redis", a, now) \in Int
          BY <1>4, <1>7, <2>1
        <4>2. Allowed("redis", a, now) * TokenTicks \in Int
          BY <1>3, <4>1, Times
        <4> QED BY <4>1, <4>2
      <3> QED BY <1>9, <2>1, <2>3, <3>1, <3>2
    <2> QED BY <2>1, <2>2, <2>3
  <1>13. CASE WriteBack
    <2> DEFINE w == Head(waiting).weight
               v == Consume(algorithm, Head(waiting).state, w, now)
    <2>1. waiting # <<>> /\ Grant("memory", w, v.allowed) /\ now' = now /\ redis' = redis
      BY <1>13 DEF WriteBack
    <2>2. w \in Weights /\ v.allowed \in BOOLEAN
      BY <2>1, HeadTypes
    <2> HIDE DEF w, v
    <2>3. \A a \in 0..now : Allowed("redis", a, now)' = Allowed("redis", a, now) + IF v.allowed /\ "redis" = "memory" THEN w ELSE 0
      BY <1>3, <1>8, <2>1, <2>2
    <2>4. \A a \in 0..now : Allowed("redis", a, now)' = Allowed("redis", a, now)
      BY <1>4, <2>3
    <2> QED BY <1>6, <2>1, <2>4
  <1>14. CASE Reset
    <2>1. now' = now /\ now \in 0..now
      BY <1>3, <1>14 DEF Reset
    <2>2. CASE redis' = Nothing /\ granted' = [granted EXCEPT !["redis"] = None]
      <3>1. \A x, y \in 0..now : Allowed("redis", x, y)' = IF "redis" = "redis" THEN 0 ELSE Allowed("redis", x, y)
        BY <1>3, <2>2, AllowedAfterReset
      <3>2. \A a \in 0..now : Allowed("redis", a, now)' = 0
        BY <2>1, <3>1 DEF Allowed
      <3>3. Level' = Full /\ 0 * TokenTicks = 0
        BY <1>3, <2>2, Times DEF Level
      <3>4. \A a \in 0..now : 0 * TokenTicks + Full <= Full + (now - a)
        BY <1>3, <1>4, <3>3
      <3> QED BY <2>1, <2>2, <3>2, <3>3, <3>4 DEF RedisLevel
    <2>3. CASE redis' = redis /\ granted' = [granted EXCEPT !["memory"] = None]
      <3>1. \A x, y \in 0..now : Allowed("redis", x, y)' = IF "redis" = "memory" THEN 0 ELSE Allowed("redis", x, y)
        BY <1>3, <2>3, AllowedAfterReset
      <3>2. \A a \in 0..now : Allowed("redis", a, now)' = Allowed("redis", a, now)
        BY <2>1, <3>1 DEF Allowed
      <3> QED BY <1>6, <2>1, <2>3, <3>2
    <2> QED BY <1>14, <2>2, <2>3 DEF Reset
  <1>15. CASE Tick
    <2>1. now' = now + 1 /\ redis' = redis
      BY <1>15 DEF Tick
    <2>2. /\ \A a \in 0..now : Allowed("redis", a, now)' = Allowed("redis", a, now)
          /\ Allowed("redis", now, now)' = 0
      BY <1>3, <1>15, AllowedAfterTick
    <2>3. Level' \in Nat /\ Level' <= Full /\ Level' <= Level + 1
      <3>1. CASE redis = Nothing
        BY <1>3, <2>1, <3>1 DEF Level
      <3>2. CASE redis # Nothing
        <4>1. redis.state \in States("token-bucket", now)
          BY <1>2, <3>2, EntryFacts DEF Types
        <4>2. redis.state \in States("token-bucket", now + 1)
          <5>1. "token-bucket" \in Algorithms /\ now + 1 \in Nat /\ now <= now + 1
            BY <1>3 DEF Algorithms
          <5> QED BY <1>3, <4>1, <5>1, StatesGrow
        <4>3. /\ Refilled(redis.state, now) = Least(redis.state.parts + (now - redis.state.at), Full)
              /\ redis.state.parts \in Nat /\ redis.state.at \in Nat
          BY <1>3, <4>1, RefilledFacts
        <4>4. /\ Refilled(redis.state, now + 1) = Least(redis.state.parts + ((now + 1) - redis.state.at), Full)
              /\ Refilled(redis.state, now + 1) \in Nat /\ Refilled(redis.state, now + 1) <= Full
          BY <1>3, <4>2, RefilledFacts
        <4>5. Refilled(redis.state, now + 1) <= Refilled(redis.state, now) + 1
          BY <1>3, <4>3, <4>4 DEF Least
        <4>6. Level' = Refilled(redis.state, now + 1) /\ Level = Refilled(redis.state, now)
          BY <2>1, <3>2 DEF Level, Refilled
        <4> QED BY <4>4, <4>5, <4>6
      <3> QED BY <3>1, <3>2
    <2>4. ASSUME NEW a \in 0..now'
          PROVE  Allowed("redis", a, now)' * TokenTicks + Level' <= Full + (now' - a)
      <3>1. CASE a \in 0..now
        <4> DEFINE x == Allowed("redis", a, now) * TokenTicks
        <4>1. x \in Int /\ x + Level <= Full + (now - a) /\ a \in Nat
          BY <1>3, <1>4, <1>5, <3>1, Times
        <4>2. Allowed("redis", a, now)' * TokenTicks = x
          BY <2>2, <3>1
        <4> HIDE DEF x
        <4>3. Full + (now - a) \in Int /\ Level \in Int /\ Level' \in Int
          BY <1>3, <2>3, <4>1
        <4>4. x + Level' <= (Full + (now - a)) + 1
          BY <2>3, <4>1, <4>3, LevelSums
        <4>5. (Full + (now - a)) + 1 = Full + ((now + 1) - a)
          BY <1>3, <4>1
        <4> QED BY <2>1, <4>2, <4>4, <4>5
      <3>2. CASE a \notin 0..now
        <4>1. a = now'
          BY <1>3, <2>1, <3>2
        <4>2. Allowed("redis", a, now)' = 0
          BY <2>2, <4>1 DEF Allowed
        <4>3. 0 * TokenTicks = 0 /\ now' - now' = 0
          BY <1>3, <2>1, Times
        <4> QED BY <1>3, <2>3, <4>1, <4>2, <4>3
      <3> QED BY <3>1, <3>2
    <2>5. redis # Nothing => redis'.state.at + (Full - redis'.state.parts) <= redis'.until + 1
      BY <1>2, <2>1 DEF RedisLevel
    <2> QED BY <2>1, <2>4, <2>5 DEF RedisLevel
  <1>16. CASE UNCHANGED vars
    BY <1>6, <1>7, <1>16 DEF vars
  <1>17. CASE Evict
    BY <1>6, <1>7, <1>17 DEF Evict
  <1> QED BY <1>10, <1>11, <1>12, <1>13, <1>14, <1>15, <1>16, <1>17 DEF Next

LEMMA BucketPromise ==
  ASSUME NEW weight \in Int, NEW d \in Nat, NEW level \in Nat, weight * TokenTicks + level <= Full + d
  PROVE  weight <= Limit + d \div TokenTicks
PROOF
  <1>1. TokenTicks \in Nat \ {0} /\ Limit \in Nat /\ Full = Limit * TokenTicks /\ TokenTicks \in Nat
    BY Sizes DEF Full
  <1>2. (weight - Limit) * TokenTicks = weight * TokenTicks - Limit * TokenTicks
    BY <1>1, Times
  <1>3. weight * TokenTicks \in Int /\ Limit * TokenTicks \in Int
    BY <1>1, Times
  <1>4. (weight - Limit) * TokenTicks <= d
    BY <1>1, <1>2, <1>3
  <1>5. weight - Limit <= d \div TokenTicks
    BY <1>1, <1>4, QuotientIs
  <1>6. d \div TokenTicks \in Int
    BY <1>1, Quotient
  <1> QED BY <1>1, <1>5, <1>6

-----------------------------------------------------------------------------
(* The bucket in memory, at one point of time *)

LEMMA ExcessNow ==
  ASSUME NEW s
  PROVE  \A a : a = now' => Excess(s, now)' = Excess(s, a)'
PROOF
  BY DEF Excess, Allowed

\* What was allowed at this moment and what the bucket holds now were in it together.
Fits(st) == Excess("memory", now) * TokenTicks + Refilled(st, now) <= Full

\* An entry is not dropped in the tick in which it was written.
MemoryBurst ==
  algorithm = "token-bucket" /\ callers = 1 =>
    /\ memory = Nothing => Excess("memory", now) <= 0
    /\ memory # Nothing =>
         /\ memory.state.at < memory.until
         /\ memory.state.at < now => Excess("memory", now) <= 0
         /\ Fits(memory.state)
    /\ \A i \in 1..Len(waiting) : Fits(waiting[i].state)

LEMMA FitsAtMost ==
  ASSUME Types, NEW st \in States("token-bucket", now), Fits(st)
  PROVE  Excess("memory", now) <= Limit
PROOF
  <1> DEFINE x == Excess("memory", now)
             r == Refilled(st, now)
  <1>1. x \in Int /\ r \in Nat /\ Limit \in Nat /\ TokenTicks \in Nat \ {0} /\ now \in Nat
    <2>1. "memory" \in StoreNames /\ now \in Nat /\ now \in 0..now
      BY Numbers DEF StoreNames
    <2> QED BY <2>1, Sizes, ExcessTypes, RefilledFacts
  <1>2. x * TokenTicks + r <= Limit * TokenTicks
    BY DEF Fits, Full
  <1> HIDE DEF x, r
  <1>3. x * TokenTicks \in Int /\ Limit * TokenTicks \in Int
    BY <1>1, Times
  <1>4. x * TokenTicks <= Limit * TokenTicks
    BY <1>1, <1>2, <1>3
  <1>5. x <= Limit
    BY <1>1, <1>4, LessThanTimes
  <1> QED BY <1>5 DEF x

\* Where nothing was allowed at this moment, every bucket fits.
LEMMA AllFit ==
  ASSUME NEW t \in Nat, NEW x \in Int, x <= 0, NEW st \in States("token-bucket", t)
  PROVE  x * TokenTicks + Refilled(st, t) <= Full
PROOF
  <1>1. Refilled(st, t) \in Nat /\ Refilled(st, t) <= Full /\ Full \in Nat /\ TokenTicks \in Nat
    BY RefilledFacts, Sizes
  <1>2. x * TokenTicks <= 0 * TokenTicks /\ 0 * TokenTicks = 0 /\ x * TokenTicks \in Int
    BY <1>1, Times, TimesGrows
  <1> QED BY <1>1, <1>2

LEMMA BucketsAre ==
  ASSUME Types, algorithm = "token-bucket"
  PROVE  /\ memory # Nothing => memory.state \in States("token-bucket", now)
         /\ \A i \in 1..Len(waiting) : waiting[i].state \in States("token-bucket", now)
PROOF
  <1>1. memory # Nothing => memory.state \in States("token-bucket", now)
    BY EntryFacts DEF Types
  <1> DEFINE R == [weight : Weights, state : States(algorithm, now)]
  <1>4. waiting \in Seq(R)
    BY DEF Types
  <1>5. \A x \in R : x.state \in States(algorithm, now)
    OBVIOUS
  <1> HIDE DEF R
  <1>2. \A i \in 1..Len(waiting) : waiting[i] \in R
    BY <1>4
  <1>3. \A i \in 1..Len(waiting) : waiting[i].state \in States(algorithm, now)
    BY <1>2, <1>5
  <1> QED BY <1>1, <1>3

LEMMA BurstRead ==
  ASSUME Types, MemoryBurst, algorithm = "token-bucket", callers = 1
  PROVE  /\ Fits(MemoryState)
         /\ ~Live(memory) => Excess("memory", now) <= 0
PROOF
  <1>1. "memory" \in StoreNames /\ now \in Nat /\ now \in 0..now
    BY Numbers DEF StoreNames
  <1>2. Excess("memory", now) \in Int /\ MemoryState \in States("token-bucket", now)
    BY <1>1, ExcessTypes, StateTypes
  <1>3. ~Live(memory) => Excess("memory", now) <= 0
    <2>1. CASE memory = Nothing
      BY <2>1 DEF MemoryBurst
    <2>2. CASE memory # Nothing /\ ~Live(memory)
      <3>1. memory.until \in Nat /\ memory.state \in States("token-bucket", now) /\ ~(now <= memory.until)
        BY <2>2, EntryFacts DEF Types, Live
      <3>2. memory.state.at \in Nat
        BY <1>1, <3>1, RefilledFacts
      <3>3. memory.state.at < now
        BY <1>1, <2>2, <3>1, <3>2 DEF MemoryBurst
      <3> QED BY <2>2, <3>3 DEF MemoryBurst
    <2> QED BY <2>1, <2>2 DEF Live
  <1>4. CASE Live(memory)
    BY <1>3, <1>4 DEF MemoryBurst, MemoryState, Live
  <1>5. CASE ~Live(memory)
    BY <1>1, <1>2, <1>3, <1>5, AllFit DEF Fits
  <1> QED BY <1>3, <1>4, <1>5

LEMMA MemoryBurstWriteBack ==
  ASSUME Types, MemoryBurst, WriteBack, algorithm = "token-bucket", callers = 1
  PROVE  MemoryBurst'
PROOF
  <1> DEFINE w == Head(waiting).weight
             st == Head(waiting).state
             v == Consume(algorithm, st, w, now)
  <1>1. /\ waiting # <<>> /\ memory' = Kept(v) /\ Grant("memory", w, v.allowed) /\ waiting' = Tail(waiting)
        /\ now' = now /\ callers' = callers /\ evicted' = evicted /\ algorithm' = algorithm
    BY DEF WriteBack, setup, bounds
  <1>2. /\ w \in Weights /\ st \in States("token-bucket", now) /\ Head(waiting) = waiting[1]
        /\ v.state \in States(algorithm, now) /\ v.resetAt \in Int /\ v.allowed \in BOOLEAN
        /\ Len(waiting) >= 1 /\ Len(Tail(waiting)) = Len(waiting) - 1
    BY <1>1, HeadTypes
  <1>3. Len(waiting') = 0
    <2>1. Len(waiting) <= callers /\ Len(waiting) \in Nat
      BY DEF Types
    <2> QED BY <1>1, <1>2, <2>1
  <1>4. v = TokenBucket(st, w, now)
    BY DEF Consume
  <1>5. now \in Nat /\ "memory" \in StoreNames /\ now \in 0..now
    BY Numbers DEF StoreNames
  <1>6. /\ v.state.at = now /\ Refilled(st, now) \in Nat /\ Refilled(st, now) <= Full
        /\ v.state.parts = IF v.allowed THEN Refilled(st, now) - w * TokenTicks ELSE Refilled(st, now)
    BY <1>2, <1>4, <1>5, TokenBucketFacts, RefilledFacts
  <1>7. /\ memory' # Nothing /\ memory'.state = v.state
        /\ memory'.until = IF v.resetAt > now THEN v.resetAt ELSE now + 1
    BY <1>1, <1>2, KeptFacts
  <1>8. /\ v.state.parts \in Nat /\ v.state.parts <= Full
        /\ Refilled(v.state, now) = Least(v.state.parts + (now - v.state.at), Full)
    BY <1>2, <1>5, RefilledFacts
  <1>9. Fits(st)
    <2>1. 1 \in 1..Len(waiting)
      BY <1>2 DEF Types
    <2> QED BY <1>2, <2>1 DEF MemoryBurst
  <1> DEFINE x == Excess("memory", now)
             y == Excess("memory", now)'
  <1>10. x \in Int /\ y = x + IF v.allowed THEN w ELSE 0
    <2>1. \A a \in 0..now : Excess("memory", a)' = Excess("memory", a) + IF v.allowed /\ "memory" = "memory" THEN w ELSE 0
      BY <1>1, <1>2, <1>5, ExcessAfterGrant
    <2>2. Excess("memory", now)' = Excess("memory", now) + IF v.allowed /\ "memory" = "memory" THEN w ELSE 0
      BY <1>1, <1>5, <2>1, ExcessNow
    <2> QED BY <1>5, <2>2, ExcessTypes
  <1>11. x * TokenTicks + Refilled(st, now) <= Full
    BY <1>9 DEF Fits
  <1> HIDE DEF v, st, w, x, y
  <1>12. Refilled(v.state, now) = v.state.parts
    BY <1>5, <1>6, <1>8, Sizes DEF Least
  <1>13. y * TokenTicks + v.state.parts <= Full
    <2>1. w \in Nat /\ w * TokenTicks \in Int /\ x * TokenTicks \in Int
          /\ (x + w) * TokenTicks = x * TokenTicks + w * TokenTicks /\ TokenTicks \in Nat
      BY <1>2, <1>10, Sizes, Times
    <2>2. CASE v.allowed
      <3>1. y = x + w /\ v.state.parts = Refilled(st, now) - w * TokenTicks
        BY <1>6, <1>10, <2>2
      <3>2. y * TokenTicks = x * TokenTicks + w * TokenTicks
        BY <2>1, <3>1
      <3> QED BY <1>6, <1>11, <2>1, <3>1, <3>2, Sizes
    <2>3. CASE ~v.allowed
      <3>1. y = x /\ v.state.parts = Refilled(st, now)
        BY <1>6, <1>10, <2>3
      <3> QED BY <1>11, <3>1
    <2> QED BY <2>2, <2>3
  <1>14. Fits(memory.state)'
    <2>1. Fits(memory.state)' <=> y * TokenTicks + Refilled(memory'.state, now') <= Full
      BY DEF Fits, Refilled, y, Full
    <2> QED BY <1>1, <1>7, <1>12, <1>13, <2>1
  <1>15. memory'.state.at < memory'.until /\ ~(memory'.state.at < now')
    BY <1>1, <1>2, <1>5, <1>6, <1>7
  <1>16. \A i : i \notin 1..Len(waiting')
    BY <1>3
  <1> QED BY <1>7, <1>14, <1>15, <1>16 DEF MemoryBurst

LEMMA MemoryBurstStep ==
  ASSUME Types, Steady, MemoryBurst, [Next]_vars
  PROVE  MemoryBurst'
PROOF
  <1>1. algorithm' = algorithm /\ callers' = callers
    BY DEF Next, vars, setup, ConsumeFromMemory, ConsumeFromRedis, RedisFails, WriteBack, Reset, Evict, Tick
  <1>2. SUFFICES ASSUME algorithm = "token-bucket", callers = 1
                 PROVE  MemoryBurst'
    BY <1>1 DEF MemoryBurst
  <1>3. /\ "memory" \in StoreNames /\ "redis" \in StoreNames /\ now \in Nat /\ now \in 0..now
        /\ Excess("memory", now) \in Int /\ Bound("memory") = Limit /\ Limit \in Nat
    <2>1. "memory" \in StoreNames /\ "redis" \in StoreNames /\ now \in Nat /\ now \in 0..now
      BY Numbers DEF StoreNames
    <2> QED BY <1>2, <2>1, ExcessTypes, BoundFacts
  <1>4. ASSUME now' = now, Excess("memory", now)' = Excess("memory", now)
        PROVE  \A st : Fits(st)' <=> Fits(st)
    BY <1>4 DEF Fits, Refilled, Full
  <1>5. ASSUME now' = now, memory' = memory, waiting' = waiting, Excess("memory", now)' = Excess("memory", now)
        PROVE  MemoryBurst'
    BY <1>1, <1>4, <1>5 DEF MemoryBurst
  <1>6. ASSUME granted' = granted, now' = now, evicted' = evicted
        PROVE  Excess("memory", now)' = Excess("memory", now)
    BY <1>1, <1>3, <1>6, ExcessStays, ExcessNow
  <1>7. ASSUME now' \in Nat, now <= now', memory' \in {memory, Nothing}, waiting' = waiting,
               Excess("memory", now)' <= 0, Excess("memory", now)' \in Int
        PROVE  MemoryBurst'
    <2>1. ASSUME NEW st \in States("token-bucket", now)
          PROVE  Fits(st)'
      <3>1. st \in States("token-bucket", now')
        <4>1. "token-bucket" \in Algorithms
          BY DEF Algorithms
        <4> QED BY <1>3, <1>7, <2>1, <4>1, StatesGrow
      <3> DEFINE y == Excess("memory", now)'
      <3>2. Fits(st)' <=> y * TokenTicks + Refilled(st, now') <= Full
        BY DEF Fits, Refilled, y, Full
      <3>3. y <= 0 /\ y \in Int
        BY <1>7
      <3> HIDE DEF y
      <3> QED BY <1>7, <3>1, <3>2, <3>3, AllFit
    <2>2. /\ memory # Nothing => memory.state \in States("token-bucket", now)
          /\ \A i \in 1..Len(waiting) : waiting[i].state \in States("token-bucket", now)
      BY <1>2, BucketsAre
    <2>3. memory' # Nothing => memory' = memory /\ Fits(memory.state)'
      <3>1. memory' # Nothing => memory' = memory
        BY <1>7
      <3> QED BY <2>1, <2>2, <3>1
    <2>4. \A i \in 1..Len(waiting) : Fits(waiting[i].state)'
      BY <1>7, <2>1, <2>2
    <2> QED BY <1>2, <1>7, <2>3, <2>4 DEF MemoryBurst
  <1>8. ASSUME NEW w \in Weights, ReadMemory(w), granted' = granted, now' = now, evicted' = evicted
        PROVE  MemoryBurst'
    <2>1. /\ Excess("memory", now)' = Excess("memory", now)
          /\ \A st : Fits(st)' <=> Fits(st)
      BY <1>4, <1>6, <1>8
    <2>2. /\ Len(waiting') = Len(waiting) + 1
          /\ \A i \in 1..Len(waiting') :
               waiting'[i] = IF i <= Len(waiting) THEN waiting[i] ELSE [weight |-> w, state |-> MemoryState]
          /\ memory' = IF Live(memory) THEN memory ELSE Nothing
      BY <1>8, ReadMemoryTypes
    <2>3. Fits(MemoryState) /\ (~Live(memory) => Excess("memory", now) <= 0)
      BY <1>2, BurstRead
    <2>4. ASSUME NEW i \in 1..Len(waiting')
          PROVE  Fits(waiting'[i].state)
      <3>1. Len(waiting) \in Nat
        BY DEF Types
      <3>2. CASE i <= Len(waiting)
        <4>1. i \in 1..Len(waiting) /\ waiting'[i] = waiting[i]
          BY <2>2, <3>1, <3>2
        <4> QED BY <1>2, <4>1 DEF MemoryBurst
      <3>3. CASE ~(i <= Len(waiting))
        BY <2>2, <2>3, <3>3
      <3> QED BY <3>2, <3>3
    <2>5. memory' = Nothing => Excess("memory", now) <= 0
      BY <1>2, <2>2, <2>3 DEF MemoryBurst
    <2>6. memory' # Nothing => memory' = memory
      BY <2>2
    <2>7. \A i \in 1..Len(waiting') : Fits(waiting[i].state)'
      BY <2>1, <2>4
    <2> QED BY <1>2, <1>8, <2>1, <2>5, <2>6, <2>7 DEF MemoryBurst
  <1>9. ASSUME NEW w \in Weights, ConsumeFromMemory(w)
        PROVE  MemoryBurst'
    BY <1>8, <1>9 DEF ConsumeFromMemory
  <1>10. ASSUME NEW w \in Weights, ConsumeFromRedis(w)
         PROVE  MemoryBurst'
    <2>1. /\ Grant("redis", w, Script(w).allowed) /\ now' = now /\ memory' = memory /\ waiting' = waiting
          /\ evicted' = evicted
      BY <1>10 DEF ConsumeFromRedis
    <2>2. \A a \in 0..now : Excess("memory", a)' = Excess("memory", a) + IF Script(w).allowed /\ "memory" = "redis" THEN w ELSE 0
      BY <1>1, <1>3, <2>1, ScriptTypes, ExcessAfterGrant
    <2>3. Excess("memory", now)' = Excess("memory", now) + IF Script(w).allowed /\ "memory" = "redis" THEN w ELSE 0
      BY <1>3, <2>1, <2>2, ExcessNow
    <2>4. Excess("memory", now)' = Excess("memory", now)
      BY <1>3, <2>3
    <2> QED BY <1>5, <2>1, <2>4
  <1>11. ASSUME NEW w \in Weights, RedisFails(w)
         PROVE  MemoryBurst'
    BY <1>5, <1>6, <1>8, <1>11 DEF RedisFails
  <1>12. CASE WriteBack
    BY <1>2, <1>12, MemoryBurstWriteBack
  <1>13. CASE Reset
    <2>1. now' = now /\ waiting' = waiting /\ evicted' = evicted
      BY <1>13 DEF Reset
    <2>2. CASE memory' = Nothing /\ granted' = [granted EXCEPT !["memory"] = None]
      <3>1. \A a \in 0..now : Excess("memory", a)' <= 0 /\ Excess("memory", a)' \in Int
        BY <1>1, <1>3, <2>1, <2>2, ExcessAfterReset
      <3>2. Excess("memory", now)' <= 0 /\ Excess("memory", now)' \in Int
        BY <1>3, <2>1, <3>1, ExcessNow
      <3> QED BY <1>3, <1>7, <2>1, <2>2, <3>2
    <2>3. CASE memory' = memory /\ granted' = [granted EXCEPT !["redis"] = None]
      <3>1. \A a \in 0..now : Excess("memory", a)' = Excess("memory", a)
        BY <1>1, <1>3, <2>1, <2>3, ExcessAfterReset
      <3>2. Excess("memory", now)' = Excess("memory", now)
        BY <1>3, <2>1, <3>1, ExcessNow
      <3> QED BY <1>5, <2>1, <2>3, <3>2
    <2> QED BY <1>13, <2>2, <2>3 DEF Reset
  <1>14. CASE Evict
    <2>1. memory' = Nothing /\ memory # Nothing /\ now' = now /\ waiting' = waiting
      BY <1>14 DEF Evict
    <2>2. \A a \in 0..now : Excess("memory", a)' = Excess("memory", a) - IF "memory" = "memory" THEN Bound("memory") ELSE 0
      BY <1>3, <1>14, ExcessAfterEvict
    <2>3. Excess("memory", now)' = Excess("memory", now) - Limit
      BY <1>3, <2>1, <2>2, ExcessNow
    <2>4. Excess("memory", now) <= Limit
      <3>1. memory.state \in States("token-bucket", now) /\ Fits(memory.state)
        BY <1>2, <2>1, BucketsAre DEF MemoryBurst
      <3> QED BY <3>1, FitsAtMost
    <2>5. Excess("memory", now)' <= 0 /\ Excess("memory", now)' \in Int
      BY <1>3, <2>3, <2>4
    <2> QED BY <1>3, <1>7, <2>1, <2>5
  <1>15. CASE Tick
    <2>1. memory' = memory /\ waiting' = waiting /\ now' = now + 1
      BY <1>15 DEF Tick
    <2>2. \A a : a = now' => Excess("memory", a)' <= 0 /\ Excess("memory", a)' \in Int
      BY <1>3, <1>15, ExcessAfterTick
    <2>3. Excess("memory", now)' <= 0 /\ Excess("memory", now)' \in Int
      BY <2>2, ExcessNow
    <2> QED BY <1>3, <1>7, <2>1, <2>3
  <1>16. CASE UNCHANGED vars
    BY <1>5, <1>6, <1>16 DEF vars, bounds
  <1> QED BY <1>9, <1>10, <1>11, <1>12, <1>13, <1>14, <1>15, <1>16 DEF Next

-----------------------------------------------------------------------------
(* The log, in either store *)

First(log, t) == IF log = <<>> THEN t ELSE log[1]

\* What a log accounts for of the weight x that was allowed from time a on: the last k
\* entries are no older than a.  A log that begins later than a may follow one that was
\* dropped, which held entries that were allowed after a, but not only such.
LogAllows(x, a, log, t, B) ==
  \E k \in 0..Len(log) :
    /\ \A i \in 1..Len(log) : Len(log) - k < i => a <= log[i]
    /\ x <= k + (IF First(log, t) > a THEN B - 1 ELSE 0)

Recent == {a \in 0..now : now < a + Window}

Covers(s, log) ==
  /\ Len(log) <= Bound(s)
  /\ \A a \in Recent : LogAllows(Excess(s, a), a, log, now, Bound(s))

Log(e) == IF e = Nothing THEN <<>> ELSE e.state

\* A log is dropped when its oldest entry is over, and after the tick of its youngest.
LogDropped(e) ==
  e # Nothing => /\ e.state # <<>> /\ e.state[1] + Window <= e.until + 1
                 /\ \A i \in 1..Len(e.state) : e.state[i] <= e.until

MemoryLog ==
  algorithm = "sliding-window-log" /\ callers = 1 =>
    /\ Covers("memory", Log(memory)) /\ LogDropped(memory)
    /\ \A i \in 1..Len(waiting) : Covers("memory", waiting[i].state)

RedisLog == algorithm = "sliding-window-log" => Covers("redis", Log(redis)) /\ LogDropped(redis)

Logs(t) == {log \in Seq(0..t) : Ordered(log)}

LEMMA FirstFacts ==
  ASSUME NEW t \in Nat, NEW log \in Logs(t)
  PROVE  /\ First(log, t) \in Nat /\ First(log, t) <= t /\ Len(log) \in Nat
         /\ \A i \in 1..Len(log) : log[i] \in Nat /\ log[i] <= t /\ First(log, t) <= log[i]
         /\ <<>> \in Logs(t) /\ First(<<>>, t) = t /\ Len(<<>>) = 0
PROOF
  <1>1. log \in Seq(0..t) /\ Ordered(log)
    BY DEF Logs
  <1>2. \A i \in 1..Len(log) : log[i] \in 0..t /\ log # <<>> /\ 1 \in 1..Len(log) /\ 1 <= i
    BY <1>1
  <1>3. \A i \in 1..Len(log) : log[1] <= log[i] /\ First(log, t) = log[1]
    BY <1>1, <1>2 DEF Ordered, First
  <1>4. First(log, t) \in 0..t
    <2>1. CASE log = <<>>
      BY <2>1 DEF First
    <2>2. CASE log # <<>>
      <3>1. 1 \in 1..Len(log)
        BY <1>1, <2>2
      <3> QED BY <1>2, <2>2, <3>1 DEF First
    <2> QED BY <2>1, <2>2
  <1>5. <<>> \in Logs(t)
    BY DEF Logs, Ordered
  <1> QED BY <1>1, <1>2, <1>3, <1>4, <1>5 DEF First

LEMMA LogAllowsLess ==
  ASSUME NEW t \in Nat, NEW log \in Logs(t), NEW a \in Nat, NEW B \in Nat, NEW x \in Int, NEW y \in Int, x <= y,
         LogAllows(y, a, log, t, B)
  PROVE  LogAllows(x, a, log, t, B)
PROOF
  <1> DEFINE slack == IF First(log, t) > a THEN B - 1 ELSE 0
  <1>1. PICK k \in 0..Len(log) :
          /\ \A i \in 1..Len(log) : Len(log) - k < i => a <= log[i]
          /\ y <= k + slack
    BY DEF LogAllows
  <1>2. slack \in Int /\ k \in Int
    BY FirstFacts
  <1> HIDE DEF slack
  <1>3. x <= k + slack
    BY <1>1, <1>2
  <1> QED BY <1>1, <1>3 DEF LogAllows, slack

LEMMA LogAllowsNone ==
  ASSUME NEW t \in Nat, NEW log \in Logs(t), NEW a \in Nat, NEW B \in Nat, B >= 1, NEW x \in Int, x <= 0
  PROVE  LogAllows(x, a, log, t, B)
PROOF
  <1> DEFINE slack == IF First(log, t) > a THEN B - 1 ELSE 0
  <1>1. slack \in Nat
    OBVIOUS
  <1>2. Len(log) \in Nat
    BY FirstFacts
  <1> HIDE DEF slack
  <1>3. 0 \in 0..Len(log) /\ (\A i \in 1..Len(log) : ~(Len(log) - 0 < i)) /\ x <= 0 + slack
    BY <1>1, <1>2
  <1> QED BY <1>3 DEF LogAllows, slack

LEMMA LogAllowsMost ==
  ASSUME NEW t \in Nat, NEW log \in Logs(t), NEW a \in Nat, NEW B \in Nat, B >= 1, NEW x \in Int,
         LogAllows(x, a, log, t, B)
  PROVE  /\ x <= Len(log) + (B - 1)
         /\ ~(First(log, t) > a) => x <= Len(log)
PROOF
  <1> DEFINE slack == IF First(log, t) > a THEN B - 1 ELSE 0
  <1>1. PICK k \in 0..Len(log) : x <= k + slack
    BY DEF LogAllows
  <1>2. slack \in Nat /\ slack <= B - 1 /\ (~(First(log, t) > a) => slack = 0)
    OBVIOUS
  <1>3. k \in Nat /\ k <= Len(log) /\ Len(log) \in Nat
    BY FirstFacts
  <1> HIDE DEF slack
  <1> QED BY <1>1, <1>2, <1>3

\* Later, of a log that has not changed.
LEMMA LogAllowsLater ==
  ASSUME NEW t \in Nat, NEW log \in Logs(t), NEW a \in Nat, NEW B \in Nat, B >= 1, NEW x \in Int,
         LogAllows(x, a, log, t, B)
  PROVE  LogAllows(x, a, log, t + 1, B)
PROOF
  <1> DEFINE slack(u) == IF First(log, u) > a THEN B - 1 ELSE 0
  <1>1. PICK k \in 0..Len(log) :
          /\ \A i \in 1..Len(log) : Len(log) - k < i => a <= log[i]
          /\ x <= k + slack(t)
    BY DEF LogAllows
  <1>2. First(log, t) <= First(log, t + 1) /\ First(log, t) \in Int /\ First(log, t + 1) \in Int
    <2>1. First(log, t) \in Nat
      BY FirstFacts
    <2> QED BY <2>1 DEF First
  <1>3. slack(t) <= slack(t + 1) /\ slack(t) \in Int /\ slack(t + 1) \in Int /\ k \in Int
    BY <1>2
  <1> HIDE DEF slack
  <1>4. x <= k + slack(t + 1)
    BY <1>1, <1>3
  <1> QED BY <1>1, <1>4 DEF LogAllows, slack

\* What is over at time t and goes was not allowed from a on, if a is recent.
LEMMA LogAllowsFresh ==
  ASSUME NEW t \in Nat, NEW log \in Logs(t), NEW a \in 0..t, t < a + Window, NEW B \in Nat, B >= 1, NEW x \in Int,
         LogAllows(x, a, log, t, B)
  PROVE  /\ Fresh(log, t) \in Logs(t) /\ Len(Fresh(log, t)) <= Len(log)
         /\ LogAllows(x, a, Fresh(log, t), t, B)
PROOF
  <1> DEFINE young == (t - Window + 1)..t
             valid == Only(log, young)
             slack(l) == IF First(l, t) > a THEN B - 1 ELSE 0
  <1>1. /\ log \in Seq(0..t) /\ Ordered(log) /\ Len(log) \in Nat /\ Window \in Nat /\ a \in Nat /\ a <= t
        /\ Fresh(log, t) = valid
    BY FirstFacts, Sizes DEF Fresh, Logs
  <1>2. valid \in Logs(t)
    BY <1>1, FreshFacts DEF Logs
  <1>3. PICK k \in 0..Len(log) :
          /\ \A i \in 1..Len(log) : Len(log) - k < i => a <= log[i]
          /\ x <= k + slack(log)
    BY DEF LogAllows
  <1>4. \A i \in 1..Len(log) : log[i] \in Nat /\ log[i] <= t /\ First(log, t) <= log[i]
    BY FirstFacts
  <1>5. \A i \in 1..Len(log) : Len(log) - k < i => log[i] \in young
    BY <1>1, <1>3, <1>4
  <1>6. /\ Len(valid) \in Nat
        /\ \A j \in 1..Len(valid) : PlaceOf(log, young, j) \in 1..Len(log) /\ valid[j] = log[PlaceOf(log, young, j)]
    <2>1. Len(valid) \in Nat
      BY <1>2, FirstFacts
    <2> HIDE DEF young
    <2> QED BY <1>1, <2>1, OnlyKeeps
  <1>7. /\ k <= Len(valid)
        /\ \A j \in 1..Len(valid) : Len(valid) - k < j => Len(log) - k < PlaceOf(log, young, j)
    <2> HIDE DEF young
    <2> QED BY <1>1, <1>5, OnlyEnds
  <1>8. Len(valid) <= Len(log)
    <2>1. 0 \in 0..Len(log) /\ \A i \in 1..0 : log[i] \notin young
      BY <1>1
    <2> HIDE DEF young
    <2>2. Len(valid) <= Len(log) - 0
      BY <1>1, <2>1, OnlyDrops
    <2> QED BY <1>1, <2>2
  <1> HIDE DEF young, valid
  <1>9. \A j \in 1..Len(valid) : Len(valid) - k < j => a <= valid[j]
    BY <1>3, <1>6, <1>7
  <1>10. First(log, t) > a => First(valid, t) > a
    <2>1. First(log, t) <= t /\ First(log, t) \in Nat
      BY FirstFacts
    <2>2. CASE valid = <<>>
      BY <1>1, <2>1, <2>2 DEF First
    <2>3. CASE valid # <<>>
      <3>1. 1 \in 1..Len(valid)
        BY <1>2, <1>6, <2>3 DEF Logs
      <3>2. First(valid, t) = valid[1] /\ First(log, t) <= valid[1] /\ valid[1] \in Nat
        BY <1>4, <1>6, <2>3, <3>1 DEF First
      <3> QED BY <1>1, <2>1, <3>2
    <2> QED BY <2>2, <2>3
  <1>11. slack(log) <= slack(valid) /\ slack(log) \in Nat /\ slack(valid) \in Nat
    BY <1>10
  <1> HIDE DEF slack
  <1>12. k \in 0..Len(valid) /\ x <= k + slack(valid)
    BY <1>3, <1>6, <1>7, <1>11
  <1> QED BY <1>1, <1>2, <1>8, <1>9, <1>12 DEF LogAllows, slack

LEMMA LogAllowsAdded ==
  ASSUME NEW t \in Nat, NEW log \in Logs(t), NEW a \in 0..t, NEW B \in Nat, B >= 1, NEW x \in Int, NEW w \in Nat,
         LogAllows(x, a, log, t, B)
  PROVE  LogAllows(x + w, a, log \o [i \in 1..w |-> t], t, B)
PROOF
  <1> DEFINE more == [i \in 1..w |-> t]
             next == log \o more
             slack(l) == IF First(l, t) > a THEN B - 1 ELSE 0
  <1>1. log \in Seq(0..t) /\ Ordered(log) /\ Len(log) \in Nat /\ a \in Nat /\ a <= t
    BY FirstFacts DEF Logs
  <1>2. next \in Logs(t) /\ Len(next) = Len(log) + w
    BY <1>1, AddedFacts DEF Logs
  <1>3. PICK k \in 0..Len(log) :
          /\ \A i \in 1..Len(log) : Len(log) - k < i => a <= log[i]
          /\ x <= k + slack(log)
    BY DEF LogAllows
  <1>4. \A i \in 1..Len(next) : /\ i <= Len(log) => next[i] = log[i] /\ i \in 1..Len(log)
                                /\ ~(i <= Len(log)) => next[i] = t
    <2>1. more \in Seq(0..t) /\ Len(more) = w
      OBVIOUS
    <2>2. \A i \in 1..w : more[i] = t
      OBVIOUS
    <2> HIDE DEF more
    <2>3. \A i \in 1..Len(next) : next[i] = IF i <= Len(log) THEN log[i] ELSE more[i - Len(log)]
      BY <1>1, <2>1, ConcatProperties
    <2> HIDE DEF next
    <2>4. \A i \in 1..Len(next) : /\ i <= Len(log) => i \in 1..Len(log)
                                  /\ ~(i <= Len(log)) => i - Len(log) \in 1..w
      BY <1>1, <1>2
    <2> QED BY <2>2, <2>3, <2>4
  <1> HIDE DEF next
  <1>5. \A i \in 1..Len(next) : Len(next) - (k + w) < i => a <= next[i]
    <2>1. ASSUME NEW i \in 1..Len(next), Len(next) - (k + w) < i
          PROVE  a <= next[i]
      <3>1. CASE i <= Len(log)
        <4>1. Len(log) - k < i
          BY <1>1, <1>2, <2>1
        <4> QED BY <1>3, <1>4, <3>1, <4>1
      <3>2. CASE ~(i <= Len(log))
        BY <1>1, <1>4, <3>2
      <3> QED BY <3>1, <3>2
    <2> QED BY <2>1
  <1>6. First(log, t) > a => First(next, t) > a
    <2>1. First(log, t) <= t /\ First(log, t) \in Nat
      BY FirstFacts
    <2>2. CASE next = <<>>
      BY <1>1, <2>1, <2>2 DEF First
    <2>3. CASE next # <<>>
      <3>1. 1 \in 1..Len(next) /\ First(next, t) = next[1]
        BY <1>2, <2>3 DEF First, Logs
      <3>2. CASE 1 <= Len(log)
        <4>1. next[1] = log[1] /\ First(log, t) = log[1]
          BY <1>4, <3>1, <3>2 DEF First
        <4> QED BY <3>1, <4>1
      <3>3. CASE ~(1 <= Len(log))
        <4>1. next[1] = t
          BY <1>4, <3>1, <3>3
        <4> QED BY <1>1, <2>1, <3>1, <4>1
      <3> QED BY <3>2, <3>3
    <2> QED BY <2>2, <2>3
  <1>7. slack(log) <= slack(next) /\ slack(log) \in Nat /\ slack(next) \in Nat
    BY <1>6
  <1> HIDE DEF slack
  <1>8. k + w \in 0..Len(next) /\ x + w <= (k + w) + slack(next)
    BY <1>1, <1>2, <1>3, <1>7
  <1> QED BY <1>5, <1>8 DEF LogAllows, slack, next

LEMMA LogStates == \A t : States("sliding-window-log", t) = Logs(t)
PROOF
  BY StatesAre DEF Logs

LEMMA RecentFacts ==
  ASSUME Types
  PROVE  /\ now \in Nat /\ now \in Recent
         /\ \A a \in Recent : a \in 0..now /\ a \in Nat /\ a <= now /\ now < a + Window
PROOF
  BY Numbers, Sizes DEF Recent

LEMMA CoversMost ==
  ASSUME Types, NEW s \in StoreNames, NEW log \in Logs(now), Covers(s, log), NEW a \in Recent
  PROVE  Excess(s, a) <= 2 * Bound(s) - 1
PROOF
  <1> DEFINE x == Excess(s, a)
             B == Bound(s)
  <1>1. /\ now \in Nat /\ a \in 0..now /\ a \in Nat /\ B \in Nat /\ B >= 1 /\ x \in Int
    BY RecentFacts, BoundFacts, ExcessTypes
  <1>2. Len(log) <= B /\ Len(log) \in Nat /\ LogAllows(x, a, log, now, B)
    BY <1>1, FirstFacts DEF Covers
  <1> HIDE DEF x, B
  <1>3. x <= Len(log) + (B - 1)
    BY <1>1, <1>2, LogAllowsMost
  <1> QED BY <1>1, <1>2, <1>3 DEF x, B

\* What the log accounted for is not more than the slack of an empty one, when it is dropped.
LEMMA CoversDead ==
  ASSUME Types, NEW s \in StoreNames, NEW e \in Entries, algorithm = "sliding-window-log",
         Covers(s, Log(e)), LogDropped(e), ~Live(e)
  PROVE  Covers(s, <<>>)
PROOF
  <1>1. now \in Nat /\ Bound(s) \in Nat /\ Bound(s) >= 1 /\ Window \in Nat /\ Window > 0
    BY Numbers, BoundFacts, Sizes
  <1>2. CASE e = Nothing
    BY <1>2 DEF Log
  <1>3. CASE e # Nothing
    <2> DEFINE log == e.state
    <2>1. log \in Logs(now) /\ e.until \in Nat /\ ~(now <= e.until) /\ Log(e) = log
      BY <1>3, EntryFacts, LogStates DEF Live, Log
    <2>2. /\ log # <<>> /\ log[1] + Window <= e.until + 1
          /\ \A i \in 1..Len(log) : log[i] <= e.until
      BY <1>3 DEF LogDropped
    <2>3. Len(log) <= Bound(s) /\ \A a \in Recent : LogAllows(Excess(s, a), a, log, now, Bound(s))
      BY <2>1 DEF Covers
    <2> HIDE DEF log
    <2>4. /\ Len(log) \in Nat /\ Len(log) >= 1 /\ First(log, now) = log[1]
          /\ \A i \in 1..Len(log) : log[i] \in Nat
          /\ <<>> \in Logs(now) /\ First(<<>>, now) = now /\ Len(<<>>) = 0
      <3>1. /\ \A i \in 1..Len(log) : log[i] \in Nat
            /\ Len(log) \in Nat /\ <<>> \in Logs(now) /\ First(<<>>, now) = now /\ Len(<<>>) = 0
        BY <1>1, <2>1, FirstFacts
      <3>2. Len(log) # 0
        BY <2>1, <2>2 DEF Logs
      <3> QED BY <2>2, <3>1, <3>2 DEF First
    <2>5. 1 \in 1..Len(log) /\ log[1] \in Nat /\ log[1] + Window <= now
      BY <1>1, <2>1, <2>2, <2>4
    <2>6. ASSUME NEW a \in Recent
          PROVE  LogAllows(Excess(s, a), a, <<>>, now, Bound(s))
      <3> DEFINE x == Excess(s, a)
                 B == Bound(s)
      <3>1. a \in 0..now /\ a \in Nat /\ a <= now /\ now < a + Window /\ x \in Int
        BY RecentFacts, ExcessTypes
      <3>2. LogAllows(x, a, log, now, B) /\ Len(log) <= B /\ B \in Nat /\ B >= 1
        BY <1>1, <2>3
      <3> HIDE DEF x, B
      <3>3. PICK k \in 0..Len(log) :
              /\ \A i \in 1..Len(log) : Len(log) - k < i => a <= log[i]
              /\ x <= k + (IF First(log, now) > a THEN B - 1 ELSE 0)
        BY <3>2 DEF LogAllows
      <3>4. log[1] < a
        BY <1>1, <2>5, <3>1
      <3>5. k < Len(log) /\ k \in Nat
        <4>1. k = Len(log) => Len(log) - k < 1
          BY <2>4
        <4>2. k # Len(log)
          BY <2>5, <3>1, <3>3, <3>4, <4>1
        <4> QED BY <2>4, <4>2
      <3>9. ~(First(log, now) > a)
        BY <2>4, <2>5, <3>1, <3>4
      <3>10. x <= k + 0
        BY <3>3, <3>9
      <3>6. x <= k
        BY <3>5, <3>10
      <3>7. CASE a < now
        <4>1. x <= 0 + (B - 1) /\ First(<<>>, now) > a
          BY <2>4, <3>1, <3>2, <3>5, <3>6, <3>7
        <4>2. 0 \in 0..Len(<<>>) /\ \A i \in 1..Len(<<>>) : Len(<<>>) - 0 < i => a <= (<<>>)[i]
          BY <2>4
        <4>3. x <= 0 + (IF First(<<>>, now) > a THEN B - 1 ELSE 0)
          BY <4>1
        <4> QED BY <4>2, <4>3 DEF LogAllows, x, B
      <3>8. CASE a = now
        <4>1. Len(log) \in 1..Len(log) /\ log[Len(log)] < a
          <5>1. Len(log) \in 1..Len(log)
            BY <2>4
          <5>2. log[Len(log)] <= e.until /\ log[Len(log)] \in Nat
            BY <2>2, <2>4, <5>1
          <5> QED BY <1>1, <2>1, <3>8, <5>1, <5>2
        <4>2. k = 0
          BY <2>4, <3>1, <3>3, <3>5, <4>1
        <4>3. x <= 0
          BY <3>1, <3>6, <4>2
        <4> QED BY <1>1, <2>4, <3>1, <3>2, <4>3, LogAllowsNone DEF x, B
      <3> QED BY <1>1, <3>1, <3>7, <3>8
    <2>7. Len(<<>>) <= Bound(s)
      BY <1>1, <2>4
    <2> QED BY <2>6, <2>7 DEF Covers
  <1> QED BY <1>2, <1>3

LEMMA CoversIs ==
  ASSUME NEW s, now' = now, Bound(s)' = Bound(s)
  PROVE  \A log : Len(log) <= Bound(s) /\ (\A a \in Recent : LogAllows(Excess(s, a)', a, log, now, Bound(s)))
                    => Covers(s, log)'
PROOF
  BY DEF Covers, Recent, LogAllows, First

\* What stays, or becomes less, is accounted for by the same log.
LEMMA CoversStays ==
  ASSUME Types, NEW s \in StoreNames, now' = now, Bound(s)' = Bound(s),
         \A a \in 0..now : Excess(s, a)' \in Int /\ Excess(s, a)' <= Excess(s, a)
  PROVE  \A log \in Logs(now) : Covers(s, log) => Covers(s, log)'
PROOF
  <1>1. SUFFICES ASSUME NEW log \in Logs(now), Covers(s, log)
                 PROVE  Covers(s, log)'
    OBVIOUS
  <1>2. ASSUME NEW a \in Recent
        PROVE  LogAllows(Excess(s, a)', a, log, now, Bound(s))
    <2> DEFINE x == Excess(s, a)'
               y == Excess(s, a)
               B == Bound(s)
    <2>1. /\ now \in Nat /\ a \in 0..now /\ a \in Nat /\ B \in Nat /\ y \in Int /\ x \in Int /\ x <= y
      BY RecentFacts, BoundFacts, ExcessTypes
    <2>2. LogAllows(y, a, log, now, B)
      BY <1>1 DEF Covers
    <2> HIDE DEF x, y, B
    <2>3. LogAllows(x, a, log, now, B)
      BY <1>1, <2>1, <2>2, LogAllowsLess
    <2> QED BY <2>3 DEF x, B
  <1> QED BY <1>1, <1>2, CoversIs DEF Covers

\* Where nothing is left that was allowed, every log accounts for it.
LEMMA CoversNone ==
  ASSUME Types, NEW s \in StoreNames, now' = now, Bound(s)' = Bound(s),
         \A a \in 0..now : Excess(s, a)' \in Int /\ Excess(s, a)' <= 0
  PROVE  \A log \in Logs(now) : Len(log) <= Bound(s) => Covers(s, log)'
PROOF
  <1>1. SUFFICES ASSUME NEW log \in Logs(now), Len(log) <= Bound(s)
                 PROVE  Covers(s, log)'
    OBVIOUS
  <1>2. ASSUME NEW a \in Recent
        PROVE  LogAllows(Excess(s, a)', a, log, now, Bound(s))
    <2> DEFINE x == Excess(s, a)'
               B == Bound(s)
    <2>1. now \in Nat /\ a \in 0..now /\ a \in Nat /\ B \in Nat /\ B >= 1 /\ x \in Int /\ x <= 0
      BY RecentFacts, BoundFacts
    <2> HIDE DEF x, B
    <2>2. LogAllows(x, a, log, now, B)
      BY <1>1, <2>1, LogAllowsNone
    <2> QED BY <2>2 DEF x, B
  <1> QED BY <1>1, <1>2, CoversIs

LEMMA CoversEvicted ==
  ASSUME Types, NEW s \in StoreNames, now' = now, Bound(s)' = Bound(s), NEW log \in Logs(now), Covers(s, log),
         \A a \in 0..now : Excess(s, a)' = Excess(s, a) - Bound(s)
  PROVE  \A empty : empty = <<>> => Covers(s, empty)'
PROOF
  <1>1. ASSUME NEW a \in Recent
        PROVE  LogAllows(Excess(s, a)', a, <<>>, now, Bound(s))
    <2> DEFINE x == Excess(s, a)'
               y == Excess(s, a)
               B == Bound(s)
    <2>1. /\ now \in Nat /\ a \in 0..now /\ a \in Nat /\ a <= now /\ B \in Nat /\ B >= 1 /\ y \in Int /\ x = y - B
      BY RecentFacts, BoundFacts, ExcessTypes
    <2>2. LogAllows(y, a, log, now, B) /\ Len(log) <= B
      BY DEF Covers
    <2> HIDE DEF x, y, B
    <2>3. /\ Len(log) \in Nat /\ <<>> \in Logs(now) /\ First(<<>>, now) = now /\ Len(<<>>) = 0
          /\ First(log, now) \in Nat /\ First(log, now) <= now
      BY <2>1, FirstFacts
    <2>4. /\ y <= Len(log) + (B - 1)
          /\ ~(First(log, now) > a) => y <= Len(log)
      BY <2>1, <2>2, LogAllowsMost
    <2>5. CASE First(log, now) > a
      <3>1. x <= 0 + (B - 1) /\ First(<<>>, now) > a
        BY <2>1, <2>2, <2>3, <2>4, <2>5
      <3>2. 0 \in 0..Len(<<>>) /\ \A i \in 1..Len(<<>>) : Len(<<>>) - 0 < i => a <= (<<>>)[i]
        BY <2>3
      <3>3. x <= 0 + (IF First(<<>>, now) > a THEN B - 1 ELSE 0)
        BY <3>1
      <3> QED BY <3>2, <3>3 DEF LogAllows, x, B
    <2>6. CASE ~(First(log, now) > a)
      <3>1. x <= 0 /\ x \in Int
        BY <2>1, <2>2, <2>3, <2>4, <2>6
      <3>2. LogAllows(x, a, <<>>, now, B)
        BY <2>1, <2>3, <3>1, LogAllowsNone
      <3> QED BY <3>2 DEF x, B
    <2> QED BY <2>5, <2>6
  <1>2. Len(<<>>) <= Bound(s)
    BY BoundFacts
  <1> QED BY <1>1, <1>2, CoversIs

LEMMA CoversTick ==
  ASSUME Types, Steady, Tick, NEW s \in StoreNames
  PROVE  \A log \in Logs(now) : Covers(s, log) => Covers(s, log)'
PROOF
  <1>1. SUFFICES ASSUME NEW log \in Logs(now), Covers(s, log)
                 PROVE  Covers(s, log)'
    OBVIOUS
  <1>2. /\ Bound(s)' = Bound(s)
        /\ \A a \in 0..now : Excess(s, a)' = Excess(s, a)
        /\ \A a : a = now' => Excess(s, a)' <= 0 /\ Excess(s, a)' \in Int
    BY ExcessAfterTick
  <1>3. now \in Nat /\ now' = now + 1 /\ Window \in Nat /\ Window > 0 /\ Bound(s) \in Nat /\ Bound(s) >= 1
    BY Numbers, Sizes, BoundFacts DEF Tick
  <1>4. log \in Logs(now + 1)
    <2>1. "sliding-window-log" \in Algorithms /\ now + 1 \in Nat /\ now <= now + 1
      BY <1>3 DEF Algorithms
    <2> QED BY <1>1, <1>3, <2>1, StatesGrow, LogStates
  <1>5. ASSUME NEW a \in 0..(now + 1), now + 1 < a + Window
        PROVE  LogAllows(Excess(s, a)', a, log, now + 1, Bound(s))
    <2> DEFINE x == Excess(s, a)'
               B == Bound(s)
    <2>1. B \in Nat /\ B >= 1 /\ a \in Nat /\ now + 1 \in Nat /\ now \in Nat
      BY <1>3
    <2>2. CASE a <= now
      <3>1. a \in 0..now /\ a \in Recent
        BY <1>3, <1>5, <2>1, <2>2 DEF Recent
      <3>2. x = Excess(s, a) /\ x \in Int /\ LogAllows(Excess(s, a), a, log, now, B)
        BY <1>1, <1>2, <3>1, ExcessTypes DEF Covers
      <3> HIDE DEF x, B
      <3>3. LogAllows(x, a, log, now + 1, B)
        BY <1>1, <2>1, <3>2, LogAllowsLater
      <3> QED BY <3>3 DEF x, B
    <2>3. CASE ~(a <= now)
      <3>1. a = now'
        BY <1>3, <1>5, <2>1, <2>3
      <3>2. x <= 0 /\ x \in Int
        BY <1>2, <3>1
      <3> HIDE DEF x, B
      <3>3. LogAllows(x, a, log, now + 1, B)
        BY <1>4, <2>1, <3>2, LogAllowsNone
      <3> QED BY <3>3 DEF x, B
    <2> QED BY <2>2, <2>3
  <1>6. Len(log) <= Bound(s)
    BY <1>1 DEF Covers
  <1> QED BY <1>2, <1>3, <1>5, <1>6 DEF Covers, Recent, LogAllows, First

\* What a request does to the log it has read.
LEMMA CoversConsumed ==
  ASSUME Types, NEW s \in StoreNames, now' = now, Bound(s)' = Bound(s),
         NEW log \in Logs(now), Covers(s, log), NEW w \in Nat, NEW allowed \in BOOLEAN, NEW next,
         next = IF allowed THEN Fresh(log, now) \o [i \in 1..w |-> now] ELSE Fresh(log, now),
         allowed => Len(Fresh(log, now)) + w <= Bound(s),
         \A a \in 0..now : /\ Excess(s, a)' \in Int
                           /\ Excess(s, a)' <= Excess(s, a) + IF allowed THEN w ELSE 0
  PROVE  Covers(s, next)'
PROOF
  <1>1. now \in Nat /\ Bound(s) \in Nat /\ Bound(s) >= 1
    BY Numbers, BoundFacts
  <1> DEFINE valid == Fresh(log, now)
  <1>2. \A a \in Recent : /\ valid \in Logs(now) /\ Len(valid) <= Len(log)
                          /\ LogAllows(Excess(s, a), a, valid, now, Bound(s))
    <2>1. SUFFICES ASSUME NEW a \in Recent
                   PROVE  /\ valid \in Logs(now) /\ Len(valid) <= Len(log)
                          /\ LogAllows(Excess(s, a), a, valid, now, Bound(s))
      OBVIOUS
    <2> DEFINE x == Excess(s, a)
               B == Bound(s)
    <2>2. a \in 0..now /\ now < a + Window /\ x \in Int /\ B \in Nat /\ B >= 1 /\ LogAllows(x, a, log, now, B)
      BY <1>1, RecentFacts, ExcessTypes DEF Covers
    <2> HIDE DEF x, B, valid
    <2>3. valid \in Logs(now) /\ Len(valid) <= Len(log) /\ LogAllows(x, a, valid, now, B)
      BY <1>1, <2>2, LogAllowsFresh DEF valid
    <2> QED BY <2>3 DEF x, B
  <1>3. valid \in Logs(now) /\ Len(valid) <= Len(log)
    BY <1>2, RecentFacts
  <1> HIDE DEF valid
  <1>4. ASSUME NEW a \in Recent
        PROVE  LogAllows(Excess(s, a)', a, next, now, Bound(s))
    <2> DEFINE x == Excess(s, a)
               y == Excess(s, a)'
               B == Bound(s)
    <2>1. /\ a \in 0..now /\ a \in Nat /\ x \in Int /\ B \in Nat /\ B >= 1 /\ LogAllows(x, a, valid, now, B)
          /\ y \in Int /\ y <= x + IF allowed THEN w ELSE 0
      BY <1>1, <1>2, RecentFacts, ExcessTypes
    <2> HIDE DEF x, y, B
    <2>2. CASE allowed
      <3>1. next = valid \o [i \in 1..w |-> now] /\ y <= x + w /\ x + w \in Int
        BY <2>1, <2>2 DEF valid
      <3>2. LogAllows(x + w, a, next, now, B)
        BY <1>1, <1>3, <2>1, <3>1, LogAllowsAdded
      <3>3. next \in Logs(now)
        BY <1>1, <1>3, <3>1, AddedFacts DEF Logs
      <3>4. LogAllows(y, a, next, now, B)
        BY <1>1, <2>1, <3>1, <3>2, <3>3, LogAllowsLess
      <3> QED BY <3>4 DEF y, B
    <2>3. CASE ~allowed
      <3>1. next = valid /\ y <= x
        BY <2>1, <2>3 DEF valid
      <3>2. LogAllows(y, a, next, now, B)
        BY <1>1, <1>3, <2>1, <3>1, LogAllowsLess
      <3> QED BY <3>2 DEF y, B
    <2> QED BY <2>2, <2>3
  <1>5. Len(next) <= Bound(s)
    <2>1. CASE allowed
      <3>1. Len(next) = Len(valid) + w
        <4>1. next = valid \o [i \in 1..w |-> now]
          BY <2>1 DEF valid
        <4> QED BY <1>1, <1>3, <4>1, AddedFacts DEF Logs
      <3> QED BY <2>1, <3>1 DEF valid
    <2>2. CASE ~allowed
      <3>1. next = valid /\ Len(log) <= Bound(s)
        BY <2>2 DEF valid, Covers
      <3>2. Len(log) \in Nat /\ Len(valid) \in Nat
        BY <1>1, <1>3, FirstFacts
      <3> QED BY <1>1, <1>3, <3>1, <3>2
    <2> QED BY <2>1, <2>2
  <1> QED BY <1>4, <1>5, CoversIs

\* The step of either store in which it is not asked.
LEMMA LogsAre ==
  ASSUME Types, algorithm = "sliding-window-log"
  PROVE  /\ memory # Nothing => memory.state \in Logs(now)
         /\ redis # Nothing => redis.state \in Logs(now)
         /\ Log(memory) \in Logs(now) /\ Log(redis) \in Logs(now)
         /\ \A i \in 1..Len(waiting) : waiting[i].state \in Logs(now)
         /\ MemoryState = IF Live(memory) THEN memory.state ELSE <<>>
         /\ RedisState = IF Live(redis) THEN redis.state ELSE <<>>
PROOF
  <1>1. /\ memory # Nothing => memory.state \in Logs(now)
        /\ redis # Nothing => redis.state \in Logs(now)
    BY EntryFacts, LogStates DEF Types
  <1>2. <<>> \in Logs(now)
    BY DEF Logs, Ordered
  <1> DEFINE R == [weight : Weights, state : States(algorithm, now)]
  <1>3. waiting \in Seq(R)
    BY DEF Types
  <1>4. \A x \in R : x.state \in Logs(now)
    BY LogStates
  <1> HIDE DEF R
  <1>5. \A i \in 1..Len(waiting) : waiting[i] \in R
    BY <1>3
  <1>6. /\ MemoryState = IF Live(memory) THEN memory.state ELSE <<>>
        /\ RedisState = IF Live(redis) THEN redis.state ELSE <<>>
    BY DEF MemoryState, RedisState, InitialState, LuaInitialState
  <1> QED BY <1>1, <1>2, <1>4, <1>5, <1>6 DEF Log

\* The entry that a request writes is not dropped before its oldest timestamp is over.
LEMMA WrittenLogs ==
  ASSUME Types, algorithm = "sliding-window-log", NEW v, v.state \in Logs(now), v.resetAt \in Int,
         v.state # <<>>, v.resetAt >= v.state[1] + Window
  PROVE  /\ Log(Kept(v)) = v.state /\ Log(KeptInRedis(v)) = v.state
         /\ LogDropped(Kept(v)) /\ LogDropped(KeptInRedis(v))
PROOF
  <1>1. /\ Kept(v) # Nothing /\ Kept(v).state = v.state
        /\ Kept(v).until = IF v.resetAt > now THEN v.resetAt ELSE now + 1
        /\ KeptInRedis(v) # Nothing /\ KeptInRedis(v).state = v.state
        /\ KeptInRedis(v).until = IF v.resetAt > now THEN v.resetAt - 1 ELSE now
    BY KeptFacts, LogStates
  <1>2. now \in Nat /\ Window \in Nat
    BY Numbers, Sizes
  <1>3. /\ Len(v.state) \in Nat
        /\ \A i \in 1..Len(v.state) : v.state[i] \in Nat /\ v.state[i] <= now
    BY <1>2, FirstFacts
  <1>4. v.state[1] \in Nat
    <2>1. Len(v.state) # 0
      BY DEF Logs
    <2> QED BY <1>3, <2>1
  <1>5. LogDropped(Kept(v))
    <2>1. Kept(v).until \in Int /\ Kept(v).until >= now /\ Kept(v).until >= v.resetAt
      BY <1>1, <1>2
    <2>2. \A i \in 1..Len(v.state) : v.state[i] <= Kept(v).until
      BY <1>2, <1>3, <2>1
    <2>3. v.state[1] + Window <= Kept(v).until + 1
      BY <1>2, <1>4, <2>1
    <2> QED BY <1>1, <2>2, <2>3 DEF LogDropped
  <1>6. LogDropped(KeptInRedis(v))
    <2>1. KeptInRedis(v).until \in Int /\ KeptInRedis(v).until >= now /\ KeptInRedis(v).until + 1 >= v.resetAt
      BY <1>1, <1>2
    <2>2. \A i \in 1..Len(v.state) : v.state[i] <= KeptInRedis(v).until
      BY <1>2, <1>3, <2>1
    <2>3. v.state[1] + Window <= KeptInRedis(v).until + 1
      BY <1>2, <1>4, <2>1
    <2> QED BY <1>1, <2>2, <2>3 DEF LogDropped
  <1> QED BY <1>1, <1>5, <1>6 DEF Log

LEMMA MemoryLogRead ==
  ASSUME Types, algorithm = "sliding-window-log", callers = 1, MemoryLog
  PROVE  Covers("memory", MemoryState)
PROOF
  <1>1. "memory" \in StoreNames /\ memory \in Entries
    BY DEF StoreNames, Types
  <1>2. Covers("memory", Log(memory)) /\ LogDropped(memory)
    BY DEF MemoryLog
  <1>3. CASE Live(memory)
    BY <1>2, <1>3, LogsAre DEF Log, Live
  <1>4. CASE ~Live(memory)
    <2>1. Covers("memory", <<>>)
      BY <1>1, <1>2, <1>4, CoversDead
    <2> QED BY <1>4, <2>1, LogsAre
  <1> QED BY <1>3, <1>4

LEMMA RedisLogRead ==
  ASSUME Types, algorithm = "sliding-window-log", RedisLog
  PROVE  Covers("redis", RedisState)
PROOF
  <1>1. "redis" \in StoreNames /\ redis \in Entries
    BY DEF StoreNames, Types
  <1>2. Covers("redis", Log(redis)) /\ LogDropped(redis)
    BY DEF RedisLog
  <1>3. CASE Live(redis)
    BY <1>2, <1>3, LogsAre DEF Log, Live
  <1>4. CASE ~Live(redis)
    <2>1. Covers("redis", <<>>)
      BY <1>1, <1>2, <1>4, CoversDead
    <2> QED BY <1>4, <2>1, LogsAre
  <1> QED BY <1>3, <1>4

LEMMA MemoryLogWriteBack ==
  ASSUME Types, MemoryLog, WriteBack, algorithm = "sliding-window-log", callers = 1
  PROVE  MemoryLog'
PROOF
  <1> DEFINE w == Head(waiting).weight
             st == Head(waiting).state
             v == Consume(algorithm, st, w, now)
  <1>1. /\ waiting # <<>> /\ memory' = Kept(v) /\ Grant("memory", w, v.allowed) /\ waiting' = Tail(waiting)
        /\ now' = now /\ callers' = callers /\ evicted' = evicted /\ algorithm' = algorithm
    BY DEF WriteBack, setup, bounds
  <1>2. /\ w \in Weights /\ st \in Logs(now) /\ Head(waiting) = waiting[1]
        /\ v.state \in Logs(now) /\ v.resetAt \in Int /\ v.allowed \in BOOLEAN
        /\ Len(waiting) >= 1 /\ Len(Tail(waiting)) = Len(waiting) - 1
    BY <1>1, HeadTypes, LogStates
  <1>3. Len(waiting') = 0 /\ 1 \in 1..Len(waiting)
    <2>1. Len(waiting) <= callers /\ Len(waiting) \in Nat
      BY DEF Types
    <2> QED BY <1>1, <1>2, <2>1
  <1>4. v = SlidingLog(st, w, now)
    BY DEF Consume
  <1>5. now \in Nat /\ "memory" \in StoreNames /\ Bound("memory") = Limit /\ Limit \in Nat /\ w \in Nat
    BY <1>2, Numbers, BoundFacts, Sizes DEF StoreNames
  <1>6. /\ v.allowed <=> Len(Fresh(st, now)) + w <= Limit
        /\ v.state = IF v.allowed THEN Fresh(st, now) \o [i \in 1..w |-> now] ELSE Fresh(st, now)
        /\ v.state # <<>> /\ v.resetAt >= v.state[1] + Window
    BY <1>2, <1>4, <1>5, LogStates, SlidingLogFacts
  <1>7. Covers("memory", st)
    BY <1>2, <1>3 DEF MemoryLog
  <1>8. /\ Bound("memory")' = Bound("memory")
        /\ \A a \in 0..now : /\ Excess("memory", a)' \in Int
                             /\ Excess("memory", a)' <= Excess("memory", a) + IF v.allowed THEN w ELSE 0
    <2>1. /\ Bound("memory")' = Bound("memory")
          /\ \A a \in 0..now : Excess("memory", a)' = Excess("memory", a) + IF v.allowed /\ "memory" = "memory" THEN w ELSE 0
      BY <1>1, <1>2, <1>5, ExcessAfterGrant
    <2>2. \A a \in 0..now : Excess("memory", a) \in Int
      BY <1>5, ExcessTypes
    <2> HIDE DEF v, w
    <2> QED BY <1>5, <2>1, <2>2
  <1> HIDE DEF v, st, w
  <1>9. PICK e : e = Kept(v)
    OBVIOUS
  <1>10. Log(e) = v.state /\ LogDropped(e)
    BY <1>2, <1>6, <1>9, WrittenLogs
  <1>11. Covers("memory", Log(e))'
    BY <1>1, <1>2, <1>5, <1>6, <1>7, <1>8, <1>10, CoversConsumed
  <1>12. memory' = e
    BY <1>1, <1>9
  <1>13. Covers("memory", Log(memory))' /\ LogDropped(memory)'
    BY <1>10, <1>11, <1>12 DEF Log, LogDropped
  <1>14. \A i : i \notin 1..Len(waiting')
    BY <1>3
  <1> QED BY <1>13, <1>14 DEF MemoryLog

LEMMA MemoryLogStep ==
  ASSUME Types, Steady, MemoryLog, [Next]_vars
  PROVE  MemoryLog'
PROOF
  <1>1. algorithm' = algorithm /\ callers' = callers
    BY DEF Next, vars, setup, ConsumeFromMemory, ConsumeFromRedis, RedisFails, WriteBack, Reset, Evict, Tick
  <1>2. SUFFICES ASSUME algorithm = "sliding-window-log", callers = 1
                 PROVE  MemoryLog'
    BY <1>1 DEF MemoryLog
  <1>3. /\ "memory" \in StoreNames /\ "redis" \in StoreNames /\ now \in Nat
        /\ Bound("memory") \in Nat /\ Bound("memory") >= 1
        /\ \A a \in 0..now : Excess("memory", a) \in Int
    <2>1. "memory" \in StoreNames /\ "redis" \in StoreNames /\ now \in Nat
      BY Numbers DEF StoreNames
    <2> QED BY <2>1, ExcessTypes, BoundFacts
  <1>4. /\ Log(memory) \in Logs(now) /\ \A i \in 1..Len(waiting) : waiting[i].state \in Logs(now)
        /\ <<>> \in Logs(now) /\ Len(<<>>) = 0
    BY <1>2, <1>3, LogsAre, FirstFacts
  <1>5. /\ Covers("memory", Log(memory)) /\ LogDropped(memory)
        /\ \A i \in 1..Len(waiting) : Covers("memory", waiting[i].state)
    BY <1>2 DEF MemoryLog
  <1>6. ASSUME memory' = memory, waiting' = waiting, \A log \in Logs(now) : Covers("memory", log) => Covers("memory", log)'
        PROVE  MemoryLog'
    <2>1. Covers("memory", Log(memory))' /\ LogDropped(memory)'
      BY <1>4, <1>5, <1>6 DEF Log, LogDropped
    <2>2. \A i \in 1..Len(waiting) : Covers("memory", waiting[i].state)'
      BY <1>4, <1>5, <1>6
    <2> QED BY <1>6, <2>1, <2>2 DEF MemoryLog
  <1>7. ASSUME memory' = Nothing, waiting' = waiting, \A e : e = <<>> => Covers("memory", e)',
               \A log \in Logs(now) : Covers("memory", log) => Covers("memory", log)'
        PROVE  MemoryLog'
    <2>1. Covers("memory", Log(memory))' /\ LogDropped(memory)'
      BY <1>7 DEF Log, LogDropped
    <2>2. \A i \in 1..Len(waiting) : Covers("memory", waiting[i].state)'
      BY <1>4, <1>5, <1>7
    <2> QED BY <1>7, <2>1, <2>2 DEF MemoryLog
  <1>8. ASSUME granted' = granted, now' = now, evicted' = evicted
        PROVE  \A log \in Logs(now) : Covers("memory", log) => Covers("memory", log)'
    <2>1. Bound("memory")' = Bound("memory") /\ \A a : Excess("memory", a)' = Excess("memory", a)
      BY <1>1, <1>3, <1>8, ExcessStays
    <2>2. \A a \in 0..now : Excess("memory", a)' \in Int /\ Excess("memory", a)' <= Excess("memory", a)
      BY <1>3, <2>1
    <2> QED BY <1>3, <1>8, <2>1, <2>2, CoversStays
  <1>9. ASSUME NEW w \in Weights, ReadMemory(w), granted' = granted, now' = now, evicted' = evicted
        PROVE  MemoryLog'
    <2>1. \A log \in Logs(now) : Covers("memory", log) => Covers("memory", log)'
      BY <1>8, <1>9
    <2>2. /\ Len(waiting') = Len(waiting) + 1
          /\ \A i \in 1..Len(waiting') :
               waiting'[i] = IF i <= Len(waiting) THEN waiting[i] ELSE [weight |-> w, state |-> MemoryState]
          /\ memory' = IF Live(memory) THEN memory ELSE Nothing
      BY <1>9, ReadMemoryTypes
    <2>3. Covers("memory", MemoryState) /\ MemoryState \in Logs(now)
      BY <1>2, MemoryLogRead, StateTypes, LogStates
    <2>4. ASSUME NEW i \in 1..Len(waiting')
          PROVE  Covers("memory", waiting'[i].state) /\ waiting'[i].state \in Logs(now)
      <3>1. Len(waiting) \in Nat
        BY DEF Types
      <3>2. CASE i <= Len(waiting)
        <4>1. i \in 1..Len(waiting) /\ waiting'[i] = waiting[i]
          BY <2>2, <3>1, <3>2
        <4> QED BY <1>4, <1>5, <4>1
      <3>3. CASE ~(i <= Len(waiting))
        BY <2>2, <2>3, <3>3
      <3> QED BY <3>2, <3>3
    <2>5. \A i \in 1..Len(waiting') : Covers("memory", waiting[i].state)'
      BY <2>1, <2>4
    <2>6. Covers("memory", Log(memory))' /\ LogDropped(memory)'
      <3>1. CASE Live(memory)
        <4>1. memory' = memory
          BY <2>2, <3>1
        <4> QED BY <1>4, <1>5, <2>1, <4>1 DEF Log, LogDropped
      <3>2. CASE ~Live(memory)
        <4>1. memory' = Nothing
          BY <2>2, <3>2
        <4>2. memory \in Entries
          BY DEF Types
        <4>3. Covers("memory", <<>>)
          BY <1>2, <1>3, <1>5, <3>2, <4>2, CoversDead
        <4>4. \A e : e = <<>> => Covers("memory", e)'
          BY <1>4, <2>1, <4>3
        <4> QED BY <4>1, <4>4 DEF Log, LogDropped
      <3> QED BY <3>1, <3>2
    <2> QED BY <2>5, <2>6 DEF MemoryLog
  <1>10. ASSUME NEW w \in Weights, ConsumeFromMemory(w)
         PROVE  MemoryLog'
    BY <1>9, <1>10 DEF ConsumeFromMemory
  <1>11. ASSUME NEW w \in Weights, ConsumeFromRedis(w)
         PROVE  MemoryLog'
    <2>1. /\ Grant("redis", w, Script(w).allowed) /\ now' = now /\ memory' = memory /\ waiting' = waiting
          /\ evicted' = evicted
      BY <1>11 DEF ConsumeFromRedis
    <2>2. /\ Bound("memory")' = Bound("memory")
          /\ \A a \in 0..now : Excess("memory", a)' = Excess("memory", a) + IF Script(w).allowed /\ "memory" = "redis" THEN w ELSE 0
      BY <1>1, <1>3, <2>1, ScriptTypes, ExcessAfterGrant
    <2>3. \A a \in 0..now : Excess("memory", a)' \in Int /\ Excess("memory", a)' <= Excess("memory", a)
      BY <1>3, <2>2
    <2>4. \A log \in Logs(now) : Covers("memory", log) => Covers("memory", log)'
      BY <1>3, <2>1, <2>2, <2>3, CoversStays
    <2> QED BY <1>6, <2>1, <2>4
  <1>12. ASSUME NEW w \in Weights, RedisFails(w)
         PROVE  MemoryLog'
    BY <1>6, <1>8, <1>9, <1>12 DEF RedisFails
  <1>13. CASE WriteBack
    BY <1>2, <1>13, MemoryLogWriteBack
  <1>14. CASE Reset
    <2>1. now' = now /\ waiting' = waiting /\ evicted' = evicted
      BY <1>14 DEF Reset
    <2>2. CASE memory' = Nothing /\ granted' = [granted EXCEPT !["memory"] = None]
      <3>1. /\ Bound("memory")' = Bound("memory")
            /\ \A a \in 0..now : Excess("memory", a)' \in Int /\ Excess("memory", a)' <= 0
        BY <1>1, <1>3, <2>1, <2>2, ExcessAfterReset
      <3>2. \A log \in Logs(now) : Len(log) <= Bound("memory") => Covers("memory", log)'
        BY <1>3, <2>1, <3>1, CoversNone
      <3>3. \A log \in Logs(now) : Covers("memory", log) => Covers("memory", log)'
        BY <3>2 DEF Covers
      <3>4. \A e : e = <<>> => Covers("memory", e)'
        BY <1>3, <1>4, <3>2
      <3> QED BY <1>7, <2>1, <2>2, <3>3, <3>4
    <2>3. CASE memory' = memory /\ granted' = [granted EXCEPT !["redis"] = None]
      <3>1. /\ Bound("memory")' = Bound("memory")
            /\ \A a \in 0..now : Excess("memory", a)' = Excess("memory", a)
        BY <1>1, <1>3, <2>1, <2>3, ExcessAfterReset
      <3>2. \A a \in 0..now : Excess("memory", a)' \in Int /\ Excess("memory", a)' <= Excess("memory", a)
        BY <1>3, <3>1
      <3> QED BY <1>3, <1>6, <2>1, <2>3, <3>1, <3>2, CoversStays
    <2> QED BY <1>14, <2>2, <2>3 DEF Reset
  <1>15. CASE Evict
    <2>1. memory' = Nothing /\ now' = now /\ waiting' = waiting
      BY <1>15 DEF Evict
    <2>2. /\ Bound("memory")' = Bound("memory")
          /\ \A a \in 0..now : Excess("memory", a)' = Excess("memory", a) - Bound("memory")
      BY <1>3, <1>15, ExcessAfterEvict
    <2>3. \A e : e = <<>> => Covers("memory", e)'
      BY <1>3, <1>4, <1>5, <2>1, <2>2, CoversEvicted
    <2>4. \A a \in 0..now : Excess("memory", a)' \in Int /\ Excess("memory", a)' <= Excess("memory", a)
      BY <1>3, <2>2
    <2>5. \A log \in Logs(now) : Covers("memory", log) => Covers("memory", log)'
      BY <1>3, <2>1, <2>2, <2>4, CoversStays
    <2> QED BY <1>7, <2>1, <2>3, <2>5
  <1>16. CASE Tick
    <2>1. memory' = memory /\ waiting' = waiting
      BY <1>16 DEF Tick
    <2>2. \A log \in Logs(now) : Covers("memory", log) => Covers("memory", log)'
      BY <1>3, <1>16, CoversTick
    <2> QED BY <1>6, <2>1, <2>2
  <1>17. CASE UNCHANGED vars
    BY <1>6, <1>8, <1>17 DEF vars, bounds
  <1> QED BY <1>10, <1>11, <1>12, <1>13, <1>14, <1>15, <1>16, <1>17 DEF Next

LEMMA RedisLogScript ==
  ASSUME Types, RedisLog, algorithm = "sliding-window-log", NEW w \in Weights, redis' = KeptInRedis(Script(w)),
         now' = now, algorithm' = algorithm, Bound("redis")' = Bound("redis"),
         \A a \in 0..now : /\ Excess("redis", a)' \in Int
                           /\ Excess("redis", a)' <= Excess("redis", a) + IF Script(w).allowed THEN w ELSE 0
  PROVE  RedisLog'
PROOF
  <1> DEFINE v == Script(w)
             st == RedisState
  <1>1. st \in Logs(now) /\ v.state \in Logs(now) /\ v.resetAt \in Int /\ v.allowed \in BOOLEAN
    BY StateTypes, ScriptTypes, LogStates
  <1>2. v = LuaSlidingLog(st, w, now)
    BY DEF Script, LuaConsume
  <1>3. /\ now \in Nat /\ "redis" \in StoreNames /\ w \in Nat /\ w <= Heaviest /\ Limit \in Nat /\ Heaviest \in Nat
        /\ Bound("redis") = Limit + (Heaviest - 1)
    BY Numbers, BoundFacts, HeaviestIs, Sizes DEF StoreNames
  <1>4. /\ v.allowed <=> Len(Fresh(st, now)) < Limit
        /\ v.state = IF v.allowed THEN Fresh(st, now) \o [i \in 1..w |-> now] ELSE Fresh(st, now)
        /\ v.state # <<>> /\ v.resetAt = v.state[1] + Window
    BY <1>1, <1>2, <1>3, LogStates, LuaSlidingLogFacts
  <1>5. Covers("redis", st)
    BY RedisLogRead
  <1>6. v.allowed => Len(Fresh(st, now)) + w <= Bound("redis")
    <2>1. Len(Fresh(st, now)) \in Nat
      <3>1. Fresh(st, now) \in Seq(0..now)
        BY <1>1, <1>3, FreshFacts DEF Logs
      <3> QED BY <3>1
    <2> HIDE DEF v, st
    <2> QED BY <1>3, <1>4, <2>1
  <1>13. v.resetAt >= v.state[1] + Window
    <2>1. v.resetAt = v.state[1] + Window /\ v.resetAt \in Int
      BY <1>1, <1>4
    <2>2. v.resetAt >= v.resetAt
      BY <2>1
    <2> QED BY <2>1, <2>2, Zenon
  <1>7. PICK e : e = KeptInRedis(v)
    OBVIOUS
  <1>8. redis' = e
    BY <1>7
  <1>9. \A a \in 0..now : /\ Excess("redis", a)' \in Int
                          /\ Excess("redis", a)' <= Excess("redis", a) + IF v.allowed THEN w ELSE 0
    OBVIOUS
  <1> HIDE DEF v, st
  <1>10. Log(e) = v.state /\ LogDropped(e)
    BY <1>1, <1>4, <1>7, <1>13, WrittenLogs
  <1>11. Covers("redis", Log(e))'
    BY <1>1, <1>3, <1>4, <1>5, <1>6, <1>9, <1>10, CoversConsumed
  <1>12. Covers("redis", Log(redis))' /\ LogDropped(redis)'
    BY <1>8, <1>10, <1>11 DEF Log, LogDropped
  <1> QED BY <1>12 DEF RedisLog

LEMMA RedisLogStep ==
  ASSUME Types, Steady, RedisLog, [Next]_vars
  PROVE  RedisLog'
PROOF
  <1>1. algorithm' = algorithm /\ callers' = callers
    BY DEF Next, vars, setup, ConsumeFromMemory, ConsumeFromRedis, RedisFails, WriteBack, Reset, Evict, Tick
  <1>2. SUFFICES ASSUME algorithm = "sliding-window-log"
                 PROVE  RedisLog'
    BY <1>1 DEF RedisLog
  <1>3. /\ "memory" \in StoreNames /\ "redis" \in StoreNames /\ now \in Nat
        /\ Bound("redis") \in Nat /\ Bound("redis") >= 1
        /\ \A a \in 0..now : Excess("redis", a) \in Int
    <2>1. "memory" \in StoreNames /\ "redis" \in StoreNames /\ now \in Nat
      BY Numbers DEF StoreNames
    <2> QED BY <2>1, ExcessTypes, BoundFacts
  <1>4. Log(redis) \in Logs(now) /\ <<>> \in Logs(now) /\ Len(<<>>) = 0
    BY <1>2, <1>3, LogsAre, FirstFacts
  <1>5. Covers("redis", Log(redis)) /\ LogDropped(redis)
    BY <1>2 DEF RedisLog
  <1>6. ASSUME redis' = redis, \A log \in Logs(now) : Covers("redis", log) => Covers("redis", log)'
        PROVE  RedisLog'
    <2>1. Covers("redis", Log(redis))' /\ LogDropped(redis)'
      BY <1>4, <1>5, <1>6 DEF Log, LogDropped
    <2> QED BY <2>1 DEF RedisLog
  <1>7. ASSUME now' = now, Bound("redis")' = Bound("redis"), \A a \in 0..now : Excess("redis", a)' = Excess("redis", a)
        PROVE  /\ \A a \in 0..now : Excess("redis", a)' \in Int /\ Excess("redis", a)' <= Excess("redis", a)
               /\ \A log \in Logs(now) : Covers("redis", log) => Covers("redis", log)'
    <2>1. \A a \in 0..now : Excess("redis", a)' \in Int /\ Excess("redis", a)' <= Excess("redis", a)
      BY <1>3, <1>7
    <2> QED BY <1>3, <1>7, <2>1, CoversStays
  <1>8. ASSUME granted' = granted, now' = now, evicted' = evicted
        PROVE  Bound("redis")' = Bound("redis") /\ \A a \in 0..now : Excess("redis", a)' = Excess("redis", a)
    BY <1>1, <1>3, <1>8, ExcessStays
  <1>9. ASSUME NEW w \in Weights, ConsumeFromMemory(w)
        PROVE  RedisLog'
    BY <1>6, <1>7, <1>8, <1>9 DEF ConsumeFromMemory
  <1>10. ASSUME NEW w \in Weights, ConsumeFromRedis(w)
         PROVE  RedisLog'
    <2>1. /\ Grant("redis", w, Script(w).allowed) /\ now' = now /\ redis' = KeptInRedis(Script(w))
          /\ evicted' = evicted
      BY <1>10 DEF ConsumeFromRedis
    <2>2. /\ Bound("redis")' = Bound("redis")
          /\ \A a \in 0..now : Excess("redis", a)' = Excess("redis", a) + IF Script(w).allowed /\ "redis" = "redis" THEN w ELSE 0
      BY <1>1, <1>3, <2>1, ScriptTypes, ExcessAfterGrant
    <2>3. w \in Nat
      BY Sizes
    <2>4. \A a \in 0..now : /\ Excess("redis", a)' \in Int
                            /\ Excess("redis", a)' <= Excess("redis", a) + IF Script(w).allowed THEN w ELSE 0
      BY <1>3, <2>2, <2>3
    <2> QED BY <1>1, <1>2, <2>1, <2>2, <2>4, RedisLogScript
  <1>11. ASSUME NEW w \in Weights, RedisFails(w)
         PROVE  RedisLog'
    <2>1. now' = now /\ granted' = granted /\ evicted' = evicted /\ redis' \in {redis, KeptInRedis(Script(w))}
      BY <1>11 DEF RedisFails
    <2>2. Bound("redis")' = Bound("redis") /\ \A a \in 0..now : Excess("redis", a)' = Excess("redis", a)
      BY <1>8, <2>1
    <2>3. CASE redis' = redis
      BY <1>6, <1>7, <2>1, <2>2, <2>3
    <2>4. CASE redis' = KeptInRedis(Script(w))
      <3>1. w \in Nat
        BY Sizes
      <3>2. \A a \in 0..now : /\ Excess("redis", a)' \in Int
                              /\ Excess("redis", a)' <= Excess("redis", a) + IF Script(w).allowed THEN w ELSE 0
        BY <1>3, <2>2, <3>1
      <3> QED BY <1>1, <1>2, <2>1, <2>2, <2>4, <3>2, RedisLogScript
    <2> QED BY <2>1, <2>3, <2>4
  <1>12. CASE WriteBack
    <2>1. /\ waiting # <<>> /\ now' = now /\ redis' = redis /\ evicted' = evicted
          /\ Grant("memory", Head(waiting).weight, Consume(algorithm, Head(waiting).state, Head(waiting).weight, now).allowed)
      BY <1>12 DEF WriteBack, bounds
    <2> DEFINE w == Head(waiting).weight
               allowed == Consume(algorithm, Head(waiting).state, w, now).allowed
    <2>2. w \in Weights /\ allowed \in BOOLEAN /\ Grant("memory", w, allowed)
      BY <2>1, HeadTypes
    <2> HIDE DEF w, allowed
    <2>3. /\ Bound("redis")' = Bound("redis")
          /\ \A a \in 0..now : Excess("redis", a)' = Excess("redis", a) + IF allowed /\ "redis" = "memory" THEN w ELSE 0
      BY <1>1, <1>3, <2>1, <2>2, ExcessAfterGrant
    <2>4. \A a \in 0..now : Excess("redis", a)' = Excess("redis", a)
      BY <1>3, <2>3
    <2> QED BY <1>6, <1>7, <2>1, <2>3, <2>4
  <1>13. CASE Reset
    <2>1. now' = now /\ evicted' = evicted
      BY <1>13 DEF Reset
    <2>2. CASE redis' = Nothing /\ granted' = [granted EXCEPT !["redis"] = None]
      <3>1. /\ Bound("redis")' = Bound("redis")
            /\ \A a \in 0..now : Excess("redis", a)' \in Int /\ Excess("redis", a)' <= 0
        BY <1>1, <1>3, <2>1, <2>2, ExcessAfterReset
      <3>2. \A log \in Logs(now) : Len(log) <= Bound("redis") => Covers("redis", log)'
        BY <1>3, <2>1, <3>1, CoversNone
      <3>3. \A e : e = <<>> => Covers("redis", e)'
        BY <1>3, <1>4, <3>2
      <3>4. Covers("redis", Log(redis))' /\ LogDropped(redis)'
        BY <2>2, <3>3 DEF Log, LogDropped
      <3> QED BY <3>4 DEF RedisLog
    <2>3. CASE redis' = redis /\ granted' = [granted EXCEPT !["memory"] = None]
      <3>1. /\ Bound("redis")' = Bound("redis")
            /\ \A a \in 0..now : Excess("redis", a)' = Excess("redis", a)
        BY <1>1, <1>3, <2>1, <2>3, ExcessAfterReset
      <3> QED BY <1>6, <1>7, <2>1, <2>3, <3>1
    <2> QED BY <1>13, <2>2, <2>3 DEF Reset
  <1>14. CASE Evict
    <2>1. redis' = redis /\ now' = now
      BY <1>14 DEF Evict
    <2>2. /\ Bound("redis")' = Bound("redis")
          /\ \A a \in 0..now : Excess("redis", a)' = Excess("redis", a) - IF "redis" = "memory" THEN Bound("redis") ELSE 0
      BY <1>3, <1>14, ExcessAfterEvict
    <2>3. \A a \in 0..now : Excess("redis", a)' = Excess("redis", a)
      BY <1>3, <2>2
    <2> QED BY <1>6, <1>7, <2>1, <2>2, <2>3
  <1>15. CASE Tick
    <2>1. redis' = redis
      BY <1>15 DEF Tick
    <2>2. \A log \in Logs(now) : Covers("redis", log) => Covers("redis", log)'
      BY <1>3, <1>15, CoversTick
    <2> QED BY <1>6, <2>1, <2>2
  <1>16. CASE UNCHANGED vars
    BY <1>6, <1>7, <1>8, <1>16 DEF vars, bounds
  <1> QED BY <1>9, <1>10, <1>11, <1>12, <1>13, <1>14, <1>15, <1>16 DEF Next

-----------------------------------------------------------------------------
(* The limits, and what a caller that is refused is told *)

LimiterInv ==
  /\ Types /\ Steady
  /\ \A a \in 0..now : MemoryCounts(a) /\ RedisCounts(a)
  /\ RedisLevel /\ MemoryBurst /\ MemoryLog /\ RedisLog

LEMMA LimiterInit ==
  ASSUME Init
  PROVE  LimiterInv
PROOF
  <1>1. Types
    BY TypesInit
  <1>2. /\ now = 0 /\ memory = Nothing /\ redis = Nothing /\ waiting = <<>> /\ evicted = 0
        /\ granted = [s \in StoreNames |-> None] /\ now \in 0..now /\ \A a \in 0..now : a = 0
        /\ "memory" \in StoreNames /\ "redis" \in StoreNames /\ MaxTime \in Nat
    BY ConstantAssumption DEF Init, StoreNames
  <1>3. \A s \in StoreNames : granted[s][0] = 0
    BY <1>2 DEF None
  <1>4. ASSUME NEW s \in StoreNames, NEW a \in 0..now
        PROVE  Allowed(s, a, now) = 0 /\ Excess(s, a) = 0
    <2>1. a = 0
      BY <1>2
    <2>2. Allowed(s, a, now) = 0
      BY <1>2, <1>3, <2>1 DEF Allowed
    <2>3. Lost(s) = 0 /\ Bound(s) \in Int
      BY <1>1, <1>2, BoundFacts DEF Lost
    <2>4. Lost(s) * Bound(s) = 0
      BY <2>3, Times
    <2> QED BY <2>2, <2>4 DEF Excess
  <1>5. Steady
    <2>1. \A t \in now..MaxTime : t \in 0..MaxTime /\ now \in 0..MaxTime
      BY <1>1, Numbers
    <2> QED BY <1>2, <2>1 DEF Steady, None
  <1>6. ASSUME NEW a \in 0..now
        PROVE  MemoryCounts(a) /\ RedisCounts(a)
    <2>1. ASSUME NEW s \in StoreNames
          PROVE  Over(s, a) <= 0 /\ Over(s, a) <= Bound(s)
      <3>1. Excess(s, a) = 0 /\ Over(s, a) \in Int /\ (Windows(a, now) - 1) * Bound(s) \in Nat
        BY <1>1, <1>4, OverTypes
      <3> DEFINE n == (Windows(a, now) - 1) * Bound(s)
      <3>2. Over(s, a) = 0 - n /\ n \in Nat
        BY <3>1 DEF Over
      <3> HIDE DEF n
      <3>3. Bound(s) \in Nat
        BY <1>1, BoundFacts
      <3> QED BY <3>2, <3>3
    <2>2. \A i : i \notin 1..Len(waiting)
      BY <1>2
    <2> QED BY <1>2, <2>1, <2>2 DEF MemoryCounts, RedisCounts
  <1>7. RedisLevel
    <2>1. Level = Full /\ Full \in Nat /\ 0 * TokenTicks = 0
      BY <1>2, Sizes, Times DEF Level
    <2>2. \A a \in 0..now : a = 0 /\ Allowed("redis", a, now) = 0
      BY <1>2, <1>4
    <2>3. \A a \in 0..now : Allowed("redis", a, now) * TokenTicks + Level <= Full + (now - a)
      BY <1>2, <2>1, <2>2
    <2> QED BY <1>2, <2>3 DEF RedisLevel
  <1>8. \A i : i \notin 1..Len(waiting)
    BY <1>2
  <1>9. MemoryBurst
    <2>1. Excess("memory", now) = 0
      BY <1>2, <1>4
    <2>2. Excess("memory", now) <= 0
      BY <2>1
    <2> QED BY <1>2, <1>8, <2>2 DEF MemoryBurst
  <1>10. ASSUME NEW s \in StoreNames
         PROVE  Covers(s, <<>>)
    <2>1. Bound(s) \in Nat /\ Bound(s) >= 1 /\ now \in Nat /\ <<>> \in Logs(now) /\ Len(<<>>) = 0
      BY <1>1, <1>2, BoundFacts DEF Logs, Ordered
    <2>2. ASSUME NEW a \in Recent
          PROVE  LogAllows(Excess(s, a), a, <<>>, now, Bound(s))
      <3>1. Excess(s, a) = 0 /\ a \in Nat /\ 0 \in Int
        BY <1>1, <1>4, RecentFacts
      <3>2. LogAllows(0, a, <<>>, now, Bound(s))
        BY <2>1, <3>1, LogAllowsNone
      <3> QED BY <3>1, <3>2
    <2> QED BY <2>1, <2>2 DEF Covers
  <1>11. MemoryLog /\ RedisLog
    BY <1>2, <1>8, <1>10 DEF MemoryLog, RedisLog, Log, LogDropped
  <1> QED BY <1>1, <1>5, <1>6, <1>7, <1>9, <1>11 DEF LimiterInv

\* Of the time to come, both stores have counted nothing.
LEMMA CountsStep ==
  ASSUME Types, Steady, [Next]_vars, \A a \in 0..now : MemoryCounts(a) /\ RedisCounts(a)
  PROVE  \A a \in 0..now' : MemoryCounts(a)' /\ RedisCounts(a)'
PROOF
  <1>1. \A a \in 0..now : MemoryCounts(a)' /\ RedisCounts(a)'
    BY MemoryCountsStep, RedisCountsStep
  <1>2. now' = now \/ Tick
    BY GrantedCases
  <1>3. CASE now' = now
    BY <1>1, <1>3
  <1>4. CASE Tick
    <2>1. now' = now + 1 /\ now \in Nat /\ now' \in Nat /\ now \in 0..now
      BY <1>4, Numbers DEF Tick
    <2>2. MemoryCounts(now) /\ RedisCounts(now)
      BY <2>1
    <2>3. ASSUME NEW a, a = now'
          PROVE  MemoryCounts(a)' /\ RedisCounts(a)'
      <3>0. "memory" \in StoreNames /\ "redis" \in StoreNames /\ a \in 0..now' /\ algorithm' = algorithm
            /\ callers' = callers
        BY <1>4, <2>1, <2>3 DEF StoreNames, Tick, setup
      <3>1. ASSUME NEW s \in StoreNames
            PROVE  Over(s, a)' <= 0 /\ Over(s, a)' \in Int
        <4>1. Bound(s)' = Bound(s) /\ Excess(s, a)' <= 0 /\ Excess(s, a)' \in Int
          BY <1>4, <2>3, ExcessAfterTick
        <4> QED BY <2>1, <3>0, <4>1, OverNone
      <3>2. CountsInMemory => MemoryCounts(a)'
        <4>1. SUFFICES ASSUME CountsInMemory
                       PROVE  MemoryCounts(a)'
          OBVIOUS
        <4>2. memory # Nothing => memory.state.start + Window <= memory.until \/ memory.state.count = 0
          BY <2>2, <4>1 DEF MemoryCounts
        <4> QED BY <1>4, <3>0, <3>1, <4>1, <4>2, MemoryCountsFirst
      <3>3. algorithm \in {"fixed-window", "sliding-window-counter"} => RedisCounts(a)'
        <4>1. SUFFICES ASSUME algorithm \in {"fixed-window", "sliding-window-counter"}
                       PROVE  RedisCounts(a)'
          OBVIOUS
        <4>2. redis # Nothing => redis.state.start + Window <= redis.until + 1
          BY <2>2, <4>1 DEF RedisCounts
        <4> QED BY <1>4, <3>0, <3>1, <4>1, <4>2, RedisCountsFirst
      <3> QED BY <3>0, <3>2, <3>3 DEF MemoryCounts, RedisCounts, CountsInMemory
    <2>4. \A a \in 0..now' : a \in 0..now \/ a = now'
      BY <2>1
    <2> QED BY <1>1, <2>3, <2>4
  <1> QED BY <1>2, <1>3, <1>4

LEMMA LimiterStep ==
  ASSUME LimiterInv, [Next]_vars
  PROVE  LimiterInv'
PROOF
  <1>1. /\ Types /\ Steady /\ RedisLevel /\ MemoryBurst /\ MemoryLog /\ RedisLog
        /\ \A a \in 0..now : MemoryCounts(a) /\ RedisCounts(a)
    BY DEF LimiterInv
  <1>2. Types' /\ Steady' /\ RedisLevel' /\ MemoryBurst' /\ MemoryLog' /\ RedisLog'
    BY <1>1, TypesStep, SteadyStep, RedisLevelStep, MemoryBurstStep, MemoryLogStep, RedisLogStep
  <1>3. \A a \in 0..now' : MemoryCounts(a)' /\ RedisCounts(a)'
    BY <1>1, CountsStep
  <1> QED BY <1>2, <1>3 DEF LimiterInv

LEMMA LimitersHold ==
  ASSUME LimiterInv
  PROVE  WithinLimit
PROOF
  <1>1. /\ Types /\ RedisLevel /\ MemoryBurst /\ MemoryLog /\ RedisLog
        /\ \A a \in 0..now : MemoryCounts(a) /\ RedisCounts(a)
    BY DEF LimiterInv
  <1>2. SUFFICES ASSUME NEW s \in StoreNames, ~Undone(s), NEW a \in Spans(s, now)
                 PROVE  Allowed(s, a, now) <= Allowance(s, a, now)
    BY DEF WithinLimit, StoreNames
  <1> DEFINE x == Allowed(s, a, now)
             B == Bound(s)
             l == Lost(s)
  <1>3. /\ now \in Nat /\ callers \in Nat /\ callers >= 1 /\ now \in 0..now
        /\ B \in Nat /\ l \in Nat /\ Limit \in Nat /\ TokenTicks \in Nat \ {0} /\ Full \in Nat
    BY <1>1, Numbers, BoundFacts, Sizes
  <1>4. a \in 0..now /\ a \in Nat /\ a <= now
    BY <1>2, <1>3 DEF Spans
  <1>5. x \in Int /\ Excess(s, a) = x - l * B
    BY <1>1, <1>4, ExcessTypes DEF Excess
  <1>6. algorithm # "fixed-window" /\ s = "memory" => callers = 1
    BY <1>2, <1>3 DEF Undone
  <1>7. CASE algorithm \in {"fixed-window", "sliding-window-counter"}
    <2> DEFINE n == Windows(a, now)
    <2>1. Over(s, a) <= B
      <3>1. CASE s = "memory"
        <4>1. CountsInMemory
          BY <1>6, <1>7, <3>1 DEF CountsInMemory
        <4> QED BY <1>1, <1>4, <3>1, <4>1 DEF MemoryCounts
      <3>2. CASE s = "redis"
        BY <1>1, <1>4, <1>7, <3>2 DEF RedisCounts
      <3> QED BY <3>1, <3>2 DEF StoreNames
    <2>2. n \in Nat /\ n - 1 \in Nat
      BY <1>3, <1>4, WindowsFacts
    <2>3. Over(s, a) = (x - l * B) - (n - 1) * B
      BY <1>5 DEF Over
    <2>4. Allowance(s, a, now) = (n + l) * B
      BY <1>7 DEF Allowance
    <2> HIDE DEF x, B, l, n
    <2>5. /\ l * B \in Int /\ n * B \in Int /\ 1 * B = B
          /\ (n - 1) * B = n * B - 1 * B /\ (n + l) * B = n * B + l * B
      BY <1>3, <2>2, Times
    <2>6. x <= (n + l) * B
      BY <1>3, <1>5, <2>1, <2>3, <2>5
    <2> QED BY <2>4, <2>6 DEF x
  <1>8. CASE algorithm = "sliding-window-log"
    <2>1. a \in Recent
      BY <1>3, <1>4, <1>8, Sizes DEF Spans, Recent
    <2>2. \E log \in Logs(now) : Covers(s, log)
      <3>1. Log(memory) \in Logs(now) /\ Log(redis) \in Logs(now)
        BY <1>1, <1>8, LogsAre
      <3>2. CASE s = "memory"
        BY <1>1, <1>6, <1>8, <3>1, <3>2 DEF MemoryLog
      <3>3. CASE s = "redis"
        BY <1>1, <1>8, <3>1, <3>3 DEF RedisLog
      <3> QED BY <3>2, <3>3 DEF StoreNames
    <2>3. PICK log \in Logs(now) : Covers(s, log)
      BY <2>2
    <2>4. x - l * B <= 2 * B - 1
      BY <1>1, <1>5, <2>1, <2>3, CoversMost
    <2>5. Allowance(s, a, now) = (2 + l) * B - 1
      BY <1>8 DEF Allowance
    <2> HIDE DEF x, B, l
    <2>6. (2 + l) * B = 2 * B + l * B /\ l * B \in Int /\ 2 * B \in Int
      BY <1>3, Times
    <2>7. x <= (2 + l) * B - 1
      BY <1>5, <2>4, <2>6
    <2> QED BY <2>5, <2>7 DEF x
  <1>9. CASE algorithm = "token-bucket"
    <2> DEFINE earned == (now - a) \div TokenTicks
    <2>1. Allowance(s, a, now) = (1 + l) * Limit + earned
      BY <1>9 DEF Allowance
    <2>2. CASE s = "memory"
      <3>1. a = now /\ callers = 1
        BY <1>6, <1>9, <2>2 DEF Spans
      <3>2. Bound("memory") = Limit
        BY <1>1, <3>1, BoundFacts
      <3>3. Excess("memory", now) <= Limit
        <4>1. CASE memory = Nothing
          <5>1. Excess("memory", now) <= 0 /\ Excess("memory", now) \in Int
            BY <1>1, <1>3, <1>9, <2>2, <3>1, <4>1, ExcessTypes DEF MemoryBurst
          <5> QED BY <1>3, <5>1
        <4>2. CASE memory # Nothing
          <5>1. memory.state \in States("token-bucket", now) /\ Fits(memory.state)
            BY <1>1, <1>9, <3>1, <4>2, BucketsAre DEF MemoryBurst
          <5> QED BY <1>1, <5>1, FitsAtMost
        <4> QED BY <4>1, <4>2
      <3>4. earned = 0
        <4>1. now - a = 0 /\ 0 * TokenTicks = 0 /\ 0 \in Int
          BY <1>3, <3>1, Times
        <4>2. 0 * TokenTicks <= 0 /\ 0 < 0 * TokenTicks + TokenTicks
          BY <1>3, <4>1
        <4>3. 0 = 0 \div TokenTicks
          BY <1>3, <4>1, <4>2, QuotientIs
        <4> QED BY <4>1, <4>3
      <3>5. x - l * Limit <= Limit
        BY <1>5, <2>2, <3>1, <3>2, <3>3
      <3> HIDE DEF x, l, earned, B
      <3>6. (1 + l) * Limit = 1 * Limit + l * Limit /\ 1 * Limit = Limit /\ l * Limit \in Int
        BY <1>3, Times
      <3>7. x <= (1 + l) * Limit + earned
        BY <1>3, <1>5, <3>4, <3>5, <3>6
      <3> QED BY <2>1, <3>7 DEF x
    <2>3. CASE s = "redis"
      <3>1. l = 0
        BY <2>3 DEF Lost
      <3>2. Level \in Nat /\ Allowed("redis", a, now) * TokenTicks + Level <= Full + (now - a)
        BY <1>1, <1>4, <1>9, LevelFacts DEF RedisLevel
      <3>3. now - a \in Nat
        BY <1>3, <1>4
      <3>4. Allowed("redis", a, now) <= Limit + (now - a) \div TokenTicks
        BY <1>5, <2>3, <3>2, <3>3, BucketPromise
      <3>5. x <= Limit + earned
        BY <2>3, <3>4
      <3> HIDE DEF x, earned, l
      <3>6. (1 + l) * Limit = Limit
        BY <1>3, <3>1, Times
      <3> QED BY <2>1, <3>5, <3>6 DEF x
    <2> QED BY <2>2, <2>3 DEF StoreNames
  <1> QED BY <1>1, <1>7, <1>8, <1>9 DEF Types, Algorithms

LEMMA LimiterTypes ==
  ASSUME Types
  PROVE  TypeOK
PROOF
  <1>1. memory = Nothing \/ (memory.until \in Nat /\ DOMAIN memory = {"until", "state"})
    BY EntryFacts DEF Types
  <1>2. redis = Nothing \/ (redis.until \in Nat /\ DOMAIN redis = {"until", "state"})
    BY EntryFacts DEF Types
  <1> QED BY <1>1, <1>2 DEF Types, TypeOK

LEMMA LimiterInvariance == Spec => []LimiterInv
PROOF
  <1>1. Init => LimiterInv
    BY LimiterInit
  <1>2. LimiterInv /\ [Next]_vars => LimiterInv'
    BY LimiterStep
  <1> QED BY <1>1, <1>2, PTL DEF Spec

\* Up to any moment each store has allowed no more than its Allowance: the fixed window in either
\* store, over any interval, whatever callers interleave and whatever is evicted; the counter over
\* any interval and the log over any span of a window, in Redis, and in memory where callers do
\* not interleave; the bucket over any interval in Redis, and in memory at any one time where
\* callers do not interleave.  For any limits, windows, weights, failures, resets and evictions,
\* and any number of requests.
THEOREM LimitsHold == Spec => []WithinLimit
PROOF
  <1>1. LimiterInv => WithinLimit
    BY LimitersHold
  <1> QED BY <1>1, LimiterInvariance, PTL

\* The store of a limiter holds entries with a time to live, and no more calls are between their
\* read and their write than there are callers.
THEOREM LimiterTypesHold == Spec => []TypeOK
PROOF
  <1>1. LimiterInv => TypeOK
    BY LimiterTypes DEF LimiterInv
  <1> QED BY <1>1, LimiterInvariance, PTL

LEMMA HonestWindow ==
  ASSUME Types, algorithm = "fixed-window", NEW w \in Weights, Refused(w)
  PROVE  LET v == Consume(algorithm, MemoryState, w, now)
             s == IF v.resetAt <= Kept(v).until THEN v.state ELSE InitialState(algorithm, v.resetAt)
         IN  v.resetAt > now /\ Consume(algorithm, s, w, v.resetAt).allowed
PROOF
  <1> DEFINE v == Consume(algorithm, MemoryState, w, now)
             s == IF v.resetAt <= Kept(v).until THEN v.state ELSE InitialState(algorithm, v.resetAt)
             r == WindowStart(now) + Window
  <1>1. /\ now \in Nat /\ MemoryState \in States("fixed-window", now) /\ w \in Nat /\ w <= Limit /\ Limit \in Nat
        /\ algorithm \in Algorithms
    BY Numbers, StateTypes, Sizes DEF Types
  <1>2. WindowStart(now) \in Nat /\ now < r /\ r \in Nat /\ Window \in Nat \ {0}
    <2>1. WindowStart(now) \in Nat /\ now < WindowStart(now) + Window /\ Window \in Nat /\ Window > 0
      BY <1>1, WindowFacts, Sizes
    <2> QED BY <2>1
  <1>3. v = FixedWindow(MemoryState, w, now) /\ \A x, t : Consume(algorithm, x, w, t) = FixedWindow(x, w, t)
    BY DEF Consume
  <1>4. v.resetAt = r /\ v.state.start = WindowStart(now) /\ v.state \in States("fixed-window", now)
    BY <1>1, <1>3, FixedWindowFacts
  <1>5. Kept(v).until = r
    <2>1. Kept(v).until = IF v.resetAt > now THEN v.resetAt ELSE now + 1
      <3>1. v.resetAt \in Int /\ v.state \in States(algorithm, now)
        BY <1>2, <1>4
      <3> QED BY <3>1, KeptFacts
    <2> HIDE DEF v, r
    <2> QED BY <1>1, <1>2, <1>4, <2>1
  <1>6. s = v.state
    <2> HIDE DEF v, r
    <2> QED BY <1>2, <1>4, <1>5
  <1>7. WindowStart(r) # WindowStart(now)
    <2>1. WindowStart(r) \in Nat /\ r < WindowStart(r) + Window
      BY <1>2, WindowFacts
    <2> HIDE DEF r
    <2>2. r = WindowStart(now) + Window
      BY DEF r
    <2> QED BY <1>2, <2>1, <2>2
  <1> HIDE DEF v, s, r
  <1>8. v.state \in States("fixed-window", r)
    <2>1. "fixed-window" \in Algorithms /\ now <= r
      BY <1>1, <1>2 DEF Algorithms
    <2> QED BY <1>1, <1>2, <1>4, <2>1, StatesGrow
  <1>9. /\ FixedWindow(v.state, w, r).state.count = w
        /\ FixedWindow(v.state, w, r).allowed <=> FixedWindow(v.state, w, r).state.count <= Limit
    BY <1>2, <1>4, <1>7, <1>8, FixedWindowFacts
  <1> QED BY <1>1, <1>2, <1>3, <1>4, <1>6, <1>9 DEF v, s

LEMMA HonestBucket ==
  ASSUME Types, algorithm = "token-bucket", NEW w \in Weights, Refused(w)
  PROVE  LET v == Consume(algorithm, MemoryState, w, now)
             s == IF v.resetAt <= Kept(v).until THEN v.state ELSE InitialState(algorithm, v.resetAt)
         IN  v.resetAt > now /\ Consume(algorithm, s, w, v.resetAt).allowed
PROOF
  <1> DEFINE v == Consume(algorithm, MemoryState, w, now)
             s == IF v.resetAt <= Kept(v).until THEN v.state ELSE InitialState(algorithm, v.resetAt)
             r == v.resetAt
             parts == Refilled(MemoryState, now)
             cost == w * TokenTicks
  <1>1. /\ now \in Nat /\ MemoryState \in States("token-bucket", now)
        /\ cost \in Nat /\ cost <= Full /\ Full \in Nat
    BY Numbers, StateTypes, CostFacts, Sizes
  <1>2. v = TokenBucket(MemoryState, w, now) /\ \A x, t : Consume(algorithm, x, w, t) = TokenBucket(x, w, t)
    BY DEF Consume
  <1>3. ~v.allowed
    BY DEF Refused
  <1>4. /\ v.state.parts = parts /\ v.state.at = now /\ v.state \in States("token-bucket", now)
        /\ r = now + (cost - parts) /\ parts < cost /\ parts \in Nat /\ parts <= Full
    <2>1. parts \in Nat /\ parts <= Full
      BY <1>1, RefilledFacts
    <2>2. /\ v.state.parts = (IF v.allowed THEN parts - cost ELSE parts)
          /\ v.state.at = now /\ v.state \in States("token-bucket", now)
          /\ ~v.allowed => r = now + (cost - parts)
          /\ v.allowed <=> parts >= cost
      BY <1>1, <1>2, TokenBucketFacts
    <2> HIDE DEF v, parts, cost
    <2> QED BY <1>1, <1>3, <2>1, <2>2
  <1>5. r > now /\ r \in Nat
    <2> HIDE DEF v, parts, cost, r
    <2> QED BY <1>1, <1>4
  <1>6. s = v.state
    <2>1. Kept(v).until = IF v.resetAt > now THEN v.resetAt ELSE now + 1
      <3>1. v.resetAt \in Int /\ v.state \in States(algorithm, now)
        BY <1>4, <1>5
      <3> QED BY <3>1, KeptFacts
    <2>2. Kept(v).until = r
      BY <1>5, <2>1
    <2> HIDE DEF v
    <2> QED BY <1>5, <2>2
  <1>7. v.state \in States("token-bucket", r)
    <2>1. "token-bucket" \in Algorithms /\ now <= r
      BY <1>1, <1>5 DEF Algorithms
    <2> QED BY <1>1, <1>4, <1>5, <2>1, StatesGrow
  <1>8. Refilled(v.state, r) = Least(v.state.parts + (r - v.state.at), Full)
    BY <1>5, <1>7, RefilledFacts
  <1>9. Refilled(v.state, r) >= cost
    <2> HIDE DEF v, parts, cost, r
    <2> QED BY <1>1, <1>4, <1>8 DEF Least
  <1>10. TokenBucket(v.state, w, r).allowed <=> Refilled(v.state, r) >= cost
    BY <1>5, <1>7, TokenBucketFacts
  <1> HIDE DEF s
  <1>11. Consume(algorithm, s, w, r).allowed
    BY <1>2, <1>6, <1>9, <1>10
  <1> QED BY <1>5, <1>11 DEF s

LEMMA HonestLog ==
  ASSUME Types, algorithm = "sliding-window-log", NEW w \in Weights, Refused(w)
  PROVE  LET v == Consume(algorithm, MemoryState, w, now)
             s == IF v.resetAt <= Kept(v).until THEN v.state ELSE InitialState(algorithm, v.resetAt)
         IN  v.resetAt > now /\ Consume(algorithm, s, w, v.resetAt).allowed
PROOF
  <1> DEFINE v == Consume(algorithm, MemoryState, w, now)
             s == IF v.resetAt <= Kept(v).until THEN v.state ELSE InitialState(algorithm, v.resetAt)
             r == v.resetAt
             valid == Fresh(MemoryState, now)
             m == Len(valid) - Limit + w
  <1>1. /\ now \in Nat /\ MemoryState \in States("sliding-window-log", now) /\ Window \in Nat
        /\ w \in Nat /\ Limit \in Nat
    BY Numbers, StateTypes, Sizes
  <1>2. v = SlidingLog(MemoryState, w, now) /\ \A x, t : Consume(algorithm, x, w, t) = SlidingLog(x, w, t)
    BY DEF Consume
  <1>3. ~v.allowed
    BY DEF Refused
  <1>4. v.state = valid /\ m \in 1..Len(valid) /\ r = valid[m] + Window
    <2> DEFINE u == SlidingLog(MemoryState, w, now)
    <2>1. ~u.allowed => u.state = valid /\ m \in 1..Len(valid) /\ u.resetAt = valid[m] + Window
      BY <1>1, SlidingLogFacts
    <2>2. v = u
      BY <1>2
    <2> HIDE DEF u, v, m, valid
    <2> QED BY <1>3, <2>1, <2>2
  <1>5. /\ valid \in Seq(0..now) /\ Ordered(valid)
        /\ \A i \in 1..Len(valid) : now < valid[i] + Window
    <2>1. MemoryState \in Seq(0..now) /\ Ordered(MemoryState)
      BY <1>1, StatesAre
    <2> QED BY <1>1, <2>1, FreshFacts
  <1> HIDE DEF valid
  <1>12. \A i \in 1..Len(valid) : valid[i] \in 0..now
    BY <1>5, ElementOfSeq
  <1>6. r > now /\ r \in Nat
    <2> HIDE DEF m, v
    <2>1. valid[m] \in 0..now /\ now < valid[m] + Window
      BY <1>4, <1>5, <1>12
    <2> QED BY <1>1, <1>4, <2>1
  <1>7. s = v.state
    <2>1. v.resetAt \in Int /\ v.state \in States(algorithm, now)
      BY <1>4, <1>5, <1>6, StatesAre
    <2>2. Kept(v).until = IF v.resetAt > now THEN v.resetAt ELSE now + 1
      BY <2>1, KeptFacts
    <2>3. Kept(v).until = r
      BY <1>6, <2>2
    <2> HIDE DEF v
    <2> QED BY <1>6, <2>3
  <1>8. valid \in States("sliding-window-log", r)
    <2>1. valid \in States("sliding-window-log", now)
      BY <1>5, StatesAre
    <2>2. "sliding-window-log" \in Algorithms /\ now <= r
      BY <1>1, <1>6 DEF Algorithms
    <2> QED BY <1>1, <1>6, <2>1, <2>2, StatesGrow
  <1> HIDE DEF v, r, s
  <1>9. Len(Fresh(valid, r)) + w <= Limit
    <2> DEFINE young == (r - Window + 1)..r
    <2>1. \A i \in 1..m : valid[i] \notin young
      <3>1. SUFFICES ASSUME NEW i \in 1..m
                     PROVE  valid[i] \notin young
        OBVIOUS
      <3>2. Len(valid) \in Nat /\ m \in Nat /\ m <= Len(valid)
        BY <1>4, <1>5
      <3> HIDE DEF m
      <3>3. i \in 1..Len(valid) /\ m \in 1..Len(valid) /\ i <= m
        BY <3>2
      <3>4. valid[i] <= valid[m] /\ valid[i] \in 0..now /\ valid[m] \in 0..now
        BY <1>5, <1>12, <3>3 DEF Ordered
      <3> QED BY <1>1, <1>4, <3>4
    <2>2. Fresh(valid, r) = Only(valid, young)
      BY DEF Fresh
    <2>3. Len(valid) \in Nat /\ m \in 0..Len(valid)
      BY <1>4, <1>5
    <2> HIDE DEF young, m
    <2>4. Len(Only(valid, young)) <= Len(valid) - m
      BY <1>5, <2>1, <2>3, OnlyDrops
    <2>5. Only(valid, young) \in Seq(0..now)
      BY <1>5, OnlyKeeps
    <2>6. Len(Only(valid, young)) \in Nat
      BY <2>5
    <2>7. m = Len(valid) - Limit + w
      BY DEF m
    <2> QED BY <1>1, <2>2, <2>3, <2>4, <2>6, <2>7
  <1>10. SlidingLog(valid, w, r).allowed
    BY <1>6, <1>8, <1>9, SlidingLogFacts
  <1>11. Consume(algorithm, s, w, r).allowed
    BY <1>2, <1>4, <1>7, <1>10
  <1> QED BY <1>6, <1>11 DEF v, r, s

LEMMA AnswersAreHonest ==
  ASSUME Types
  PROVE  RetryAfterHonest
PROOF
  <1>1. algorithm \in Algorithms
    BY DEF Types
  <1> QED BY <1>1, HonestWindow, HonestBucket, HonestLog DEF RetryAfterHonest, Algorithms

\* A caller of the memory store that was refused, and comes again at the resetAt it was told,
\* is allowed if nobody consumed in between: by the fixed window, the log and the bucket, for
\* any limits, windows and weights, whatever was consumed before.
THEOREM AnswersHold == Spec => []RetryAfterHonest
PROOF
  <1>1. Init => LimiterInv
    BY LimiterInit
  <1>2. LimiterInv /\ [Next]_vars => LimiterInv'
    BY LimiterStep
  <1>3. LimiterInv => RetryAfterHonest
    BY AnswersAreHonest DEF LimiterInv
  <1> QED BY <1>1, <1>2, <1>3, PTL DEF Spec

-----------------------------------------------------------------------------
(* Idempotency: where a claim and a response can be *)

Pending   == record # Absent /\ record.status = "pending"
Completed == record # Absent /\ record.status = "completed"

\* A claim belongs to a request that got past setIfAbsent().
Claims ==
  Pending => \/ pc[record.by] \in {"running", "completing", "writing", "deleting", "crashed"}
             \/ pc[record.by] = "error" /\ failures > 0

\* Only a request whose handler succeeded has a response that is, or will be, stored.
Responses ==
  /\ Completed => record.by \in performed
  /\ \A r \in Requests :
       /\ pc[r] \in {"completing", "writing"} => r \in performed
       /\ pc[r] \in {"new", "claiming", "lostRace", "running", "replay"} => r \notin performed
       /\ pc[r] = "replay" => replayed[r] \in performed

\* In memory a request that runs its handler holds the record, a call of the store
\* is never between two steps, and the record outlasts every success it stands for.
InMemory ==
  store = "memory" =>
    \A r \in Requests :
      /\ pc[r] \notin {"lostRace", "completing", "writing", "deleting"}
      /\ pc[r] = "running" => Pending /\ record.by = r /\ record.left > 0
      /\ guarded[r] > 0 => Completed /\ guarded[r] =< record.left

-----------------------------------------------------------------------------
(* Idempotency: types *)

\* The two kinds of record that are ever written are well-formed.
LEMMA RecordTypes ==
  ASSUME NEW r \in Requests
  PROVE  /\ Claim(r) \in IdempotencyRecord /\ Complete(r) \in IdempotencyRecord
         /\ Claim(r) # Absent /\ Complete(r) # Absent
PROOF
  BY RequestAssumption DEF RequestAssumption, Claim, Complete, IdempotencyRecord, Absent

\* A record is not the absent one, and ages into itself with less time or into none.
LEMMA RecordAges ==
  ASSUME NEW rec \in IdempotencyRecord
  PROVE  /\ rec # Absent
         /\ Aged(rec) \in IdempotencyRecord \cup {Absent}
         /\ Aged(rec) # Absent => /\ Aged(rec).status = rec.status
                                /\ Aged(rec).by = rec.by
                                /\ Aged(rec).left = Less(rec.left)
         /\ store = "memory" => Aged(rec) # Absent
PROOF
  BY RequestAssumption DEF RequestAssumption, IdempotencyRecord, Absent, Aged, Less

\* The parts of the type invariant every step has to establish.
LEMMA TypeStep ==
  ASSUME RequestTypeOK, [RequestNext]_requestVars
  PROVE  RequestTypeOK'
PROOF
  <1> USE RequestAssumption DEF RequestAssumption, RequestTypeOK, InFlight, Answers, mishaps
  <1>1. ASSUME NEW r \in Requests, Get(r) PROVE RequestTypeOK'
    BY <1>1, RecordTypes DEF Get, AnswerFrom, Goes, Evicted, IdempotencyRecord
  <1>2. ASSUME NEW r \in Requests, SetIfAbsent(r) PROVE RequestTypeOK'
    BY <1>2, RecordTypes DEF SetIfAbsent, AnswerFrom, Goes, Evicted, IdempotencyRecord
  <1>3. ASSUME NEW r \in Requests, LookAgain(r) PROVE RequestTypeOK'
    BY <1>3 DEF LookAgain, AnswerFrom, Goes, IdempotencyRecord
  <1>4. ASSUME NEW r \in Requests, HandlerSucceeds(r) PROVE RequestTypeOK'
    BY <1>4, RecordTypes DEF HandlerSucceeds, Succeeds, Goes
  <1>5. ASSUME NEW r \in Requests, ReadToComplete(r) PROVE RequestTypeOK'
    BY <1>5 DEF ReadToComplete, Succeeds, Goes
  <1>6. ASSUME NEW r \in Requests, WriteCompleted(r) PROVE RequestTypeOK'
    BY <1>6, RecordTypes DEF WriteCompleted, Succeeds, Goes
  <1>7. ASSUME NEW r \in Requests, HandlerFails(r) PROVE RequestTypeOK'
    BY <1>7 DEF HandlerFails, Goes
  <1>8. ASSUME NEW r \in Requests, Delete(r) PROVE RequestTypeOK'
    BY <1>8 DEF Delete, Goes
  <1>9. ASSUME NEW r \in Requests, StoreFails(r) PROVE RequestTypeOK'
    BY <1>9, RecordTypes DEF StoreFails, Effect, Goes
  <1>10. CASE Crash
    BY <1>10 DEF Crash
  <1>11. CASE SecondPasses
    <2>1. record' \in IdempotencyRecord \cup {Absent}
      BY <1>11, RecordAges DEF SecondPasses, Aged
    <2>2. guarded' \in [Requests -> 0..Ttl]
      BY <1>11 DEF SecondPasses, Less
    <2> QED BY <1>11, <2>1, <2>2 DEF SecondPasses
  <1>12. CASE UNCHANGED requestVars
    BY <1>12 DEF requestVars
  <1> QED
    BY <1>1, <1>2, <1>3, <1>4, <1>5, <1>6, <1>7, <1>8, <1>9, <1>10, <1>11, <1>12
       DEF RequestNext, StoreStep, Handler

\* The type invariant of Idempotency, for every value of its constants.
THEOREM TypeCorrectness == RequestSpec => []RequestTypeOK
PROOF
  <1>1. RequestInit => RequestTypeOK
    BY RequestAssumption DEF RequestAssumption, RequestInit, RequestTypeOK
  <1> QED BY <1>1, TypeStep, PTL DEF RequestSpec

-----------------------------------------------------------------------------
(* Idempotency: claims and responses, with either store and whatever fails *)

\* What a store holds after an eviction or a tick is what it held, or nothing.
LEMMA EvictedOrSame == Evicted = record \/ Evicted = Absent
PROOF
  BY DEF Evicted

\* A step leaves every claim with its request, or with one that was taken away.
LEMMA ClaimsStep ==
  ASSUME RequestTypeOK, Claims, [RequestNext]_requestVars
  PROVE  Claims'
PROOF
  <1> USE DEF RequestTypeOK, Claims, Pending
  <1>1. ASSUME NEW r \in Requests, Get(r) PROVE Claims'
    BY <1>1, EvictedOrSame DEF Get, AnswerFrom, Goes, mishaps, IdempotencyRecord
  <1>2. ASSUME NEW r \in Requests, SetIfAbsent(r) PROVE Claims'
    BY <1>2, EvictedOrSame DEF SetIfAbsent, AnswerFrom, Goes, Claim, mishaps, IdempotencyRecord
  <1>3. ASSUME NEW r \in Requests, LookAgain(r) PROVE Claims'
    BY <1>3 DEF LookAgain, AnswerFrom, Goes, mishaps, IdempotencyRecord
  <1>4. ASSUME NEW r \in Requests, HandlerSucceeds(r) PROVE Claims'
    BY <1>4 DEF HandlerSucceeds, Succeeds, Goes, Complete, mishaps, IdempotencyRecord
  <1>5. ASSUME NEW r \in Requests, ReadToComplete(r) PROVE Claims'
    BY <1>5 DEF ReadToComplete, Succeeds, Goes, mishaps, IdempotencyRecord
  <1>6. ASSUME NEW r \in Requests, WriteCompleted(r) PROVE Claims'
    BY <1>6 DEF WriteCompleted, Complete
  <1>7. ASSUME NEW r \in Requests, HandlerFails(r) PROVE Claims'
    BY <1>7 DEF HandlerFails, Goes, mishaps, IdempotencyRecord
  <1>8. ASSUME NEW r \in Requests, Delete(r) PROVE Claims'
    BY <1>8 DEF Delete
  <1>9. ASSUME NEW r \in Requests, StoreFails(r) PROVE Claims'
    BY <1>9 DEF StoreFails, Effect, Goes, Claim, Complete, InFlight, IdempotencyRecord
  <1>10. CASE Crash
    BY <1>10 DEF Crash, InFlight, IdempotencyRecord
  <1>11. CASE SecondPasses
    BY <1>11, RecordAges DEF SecondPasses, Aged, mishaps
  <1>12. CASE UNCHANGED requestVars
    BY <1>12 DEF requestVars, mishaps
  <1> QED
    BY <1>1, <1>2, <1>3, <1>4, <1>5, <1>6, <1>7, <1>8, <1>9, <1>10, <1>11, <1>12
       DEF RequestNext, StoreStep, Handler

\* A pending record has a request that will end it, or that a crash or a failed
\* command took away: also when records expire under running handlers.
THEOREM EveryClaimOwned == RequestSpec => []PendingOwned
PROOF
  <1>1. RequestInit => Claims
    BY DEF RequestInit, Claims, Pending
  <1>2. Claims => PendingOwned
    BY DEF Claims, Pending, PendingOwned, Owned, InFlight
  <1> QED BY <1>1, <1>2, ClaimsStep, TypeCorrectness, PTL DEF RequestSpec

\* A step stores and replays only responses of handlers that succeeded.
LEMMA ResponsesStep ==
  ASSUME RequestTypeOK, Responses, [RequestNext]_requestVars
  PROVE  Responses'
PROOF
  <1> USE DEF RequestTypeOK, Responses, Completed
  <1>1. ASSUME NEW r \in Requests, Get(r) PROVE Responses'
    BY <1>1, EvictedOrSame DEF Get, AnswerFrom, Goes, IdempotencyRecord
  <1>2. ASSUME NEW r \in Requests, SetIfAbsent(r) PROVE Responses'
    BY <1>2, EvictedOrSame DEF SetIfAbsent, AnswerFrom, Goes, Claim, IdempotencyRecord
  <1>3. ASSUME NEW r \in Requests, LookAgain(r) PROVE Responses'
    BY <1>3 DEF LookAgain, AnswerFrom, Goes, IdempotencyRecord
  <1>4. ASSUME NEW r \in Requests, HandlerSucceeds(r) PROVE Responses'
    BY <1>4 DEF HandlerSucceeds, Succeeds, Goes, Complete, IdempotencyRecord
  <1>5. ASSUME NEW r \in Requests, ReadToComplete(r) PROVE Responses'
    BY <1>5 DEF ReadToComplete, Succeeds, Goes
  <1>6. ASSUME NEW r \in Requests, WriteCompleted(r) PROVE Responses'
    BY <1>6 DEF WriteCompleted, Succeeds, Goes, Complete
  <1>7. ASSUME NEW r \in Requests, HandlerFails(r) PROVE Responses'
    BY <1>7 DEF HandlerFails, Goes
  <1>8. ASSUME NEW r \in Requests, Delete(r) PROVE Responses'
    BY <1>8 DEF Delete, Goes
  <1>9. ASSUME NEW r \in Requests, StoreFails(r) PROVE Responses'
    BY <1>9 DEF StoreFails, Effect, Goes, Claim, Complete
  <1>10. CASE Crash
    BY <1>10 DEF Crash
  <1>11. CASE SecondPasses
    BY <1>11, RecordAges DEF SecondPasses, Aged
  <1>12. CASE UNCHANGED requestVars
    BY <1>12 DEF requestVars
  <1> QED
    BY <1>1, <1>2, <1>3, <1>4, <1>5, <1>6, <1>7, <1>8, <1>9, <1>10, <1>11, <1>12
       DEF RequestNext, StoreStep, Handler

\* Every replay is the response of another request whose handler succeeded.
THEOREM EveryReplayGenuine == RequestSpec => []ReplayIsGenuine
PROOF
  <1>1. RequestInit => Responses
    BY DEF RequestInit, Responses, Completed
  <1>2. Responses => ReplayIsGenuine
    BY DEF Responses, ReplayIsGenuine
  <1> QED BY <1>1, <1>2, ResponsesStep, TypeCorrectness, PTL DEF RequestSpec

-----------------------------------------------------------------------------
(* Idempotency: the in-memory store, when handlers end within the time to live *)

\* A step keeps the record with the request that runs, and past every success.
LEMMA InMemoryStep ==
  ASSUME TtlOutlasts, RequestTypeOK, InMemory, [RequestNext]_requestVars
  PROVE  InMemory'
PROOF
  <1> SUFFICES ASSUME store = "memory", store' = "memory" PROVE InMemory'
    BY DEF InMemory, RequestNext, StoreStep, Handler, requestVars, Get, SetIfAbsent, LookAgain,
           HandlerSucceeds, ReadToComplete, WriteCompleted, HandlerFails, Delete,
           StoreFails, Crash, SecondPasses
  <1> USE RequestAssumption DEF RequestAssumption, RequestTypeOK, InMemory, Pending, Completed
  <1>1. ASSUME NEW r \in Requests, Get(r) PROVE InMemory'
    BY <1>1 DEF Get, AnswerFrom, Goes, Evicted, IdempotencyRecord
  <1>2. ASSUME NEW r \in Requests, SetIfAbsent(r) PROVE InMemory'
    BY <1>2, RecordTypes DEF SetIfAbsent, AnswerFrom, Goes, Evicted, Claim, IdempotencyRecord
  <1>3. ASSUME NEW r \in Requests, LookAgain(r) PROVE InMemory'
    BY <1>3 DEF LookAgain
  <1>4. ASSUME NEW r \in Requests, HandlerSucceeds(r) PROVE InMemory'
    BY <1>4, RecordTypes DEF HandlerSucceeds, Succeeds, Goes, Complete, IdempotencyRecord
  <1>5. ASSUME NEW r \in Requests, ReadToComplete(r) PROVE InMemory'
    BY <1>5 DEF ReadToComplete
  <1>6. ASSUME NEW r \in Requests, WriteCompleted(r) PROVE InMemory'
    BY <1>6 DEF WriteCompleted
  <1>7. ASSUME NEW r \in Requests, HandlerFails(r) PROVE InMemory'
    BY <1>7 DEF HandlerFails, Goes
  <1>8. ASSUME NEW r \in Requests, Delete(r) PROVE InMemory'
    BY <1>8 DEF Delete
  <1>9. ASSUME NEW r \in Requests, StoreFails(r) PROVE InMemory'
    BY <1>9 DEF StoreFails
  <1>10. CASE Crash
    BY <1>10 DEF Crash, InFlight
  <1>11. CASE SecondPasses
    BY <1>11, RecordAges DEF SecondPasses, Owned, InFlight, Less, IdempotencyRecord
  <1>12. CASE UNCHANGED requestVars
    BY <1>12 DEF requestVars
  <1> QED
    BY <1>1, <1>2, <1>3, <1>4, <1>5, <1>6, <1>7, <1>8, <1>9, <1>10, <1>11, <1>12
       DEF RequestNext, StoreStep, Handler

\* The invariant of the in-memory store, from types and the steps above.
LEMMA InMemoryInvariance ==
  ASSUME TtlOutlasts
  PROVE  RequestSpec => []InMemory
PROOF
  <1>1. RequestInit => InMemory
    BY RequestAssumption DEF RequestAssumption, RequestInit, InMemory, Absent
  <1>2. RequestTypeOK /\ InMemory /\ [RequestNext]_requestVars => InMemory'
    BY InMemoryStep
  <1> QED BY <1>1, <1>2, TypeCorrectness, PTL DEF RequestSpec

\* In memory, at most one request with a key runs its handler.
THEOREM OneHandlerInMemory ==
  ASSUME TtlOutlasts
  PROVE  RequestSpec => []SingleFlightInMemory
PROOF
  <1>1. RequestTypeOK /\ InMemory => SingleFlightInMemory
    BY DEF SingleFlightInMemory, SingleFlight, InMemory
  <1> QED BY <1>1, TypeCorrectness, InMemoryInvariance, PTL

\* In memory, no handler starts within the time to live of an answered success.
THEOREM NoSuccessRepeated ==
  ASSUME TtlOutlasts
  PROVE  RequestSpec => NoRepeat
PROOF
  <1> DEFINE Unguarded == store = "memory" =>
                        \A r \in Requests : Starts(r) => \A q \in Requests : guarded[q] = 0
  <1>1. ASSUME RequestTypeOK, InMemory, RequestNext PROVE Unguarded
    <2> SUFFICES ASSUME store = "memory", NEW r \in Requests, Starts(r), NEW q \in Requests
                 PROVE  guarded[q] = 0
      OBVIOUS
    <2>1. SetIfAbsent(r)
      BY <1>1 DEF RequestNext, StoreStep, Handler, Starts, RequestTypeOK, InMemory, Get, SetIfAbsent, LookAgain,
                  HandlerSucceeds, ReadToComplete, WriteCompleted, HandlerFails, Delete,
                  StoreFails, Crash, SecondPasses, AnswerFrom, Succeeds, Goes
    <2>2. Evicted = Absent
      BY <1>1, <2>1 DEF SetIfAbsent, AnswerFrom, Goes, Starts, RequestTypeOK
    <2> QED BY <1>1, <2>2 DEF Evicted, InMemory, Completed, RequestTypeOK
  <1>2. RequestTypeOK /\ InMemory /\ [RequestNext]_requestVars => [Unguarded]_requestVars
    BY <1>1
  <1> HIDE DEF Unguarded
  <1>3. RequestSpec => [][Unguarded]_requestVars
    BY <1>2, TypeCorrectness, InMemoryInvariance, PTL DEF RequestSpec
  <1> QED BY <1>3 DEF NoRepeat, Unguarded

=============================================================================

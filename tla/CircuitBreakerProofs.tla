-------------------------- MODULE CircuitBreakerProofs --------------------------
(***************************************************************************)
(* Theorems about CircuitBreaker, for any number of calls, any             *)
(* configuration and no bound on time or resets beyond those of the        *)
(* actions.                                                                *)
(***************************************************************************)
EXTENDS CircuitBreaker, FiniteSetTheorems, TLAPS

-----------------------------------------------------------------------------
(* The synchronous methods *)

ValidConfig == {c \in Config : ValidateConfig(c)}

\* The fields that decide who is admitted and which outcomes count.
Decides(b) ==
  <<b.state, b.openedAt, b.halfOpenCalls, b.halfOpenSuccesses, b.generation>>

\* The deciding fields of b after a transition to `next'.
Moved(b, next, at) == <<next, at, 0, 0, b.generation + 1>>

LEMMA CountersUpdate ==
  ASSUME NEW b \in Breaker, NEW n \in Counters
  PROVE  /\ [b EXCEPT !.counters = n] \in Breaker
         /\ Decides([b EXCEPT !.counters = n]) = Decides(b)
         /\ [b EXCEPT !.counters = n].state = b.state
         /\ [b EXCEPT !.counters = n].generation = b.generation
<1>1. [b EXCEPT !.counters = n] \in Breaker
  BY DEF Breaker
<1>2. QED
  BY <1>1 DEF Breaker, Decides

LEMMA SuccessCounters ==
  ASSUME NEW n \in Counters, NEW s \in BOOLEAN
  PROVE  [n EXCEPT !.successfulCalls = @ + 1,
                   !.slowCalls = IF s THEN @ + 1 ELSE @] \in Counters
<1> DEFINE m == [n EXCEPT !.successfulCalls = @ + 1]
           k == IF s THEN m.slowCalls + 1 ELSE m.slowCalls
<1>1. m \in Counters
  BY DEF Counters
<1>2. k \in Nat
  BY <1>1 DEF Counters
<1>3. [m EXCEPT !.slowCalls = k] \in Counters
  <2> HIDE DEF m, k
  <2> QED BY <1>1, <1>2 DEF Counters
<1>4. QED
  BY <1>3 DEF Counters

\* Counting keeps the type and the deciding fields.
LEMMA CountFacts ==
  ASSUME NEW b \in Breaker, NEW s \in BOOLEAN,
         NEW r \in {CountAdmission(b), CountRejection(b), CountFailure(b),
                    CountSuccess(b, s)}
  PROVE  /\ r \in Breaker
         /\ Decides(r) = Decides(b)
         /\ r.state = b.state
         /\ r.generation = b.generation
<1>1. b.counters \in Counters
  BY DEF Breaker
<1>2. [b.counters EXCEPT !.totalCalls = @ + 1] \in Counters
  BY <1>1 DEF Counters
<1>3. [b.counters EXCEPT !.notPermittedCalls = @ + 1] \in Counters
  BY <1>1 DEF Counters
<1>4. [b.counters EXCEPT !.failedCalls = @ + 1] \in Counters
  BY <1>1 DEF Counters
<1>5. CASE r = CountAdmission(b)
  BY <1>5, <1>2, CountersUpdate DEF CountAdmission
<1>6. CASE r = CountRejection(b)
  BY <1>6, <1>3, CountersUpdate DEF CountRejection
<1>7. CASE r = CountFailure(b)
  BY <1>7, <1>4, CountersUpdate DEF CountFailure
<1>8. CASE r = CountSuccess(b, s)
  <2> DEFINE n == [b.counters EXCEPT !.successfulCalls = @ + 1,
                                     !.slowCalls = IF s THEN @ + 1 ELSE @]
  <2>1. n \in Counters
    BY <1>1, SuccessCounters
  <2>2. r = [b EXCEPT !.counters = n]
    BY <1>8 DEF CountSuccess
  <2> HIDE DEF n
  <2>3. QED
    BY <2>1, <2>2, CountersUpdate
<1>9. QED
  BY <1>5, <1>6, <1>7, <1>8

LEMMA AdmittedFacts ==
  ASSUME NEW b \in Breaker
  PROVE  /\ Admitted(b) \in Breaker
         /\ Decides(Admitted(b)) =
              <<b.state, b.openedAt,
                IF b.state = "HALF_OPEN" THEN b.halfOpenCalls + 1 ELSE b.halfOpenCalls,
                b.halfOpenSuccesses, b.generation>>
<1> DEFINE p == [b EXCEPT !.halfOpenCalls = @ + 1]
<1>0. p \in Breaker
  BY DEF Breaker
<1>1. Decides(p) = <<b.state, b.openedAt, b.halfOpenCalls + 1,
                     b.halfOpenSuccesses, b.generation>>
  BY DEF Breaker, Decides
<1>2. QED
  BY <1>0, <1>1, CountFacts DEF Admitted, Decides

LEMMA TransitionToFacts ==
  ASSUME NEW b \in Breaker, NEW t \in Nat
  PROVE  /\ \A next \in States : TransitionTo(b, next, t) \in Breaker
         /\ Decides(TransitionTo(b, "OPEN", t)) = Moved(b, "OPEN", t)
         /\ Decides(TransitionTo(b, "HALF_OPEN", t)) = Moved(b, "HALF_OPEN", b.openedAt)
         /\ Decides(TransitionTo(b, "CLOSED", t)) = Moved(b, "CLOSED", NoTime)
<1>1. \A next \in States : TransitionTo(b, next, t) \in Breaker
  BY DEF TransitionTo, Breaker, States, NoTime
<1>2. QED
  BY <1>1 DEF TransitionTo, Decides, Moved

LEMMA SlideType ==
  ASSUME NEW w \in Seq(Outcomes), NEW o \in Outcomes, NEW c \in ValidConfig
  PROVE  Slide(w, o, c) \in Seq(Outcomes)
BY DEF Slide, ValidConfig, ValidateConfig, Config

\* record() moves the deciding fields only when it trips a CLOSED breaker.
LEMMA RecordFacts ==
  ASSUME NEW b \in Breaker, NEW o \in Outcomes, NEW c \in ValidConfig, NEW t \in Nat
  PROVE  /\ Record(b, o, c, t) \in Breaker
         /\ \/ Decides(Record(b, o, c, t)) = Decides(b)
            \/ b.state = "CLOSED" /\ Decides(Record(b, o, c, t)) = Moved(b, "OPEN", t)
<1> DEFINE r == [b EXCEPT !.window = Slide(b.window, o, c)]
<1>1. b.window \in Seq(Outcomes)
  BY DEF Breaker
<1>2. r \in Breaker
  <2> DEFINE w == Slide(b.window, o, c)
  <2>1. w \in Seq(Outcomes)
    BY <1>1, SlideType
  <2> HIDE DEF w
  <2>2. [b EXCEPT !.window = w] \in Breaker
    BY <2>1 DEF Breaker
  <2>3. QED
    BY <2>2 DEF w
<1>5. Decides(r) = Decides(b) /\ r.generation = b.generation /\ r.state = b.state
  BY DEF Breaker, Decides
<1>3. TransitionTo(r, "OPEN", t) \in Breaker
        /\ Decides(TransitionTo(r, "OPEN", t)) = Moved(b, "OPEN", t)
  <2> HIDE DEF r
  <2>1. QED
    BY <1>2, <1>5, TransitionToFacts DEF States, Moved
<1>4. QED
  BY <1>2, <1>3, <1>5 DEF Record

LEMMA PassProbeFacts ==
  ASSUME NEW b \in Breaker, NEW c \in ValidConfig, NEW t \in Nat
  PROVE  /\ PassProbe(b, c, t) \in Breaker
         /\ b.state # "HALF_OPEN" => PassProbe(b, c, t) = b
         /\ b.state = "HALF_OPEN" =>
              Decides(PassProbe(b, c, t)) =
                IF b.halfOpenSuccesses + 1 >= c.halfOpenMaxCalls
                THEN Moved(b, "CLOSED", NoTime)
                ELSE <<"HALF_OPEN", b.openedAt, b.halfOpenCalls,
                       b.halfOpenSuccesses + 1, b.generation>>
<1> DEFINE p == [b EXCEPT !.halfOpenSuccesses = @ + 1]
<1>0. p \in Breaker
  BY DEF Breaker
<1>1. p.halfOpenSuccesses = b.halfOpenSuccesses + 1
        /\ p.generation = b.generation /\ p.state = b.state
        /\ Decides(p) = <<b.state, b.openedAt, b.halfOpenCalls,
                          b.halfOpenSuccesses + 1, b.generation>>
  BY DEF Breaker, Decides
<1>2. TransitionTo(p, "CLOSED", t) \in Breaker
        /\ Decides(TransitionTo(p, "CLOSED", t)) = Moved(b, "CLOSED", NoTime)
  <2> HIDE DEF p
  <2>1. QED
    BY <1>0, <1>1, TransitionToFacts DEF States, Moved
<1>3. QED
  BY <1>0, <1>1, <1>2 DEF PassProbe

\* A current outcome that passes: what happens in each state.
LEMMA RecordThenPassFacts ==
  ASSUME NEW b \in Breaker, NEW o \in Outcomes, NEW c \in ValidConfig, NEW t \in Nat,
         NEW r, r = PassProbe(Record(b, o, c, t), c, t)
  PROVE  /\ r \in Breaker
         /\ b.state = "CLOSED" => Decides(r) \in {Decides(b), Moved(b, "OPEN", t)}
         /\ b.state = "OPEN" => Decides(r) = Decides(b)
         /\ b.state = "HALF_OPEN" =>
              Decides(r) = IF b.halfOpenSuccesses + 1 >= c.halfOpenMaxCalls
                           THEN Moved(b, "CLOSED", NoTime)
                           ELSE <<"HALF_OPEN", b.openedAt, b.halfOpenCalls,
                                  b.halfOpenSuccesses + 1, b.generation>>
<1> DEFINE m == Record(b, o, c, t)
<1>1. /\ m \in Breaker
      /\ \/ Decides(m) = Decides(b)
         \/ b.state = "CLOSED" /\ Decides(m) = Moved(b, "OPEN", t)
  BY RecordFacts
<1> HIDE DEF m
<1>2. /\ r \in Breaker
      /\ m.state # "HALF_OPEN" => r = m
      /\ m.state = "HALF_OPEN" =>
           Decides(r) = IF m.halfOpenSuccesses + 1 >= c.halfOpenMaxCalls
                        THEN Moved(m, "CLOSED", NoTime)
                        ELSE <<"HALF_OPEN", m.openedAt, m.halfOpenCalls,
                               m.halfOpenSuccesses + 1, m.generation>>
  BY <1>1, PassProbeFacts DEF m
<1>3. CASE b.state = "HALF_OPEN"
  <2>1. Decides(m) = Decides(b)
    BY <1>1, <1>3
  <2>2. /\ m.state = "HALF_OPEN" /\ m.openedAt = b.openedAt
        /\ m.halfOpenCalls = b.halfOpenCalls
        /\ m.halfOpenSuccesses = b.halfOpenSuccesses
        /\ m.generation = b.generation
    BY <2>1, <1>3 DEF Decides
  <2>3. QED
    BY <1>2, <1>3, <2>2 DEF Moved
<1>4. CASE b.state # "HALF_OPEN"
  <2>1. m.state # "HALF_OPEN"
    BY <1>1, <1>4 DEF Decides, Moved
  <2>2. QED
    BY <1>1, <1>2, <1>4, <2>1
<1>5. QED
  BY <1>3, <1>4

\* What one report can do to the deciding fields: nothing when it is stale;
\* otherwise trip a CLOSED breaker, or count towards the verdict of HALF_OPEN.
LEMMA SettleFacts ==
  ASSUME NEW b \in Breaker, NEW e \in Endings, NEW d \in Int, NEW g,
         NEW c \in ValidConfig, NEW t \in Nat,
         NEW r, r = Settle(b, e, d, g, c, t)
  PROVE  /\ r \in Breaker
         /\ g # b.generation => Decides(r) = Decides(b)
         /\ b.state = "CLOSED" => Decides(r) \in {Decides(b), Moved(b, "OPEN", t)}
         /\ b.state = "OPEN" => Decides(r) = Decides(b)
         /\ b.state = "HALF_OPEN" /\ g = b.generation =>
              Decides(r) = IF e = "infra" THEN Moved(b, "OPEN", t)
                           ELSE IF b.halfOpenSuccesses + 1 >= c.halfOpenMaxCalls
                           THEN Moved(b, "CLOSED", NoTime)
                           ELSE <<"HALF_OPEN", b.openedAt, b.halfOpenCalls,
                                  b.halfOpenSuccesses + 1, b.generation>>
<1>1. CASE e = "infra"
  <2> DEFINE n == CountFailure(b)
             m == Record(n, "failure", c, t)
  <2>1. n \in Breaker /\ Decides(n) = Decides(b)
    BY CountFacts
  <2>2. r = IF g # b.generation THEN n
            ELSE IF m.state = "HALF_OPEN" THEN TransitionTo(m, "OPEN", t) ELSE m
    BY <1>1 DEF Settle, OnInfrastructureError
  <2> HIDE DEF n
  <2>3. /\ m \in Breaker
        /\ \/ Decides(m) = Decides(n)
           \/ n.state = "CLOSED" /\ Decides(m) = Moved(n, "OPEN", t)
    BY <2>1, RecordFacts DEF Outcomes
  <2> HIDE DEF m
  <2>4. Moved(n, "OPEN", t) = Moved(b, "OPEN", t) /\ n.state = b.state
    BY <2>1 DEF Decides, Moved
  <2>5. /\ TransitionTo(m, "OPEN", t) \in Breaker
        /\ Decides(TransitionTo(m, "OPEN", t)) = Moved(m, "OPEN", t)
    BY <2>3, TransitionToFacts DEF States
  <2>6. CASE b.state = "HALF_OPEN"
    <3>1. m.state = "HALF_OPEN" /\ Moved(m, "OPEN", t) = Moved(b, "OPEN", t)
      BY <2>1, <2>3, <2>4, <2>6 DEF Decides, Moved
    <3>2. QED
      BY <1>1, <2>1, <2>2, <2>5, <2>6, <3>1
  <2>7. CASE b.state # "HALF_OPEN"
    <3>1. m.state # "HALF_OPEN"
      BY <2>3, <2>4, <2>7 DEF Decides, Moved
    <3>2. QED
      BY <2>1, <2>2, <2>3, <2>4, <2>7, <3>1
  <2>8. QED
    BY <2>6, <2>7
<1>2. CASE e # "infra"
  <2>1. PICK s \in BOOLEAN, o \in Outcomes :
          r = IF g # b.generation THEN CountSuccess(b, s)
              ELSE PassProbe(Record(CountSuccess(b, s), o, c, t), c, t)
    <3>1. CASE e = "ok"
      <4> DEFINE slow == d >= c.slowCallDurationMs
                 out  == IF slow THEN "slow" ELSE "success"
      <4>1. slow \in BOOLEAN /\ out \in Outcomes
        BY DEF Outcomes
      <4>2. r = IF g # b.generation THEN CountSuccess(b, slow)
                ELSE PassProbe(Record(CountSuccess(b, slow), out, c, t), c, t)
        BY <3>1 DEF Settle, OnSuccess
      <4> HIDE DEF slow, out
      <4>3. QED
        BY <4>1, <4>2
    <3>2. CASE e = "business"
      BY <3>2 DEF Settle, OnBusinessError, Outcomes
    <3>3. QED
      BY <1>2, <3>1, <3>2 DEF Endings
  <2> DEFINE n == CountSuccess(b, s)
             m == PassProbe(Record(n, o, c, t), c, t)
  <2>2. n \in Breaker /\ Decides(n) = Decides(b)
    BY CountFacts
  <2> HIDE DEF n
  <2>3. /\ n.state = b.state /\ n.openedAt = b.openedAt
        /\ n.halfOpenCalls = b.halfOpenCalls
        /\ n.halfOpenSuccesses = b.halfOpenSuccesses
        /\ n.generation = b.generation
    BY <2>2 DEF Decides
  <2>4. r = IF g # b.generation THEN n ELSE m
    BY <2>1 DEF n
  <2>5. /\ m \in Breaker
        /\ n.state = "CLOSED" => Decides(m) \in {Decides(n), Moved(n, "OPEN", t)}
        /\ n.state = "OPEN" => Decides(m) = Decides(n)
        /\ n.state = "HALF_OPEN" =>
             Decides(m) = IF n.halfOpenSuccesses + 1 >= c.halfOpenMaxCalls
                          THEN Moved(n, "CLOSED", NoTime)
                          ELSE <<"HALF_OPEN", n.openedAt, n.halfOpenCalls,
                                 n.halfOpenSuccesses + 1, n.generation>>
    BY <2>2, RecordThenPassFacts
  <2> HIDE DEF m
  <2>6. QED
    BY <1>2, <2>2, <2>3, <2>4, <2>5 DEF Moved
<1>3. QED
  BY <1>1, <1>2

LEMMA SyncStateFacts ==
  ASSUME NEW b \in Breaker, NEW c \in ValidConfig, NEW t \in Nat,
         NEW r, r = SyncState(b, c, t)
  PROVE  /\ r \in Breaker
         /\ TimedOut(b, c, t) =>
              b.state = "OPEN" /\ Decides(r) = Moved(b, "HALF_OPEN", b.openedAt)
         /\ ~TimedOut(b, c, t) => r = b
BY TransitionToFacts DEF SyncState, States, TimedOut

LEMMA ResetFacts ==
  ASSUME NEW b \in Breaker, NEW t \in Nat
  PROVE  /\ Reset(b, t) \in Breaker
         /\ Decides(Reset(b, t)) = Moved(b, "CLOSED", NoTime)
<1>1. NoCalls \in Counters
  BY DEF NoCalls, Counters
<1>2. TransitionTo(b, "CLOSED", t) \in Breaker
  BY TransitionToFacts DEF States
<1>3. QED
  BY <1>1, <1>2, CountersUpdate, TransitionToFacts DEF Reset

-----------------------------------------------------------------------------
(* The mutex and the type invariant *)

\* A call that reports knows how its task ended.
EndingKnown ==
  \A c \in Calls : pc[c] \in {"exitWait", "exiting"} => ending[c] \in Endings

MutexTypes ==
  /\ locked \in BOOLEAN
  /\ queue \in Seq(Calls)
  /\ pc \in [All -> PCs]

LEMMA AcquireKeepsMutex ==
  ASSUME MutexTypes, MutexOK,
         NEW c \in Calls, pc[c] \in {"idle", "running"},
         NEW wait \in {"enterWait", "exitWait"},
         Acquire(c, wait)
  PROVE  /\ MutexTypes' /\ MutexOK'
         /\ pc'[c] \in {wait, Granted[wait]}
         /\ \A d \in All \ {c} : pc'[d] = pc[d]
<1>1. c \in All /\ ~Waiting(c) /\ ~Holding(c)
  BY DEF All, Waiting, Holding
<1>2. Granted["enterWait"] = "entering" /\ Granted["exitWait"] = "exiting"
  BY DEF Granted
<1>3. CASE locked
  <2>1. queue' = Append(queue, c) /\ locked' = locked /\ pc' = [pc EXCEPT ![c] = wait]
    BY <1>3 DEF Acquire
  <2>2. MutexTypes'
    BY <1>1, <2>1 DEF MutexTypes, PCs
  <2>3. \A d \in Calls : /\ Holding(d)' <=> Holding(d)
                         /\ Waiting(d)' <=> (Waiting(d) \/ d = c)
    BY <1>1, <2>1 DEF MutexTypes, Holding, Waiting, All
  <2>4. /\ DOMAIN queue' = 1..(Len(queue) + 1)
        /\ \A i \in 1..Len(queue) : queue'[i] = queue[i]
        /\ queue'[Len(queue) + 1] = c
        /\ DOMAIN queue = 1..Len(queue) /\ Len(queue) \in Nat
    BY <2>1 DEF MutexTypes
  <2>5. \A i \in 1..Len(queue) : queue[i] # c
    BY <1>1, <2>4 DEF MutexOK
  <2>6. \A d \in Calls : Waiting(d)' <=> \E i \in DOMAIN queue' : queue'[i] = d
    BY <2>3, <2>4 DEF MutexOK
  <2>7. \A i, j \in DOMAIN queue' : queue'[i] = queue'[j] => i = j
    BY <2>4, <2>5 DEF MutexOK
  <2>8. MutexOK'
    BY <1>3, <2>1, <2>3, <2>6, <2>7 DEF MutexOK
  <2>9. QED
    BY <2>1, <2>2, <2>8 DEF MutexTypes, All
<1>4. CASE ~locked
  <2>1. queue' = queue /\ locked' = TRUE /\ pc' = [pc EXCEPT ![c] = Granted[wait]]
    BY <1>4 DEF Acquire
  <2>2. MutexTypes'
    BY <1>1, <1>2, <2>1 DEF MutexTypes, PCs
  <2>3. \A d \in Calls : /\ Holding(d)' <=> (Holding(d) \/ d = c)
                         /\ Waiting(d)' <=> Waiting(d)
    BY <1>1, <1>2, <2>1 DEF MutexTypes, Holding, Waiting, All
  <2>4. \A d \in Calls : ~Holding(d)
    BY <1>4 DEF MutexOK
  <2>5. MutexOK'
    BY <2>1, <2>3, <2>4 DEF MutexOK
  <2>6. QED
    BY <2>1, <2>2, <2>5 DEF MutexTypes, All
<1>5. QED
  BY <1>3, <1>4

LEMMA ReleaseKeepsMutex ==
  ASSUME MutexTypes, MutexOK,
         NEW c \in Calls, Holding(c),
         NEW next \in {"rejected", "running", "done"},
         Release(c, next)
  PROVE  /\ MutexTypes' /\ MutexOK'
         /\ pc'[c] = next
         /\ \A d \in All \ {c} :
              \/ pc'[d] = pc[d]
              \/ pc[d] = "enterWait" /\ pc'[d] = "entering"
              \/ pc[d] = "exitWait" /\ pc'[d] = "exiting"
<1>1. c \in All /\ ~Waiting(c)
  BY DEF All, Waiting, Holding
<1>2. Granted["enterWait"] = "entering" /\ Granted["exitWait"] = "exiting"
  BY DEF Granted
<1>3. locked /\ \A d \in Calls : Holding(d) => d = c
  BY DEF MutexOK
<1>4. CASE queue # <<>>
  <2> DEFINE h == Head(queue)
  <2>1. /\ queue' = Tail(queue) /\ locked' = locked
        /\ pc' = [pc EXCEPT ![c] = next, ![h] = Granted[pc[h]]]
    BY <1>4 DEF Release
  <2>2. /\ DOMAIN queue = 1..Len(queue) /\ Len(queue) \in Nat /\ 1 \in DOMAIN queue
        /\ h = queue[1] /\ h \in Calls
        /\ Tail(queue) \in Seq(Calls)
        /\ DOMAIN queue' = 1..(Len(queue) - 1)
        /\ \A i \in 1..(Len(queue) - 1) : queue'[i] = queue[i + 1]
    BY <1>4, <2>1 DEF MutexTypes
  <2>3. Waiting(h) /\ h # c /\ h \in All
    BY <1>1, <2>2 DEF MutexOK, All
  <2> HIDE DEF h
  <2>4. /\ pc'[c] = next
        /\ pc'[h] = Granted[pc[h]]
        /\ \A d \in All \ {c, h} : pc'[d] = pc[d]
        /\ pc[h] \in {"enterWait", "exitWait"}
    BY <1>1, <2>1, <2>3 DEF MutexTypes, Waiting
  <2>5. MutexTypes'
    BY <1>2, <2>1, <2>2, <2>4 DEF MutexTypes, PCs
  <2>6. \A d \in Calls : /\ Holding(d)' <=> d = h
                         /\ Waiting(d)' <=> (Waiting(d) /\ d # h)
    BY <1>1, <1>2, <1>3, <2>3, <2>4 DEF Holding, Waiting, All
  <2>7. \A d \in Calls : Waiting(d)' <=> \E i \in DOMAIN queue' : queue'[i] = d
    <3>1. ASSUME NEW d \in Calls, Waiting(d)'
          PROVE  \E i \in DOMAIN queue' : queue'[i] = d
      <4>1. PICK i \in DOMAIN queue : queue[i] = d
        BY <2>6, <3>1 DEF MutexOK
      <4>2. i # 1
        BY <2>2, <2>6, <3>1, <4>1
      <4>3. i - 1 \in DOMAIN queue' /\ queue'[i - 1] = d
        BY <2>2, <4>1, <4>2
      <4>4. QED
        BY <4>3
    <3>2. ASSUME NEW d \in Calls, NEW i \in DOMAIN queue', queue'[i] = d
          PROVE  Waiting(d)'
      <4>1. i + 1 \in DOMAIN queue /\ queue[i + 1] = d /\ i + 1 # 1
        BY <2>2, <3>2
      <4>2. Waiting(d) /\ d # h
        BY <2>2, <4>1 DEF MutexOK
      <4>3. QED
        BY <2>6, <4>2
    <3>3. QED
      BY <3>1, <3>2
  <2>8. \A i, j \in DOMAIN queue' : queue'[i] = queue'[j] => i = j
    <3>1. SUFFICES ASSUME NEW i \in DOMAIN queue', NEW j \in DOMAIN queue',
                          queue'[i] = queue'[j]
                   PROVE  i = j
      OBVIOUS
    <3>2. /\ i + 1 \in DOMAIN queue /\ j + 1 \in DOMAIN queue
          /\ queue[i + 1] = queue[j + 1]
      BY <2>2, <3>1
    <3>3. i + 1 = j + 1
      BY <3>2 DEF MutexOK
    <3>4. QED
      BY <2>2, <3>3
  <2>9. MutexOK'
    BY <1>3, <2>1, <2>2, <2>6, <2>7, <2>8 DEF MutexOK
  <2>10. QED
    BY <1>2, <2>4, <2>5, <2>9
<1>5. CASE queue = <<>>
  <2>1. queue' = queue /\ locked' = FALSE /\ pc' = [pc EXCEPT ![c] = next]
    BY <1>5 DEF Release
  <2>2. MutexTypes'
    BY <1>1, <2>1 DEF MutexTypes, PCs
  <2>3. \A d \in Calls : ~Holding(d)' /\ (Waiting(d)' <=> Waiting(d))
    BY <1>1, <1>3, <2>1 DEF MutexTypes, Holding, Waiting, All
  <2>4. MutexOK'
    BY <1>5, <2>1, <2>3 DEF MutexOK
  <2>5. QED
    BY <2>1, <2>2, <2>4, <1>1 DEF MutexTypes
<1>6. QED
  BY <1>4, <1>5

-----------------------------------------------------------------------------
(* The core invariant: types, the mutex, and calls of older generations *)

GenerationsPast == \A c \in Calls : gen[c] <= breaker.generation

CoreInv == TypeOK /\ MutexOK /\ EndingKnown /\ GenerationsPast /\ OpenIsQuiet

LEMMA InitCore == Init => CoreInv
<1> SUFFICES ASSUME Init PROVE CoreInv
  OBVIOUS
<1>2. NewBreaker \in Breaker
  <2>1. NoCalls \in Counters
    BY DEF NoCalls, Counters
  <2>2. QED
    BY <2>1 DEF NewBreaker, Breaker, States, NoTime
<1>3. TypeOK
  <2>1. pc \in [All -> PCs] /\ gen \in [All -> Nat \cup {NoGen}] /\ start \in [All -> Nat]
    BY DEF Init, PCs
  <2>2. ending \in [Calls -> Endings \cup {"none"}] /\ queue \in Seq(Calls)
    BY DEF Init
  <2>3. config \in Config /\ ValidateConfig(config)
    BY ConfigAssumption DEF Init
  <2>4. QED
    BY <1>2, <2>1, <2>2, <2>3 DEF Init, TypeOK
<1>4. MutexOK
  BY DEF Init, MutexOK, Holding, Waiting, All
<1>5. EndingKnown /\ GenerationsPast /\ OpenIsQuiet
  BY DEF Init, EndingKnown, GenerationsPast, OpenIsQuiet, NewBreaker, NoGen, All
<1>6. QED
  BY <1>3, <1>4, <1>5 DEF CoreInv

\* A step that changes no call and leaves the breaker well formed keeps the
\* core invariant, if it moves the breaker to OPEN only with a new generation.
LEMMA BreakerStepKeepsCore ==
  ASSUME CoreInv,
         breaker' \in Breaker,
         \/ Decides(breaker') = Decides(breaker)
         \/ breaker'.generation = breaker.generation + 1,
         config' \in ValidConfig, now' \in Nat, resets' \in Nat,
         UNCHANGED <<locked, queue, pc, callVars>>
  PROVE  CoreInv'
<1>0. /\ locked' = locked /\ queue' = queue /\ pc' = pc
      /\ gen' = gen /\ start' = start /\ ending' = ending
  BY DEF callVars
<1>1. TypeOK'
  BY <1>0 DEF CoreInv, TypeOK, ValidConfig
<1>2. MutexOK'
  BY <1>0 DEF CoreInv, MutexOK, Holding, Waiting
<1>3. EndingKnown'
  BY <1>0 DEF CoreInv, EndingKnown
<1>4. GenerationsPast' /\ OpenIsQuiet'
  <2>1. breaker.generation \in Nat /\ \A c \in Calls : gen[c] \in Int
    BY DEF CoreInv, TypeOK, Breaker, All, NoGen
  <2>2. CASE Decides(breaker') = Decides(breaker)
    BY <2>2 DEF CoreInv, GenerationsPast, OpenIsQuiet, CurrentCalls, InFlight,
                Decides, callVars
  <2>3. CASE breaker'.generation = breaker.generation + 1
    BY <2>1, <2>3 DEF CoreInv, GenerationsPast, OpenIsQuiet, CurrentCalls, callVars
  <2>4. QED
    BY <2>2, <2>3
<1>5. QED
  BY <1>1, <1>2, <1>3, <1>4 DEF CoreInv

LEMMA CoreTypes ==
  ASSUME CoreInv
  PROVE  /\ MutexTypes /\ MutexOK
         /\ breaker \in Breaker /\ breaker.generation \in Nat
         /\ config \in ValidConfig /\ now \in Nat /\ resets \in Nat
         /\ gen \in [All -> Nat \cup {NoGen}] /\ start \in [All -> Nat]
         /\ ending \in [Calls -> Endings \cup {"none"}]
         /\ \A c \in Calls : gen[c] \in Int /\ gen[c] <= breaker.generation
         /\ Calls \subseteq All
BY DEF CoreInv, TypeOK, MutexTypes, ValidConfig, Breaker, GenerationsPast, All, NoGen

LEMMA EnterKeepsCore ==
  ASSUME CoreInv, NEW c \in Calls, Enter(c)
  PROVE  CoreInv'
<1>1. /\ MutexTypes' /\ MutexOK'
      /\ pc'[c] \in {"enterWait", "entering"}
      /\ \A d \in All \ {c} : pc'[d] = pc[d]
  BY CoreTypes, AcquireKeepsMutex DEF Enter, Granted
<1>2. TypeOK'
  BY <1>1 DEF CoreInv, TypeOK, MutexTypes, Enter, callVars
<1>3. \A d \in Calls : InFlight(d)' => InFlight(d)
  BY <1>1, CoreTypes DEF InFlight
<1>4. EndingKnown' /\ GenerationsPast' /\ OpenIsQuiet'
  BY <1>1, <1>3, CoreTypes
     DEF CoreInv, EndingKnown, GenerationsPast, OpenIsQuiet, CurrentCalls, Enter, callVars
<1>5. QED
  BY <1>1, <1>2, <1>4 DEF CoreInv

LEMMA TaskSettlesKeepsCore ==
  ASSUME CoreInv, NEW c \in Calls, NEW e \in Endings, TaskSettles(c, e)
  PROVE  CoreInv'
<1>1. /\ MutexTypes' /\ MutexOK'
      /\ pc'[c] \in {"exitWait", "exiting"}
      /\ \A d \in All \ {c} : pc'[d] = pc[d]
  BY CoreTypes, AcquireKeepsMutex DEF TaskSettles, Granted
<1>2. TypeOK'
  BY <1>1, CoreTypes DEF CoreInv, TypeOK, MutexTypes, TaskSettles
<1>3. \A d \in Calls : InFlight(d)' <=> InFlight(d)
  BY <1>1, CoreTypes DEF InFlight, TaskSettles
<1>4. EndingKnown'
  BY <1>1, CoreTypes DEF CoreInv, EndingKnown, TaskSettles
<1>5. GenerationsPast' /\ OpenIsQuiet'
  BY <1>3, CoreTypes
     DEF CoreInv, GenerationsPast, OpenIsQuiet, CurrentCalls, TaskSettles
<1>6. QED
  BY <1>1, <1>2, <1>4, <1>5 DEF CoreInv

\* The three steps that hold the mutex change pc alike.
LEMMA CriticalSection ==
  ASSUME CoreInv, NEW c \in Calls, Holding(c),
         NEW next \in {"rejected", "running", "done"}, Release(c, next)
  PROVE  /\ MutexTypes' /\ MutexOK'
         /\ pc'[c] = next
         /\ \A d \in Calls \ {c} : InFlight(d)' <=> InFlight(d)
         /\ \A d \in Calls \ {c} : pc'[d] \in {"exitWait", "exiting"}
                                   => pc[d] \in {"exitWait", "exiting"}
BY CoreTypes, ReleaseKeepsMutex DEF InFlight

LEMMA RejectKeepsCore ==
  ASSUME CoreInv, NEW c \in Calls, Reject(c)
  PROVE  CoreInv'
<1> DEFINE b == SyncState(breaker, config, now)
<1>1. /\ MutexTypes' /\ MutexOK'
      /\ pc'[c] = "rejected"
      /\ \A d \in Calls \ {c} : InFlight(d)' <=> InFlight(d)
      /\ \A d \in Calls \ {c} : pc'[d] \in {"exitWait", "exiting"}
                                => pc[d] \in {"exitWait", "exiting"}
  BY CriticalSection DEF Reject, Holding
<1>2. /\ b \in Breaker
      /\ \/ b = breaker
         \/ b.state = "HALF_OPEN" /\ b.generation = breaker.generation + 1
  BY CoreTypes, SyncStateFacts DEF Decides, Moved
<1>3. /\ breaker' \in Breaker
      /\ breaker'.state = b.state /\ breaker'.generation = b.generation
  <2> HIDE DEF b
  <2>1. QED
    BY <1>2, CountFacts DEF Reject, b
<1>4. TypeOK'
  BY <1>1, <1>3 DEF CoreInv, TypeOK, MutexTypes, Reject, callVars
<1>5. EndingKnown'
  BY <1>1, CoreTypes DEF CoreInv, EndingKnown, Reject, callVars
<1>6. GenerationsPast' /\ OpenIsQuiet'
  <2>1. \A d \in Calls : InFlight(d)' => InFlight(d)
    BY <1>1 DEF InFlight
  <2> HIDE DEF b
  <2>2. QED
    BY <1>2, <1>3, <2>1, CoreTypes
       DEF CoreInv, GenerationsPast, OpenIsQuiet, CurrentCalls, Reject, callVars
<1>7. QED
  BY <1>1, <1>4, <1>5, <1>6 DEF CoreInv

LEMMA AdmitKeepsCore ==
  ASSUME CoreInv, NEW c \in Calls, Admit(c)
  PROVE  CoreInv'
<1> DEFINE b == SyncState(breaker, config, now)
<1>1. /\ MutexTypes' /\ MutexOK'
      /\ pc'[c] = "running"
      /\ \A d \in Calls \ {c} : InFlight(d)' <=> InFlight(d)
      /\ \A d \in Calls \ {c} : pc'[d] \in {"exitWait", "exiting"}
                                => pc[d] \in {"exitWait", "exiting"}
  BY CriticalSection DEF Admit, Holding
<1>2. /\ b \in Breaker
      /\ \/ b = breaker
         \/ b.state = "HALF_OPEN" /\ b.generation = breaker.generation + 1
  BY CoreTypes, SyncStateFacts DEF Decides, Moved
<1>3. b.generation \in Nat /\ b.generation >= breaker.generation /\ b.state # "OPEN"
  BY <1>2, CoreTypes DEF Breaker, Admit, Permitted
<1>4. /\ breaker' \in Breaker
      /\ breaker'.state = b.state /\ breaker'.generation = b.generation
      /\ gen' = [gen EXCEPT ![c] = b.generation]
  <2> HIDE DEF b
  <2>1. QED
    BY <1>2, AdmittedFacts DEF Admit, Decides, b
<1>5. TypeOK'
  <2> HIDE DEF b
  <2>1. QED
    BY <1>1, <1>3, <1>4, CoreTypes DEF CoreInv, TypeOK, MutexTypes, Admit
<1>6. EndingKnown'
  BY <1>1, CoreTypes DEF CoreInv, EndingKnown, Admit
<1>7. GenerationsPast' /\ OpenIsQuiet'
  <2> HIDE DEF b
  <2>1. QED
    BY <1>3, <1>4, CoreTypes DEF CoreInv, GenerationsPast, OpenIsQuiet
<1>8. QED
  BY <1>1, <1>5, <1>6, <1>7 DEF CoreInv

LEMMA ReportKeepsCore ==
  ASSUME CoreInv, NEW c \in Calls, Report(c)
  PROVE  CoreInv'
<1>1. /\ MutexTypes' /\ MutexOK'
      /\ pc'[c] = "done"
      /\ \A d \in Calls \ {c} : InFlight(d)' <=> InFlight(d)
      /\ \A d \in Calls \ {c} : pc'[d] \in {"exitWait", "exiting"}
                                => pc[d] \in {"exitWait", "exiting"}
  BY CriticalSection DEF Report, Holding
<1>2. ending[c] \in Endings /\ now - start[c] \in Int
  BY CoreTypes DEF CoreInv, EndingKnown, Report
<1>3. /\ breaker' \in Breaker
      /\ \/ breaker'.state = breaker.state /\ breaker'.generation = breaker.generation
         \/ breaker'.generation = breaker.generation + 1
  <2>1. /\ breaker' \in Breaker
        /\ gen[c] # breaker.generation => Decides(breaker') = Decides(breaker)
        /\ breaker.state = "CLOSED" =>
             Decides(breaker') \in {Decides(breaker), Moved(breaker, "OPEN", now)}
        /\ breaker.state = "OPEN" => Decides(breaker') = Decides(breaker)
        /\ breaker.state = "HALF_OPEN" /\ gen[c] = breaker.generation =>
             Decides(breaker') =
               IF ending[c] = "infra" THEN Moved(breaker, "OPEN", now)
               ELSE IF breaker.halfOpenSuccesses + 1 >= config.halfOpenMaxCalls
               THEN Moved(breaker, "CLOSED", NoTime)
               ELSE <<"HALF_OPEN", breaker.openedAt, breaker.halfOpenCalls,
                      breaker.halfOpenSuccesses + 1, breaker.generation>>
    BY <1>2, CoreTypes, SettleFacts DEF Report
  <2>2. breaker.state \in States
    BY CoreTypes DEF Breaker
  <2>3. QED
    BY <2>1, <2>2 DEF Decides, Moved, States
<1>4. TypeOK'
  BY <1>1, <1>3 DEF CoreInv, TypeOK, MutexTypes, Report, callVars
<1>5. EndingKnown'
  BY <1>1, CoreTypes DEF CoreInv, EndingKnown, Report, callVars
<1>6. GenerationsPast' /\ OpenIsQuiet'
  <2>1. \A d \in Calls : InFlight(d)' => InFlight(d)
    BY <1>1 DEF InFlight
  <2>2. QED
    BY <1>3, <2>1, CoreTypes
       DEF CoreInv, GenerationsPast, OpenIsQuiet, CurrentCalls, Report, callVars
<1>7. QED
  BY <1>1, <1>4, <1>5, <1>6 DEF CoreInv

LEMMA DirectKeepsCore ==
  ASSUME CoreInv, NEW d \in DirectCalls, DirectStep(d)
  PROVE  CoreInv'
<1>1. d \in All /\ d \notin Calls
  BY BoundAssumption DEF All
<1> DEFINE Effect ==
       /\ locked' = locked /\ queue' = queue /\ ending' = ending
       /\ config' = config /\ now' = now /\ resets' = resets
       /\ pc' \in [All -> PCs] /\ gen' \in [All -> Nat \cup {NoGen}]
       /\ start' \in [All -> Nat]
       /\ \A c \in Calls : pc'[c] = pc[c] /\ gen'[c] = gen[c]
       /\ breaker' \in Breaker
       /\ \/ breaker'.state = breaker.state /\ breaker'.generation = breaker.generation
          \/ breaker'.generation = breaker.generation + 1
<1>2. Effect
  <2>1. CASE DirectAttempt(d)
    <3> DEFINE b == SyncState(breaker, config, now)
    <3>1. /\ b \in Breaker
          /\ \/ b = breaker
             \/ b.generation = breaker.generation + 1
      BY CoreTypes, SyncStateFacts DEF Decides, Moved
    <3>2. b.generation \in Nat
      BY <3>1 DEF Breaker
    <3> HIDE DEF b
    <3>3. QED
      BY <1>1, <2>1, <3>1, <3>2, CoreTypes DEF DirectAttempt, PCs, MutexTypes, b
  <2>2. ASSUME NEW e \in Endings, DirectReport(d, e)
        PROVE  Effect
    <3>1. now - start[d] \in Int
      BY <1>1, CoreTypes
    <3>2. /\ breaker' \in Breaker
          /\ breaker.state = "CLOSED" =>
               Decides(breaker') \in {Decides(breaker), Moved(breaker, "OPEN", now)}
          /\ breaker.state = "OPEN" => Decides(breaker') = Decides(breaker)
          /\ breaker.state = "HALF_OPEN" =>
               Decides(breaker') =
                 IF e = "infra" THEN Moved(breaker, "OPEN", now)
                 ELSE IF breaker.halfOpenSuccesses + 1 >= config.halfOpenMaxCalls
                 THEN Moved(breaker, "CLOSED", NoTime)
                 ELSE <<"HALF_OPEN", breaker.openedAt, breaker.halfOpenCalls,
                        breaker.halfOpenSuccesses + 1, breaker.generation>>
      BY <2>2, <3>1, CoreTypes, SettleFacts DEF DirectReport
    <3>3. breaker.state \in States
      BY CoreTypes DEF Breaker
    <3>4. \/ breaker'.state = breaker.state /\ breaker'.generation = breaker.generation
          \/ breaker'.generation = breaker.generation + 1
      BY <3>2, <3>3 DEF Decides, Moved, States
    <3>5. QED
      BY <1>1, <2>2, <3>2, <3>4, CoreTypes DEF DirectReport, callVars, PCs, MutexTypes
  <2>3. CASE DirectNoReport(d)
    BY <1>1, <2>3, CoreTypes DEF DirectNoReport, callVars, PCs, MutexTypes
  <2>4. QED
    BY <2>1, <2>2, <2>3 DEF DirectStep
<1>3. TypeOK'
  BY <1>2, CoreTypes DEF CoreInv, TypeOK
<1>4. \A c \in Calls : /\ Holding(c)' <=> Holding(c)
                       /\ Waiting(c)' <=> Waiting(c)
                       /\ InFlight(c)' <=> InFlight(c)
  BY <1>2 DEF Holding, Waiting, InFlight
<1>5. MutexOK'
  BY <1>2, <1>4, CoreTypes DEF MutexOK
<1>6. EndingKnown'
  BY <1>2 DEF CoreInv, EndingKnown
<1>7. GenerationsPast' /\ OpenIsQuiet'
  BY <1>2, <1>4, CoreTypes DEF CoreInv, GenerationsPast, OpenIsQuiet, CurrentCalls
<1>8. QED
  BY <1>3, <1>5, <1>6, <1>7 DEF CoreInv

LEMMA UnlockedKeepsCore ==
  ASSUME CoreInv,
         Observe \/ (\E k \in Configs : UpdateConfig(k)) \/ ResetBreaker \/ Tick
  PROVE  CoreInv'
<1>1. CASE Observe
  <2>1. /\ breaker' \in Breaker
        /\ \/ breaker' = breaker
           \/ breaker'.generation = breaker.generation + 1
    BY <1>1, CoreTypes, SyncStateFacts DEF Observe, Decides, Moved
  <2>2. QED
    BY <1>1, <2>1, CoreTypes, BreakerStepKeepsCore DEF Observe
<1>2. ASSUME NEW k \in Configs, UpdateConfig(k)
      PROVE  CoreInv'
  <2>1. config' \in ValidConfig
    BY <1>2, ConfigAssumption DEF UpdateConfig, ValidConfig
  <2>2. QED
    BY <1>2, <2>1, CoreTypes, BreakerStepKeepsCore DEF UpdateConfig
<1>3. CASE ResetBreaker
  <2>1. breaker' \in Breaker /\ breaker'.generation = breaker.generation + 1
    BY <1>3, CoreTypes, ResetFacts DEF ResetBreaker, Decides, Moved
  <2>2. QED
    BY <1>3, <2>1, CoreTypes, BreakerStepKeepsCore DEF ResetBreaker
<1>4. CASE Tick
  BY <1>4, CoreTypes, BreakerStepKeepsCore DEF Tick
<1>5. QED
  BY <1>1, <1>2, <1>3, <1>4

LEMMA StepCore == CoreInv /\ [Next]_vars => CoreInv'
<1> SUFFICES ASSUME CoreInv, [Next]_vars
             PROVE  CoreInv'
  OBVIOUS
<1>1. ASSUME NEW c \in Calls, ExecuteStep(c)
      PROVE  CoreInv'
  BY <1>1, EnterKeepsCore, RejectKeepsCore, AdmitKeepsCore, TaskSettlesKeepsCore,
     ReportKeepsCore DEF ExecuteStep
<1>2. ASSUME NEW d \in DirectCalls, DirectStep(d)
      PROVE  CoreInv'
  BY <1>2, DirectKeepsCore
<1>3. CASE Observe \/ (\E k \in Configs : UpdateConfig(k)) \/ ResetBreaker \/ Tick
  BY <1>3, UnlockedKeepsCore
<1>4. CASE UNCHANGED vars
  BY <1>4, CoreTypes, BreakerStepKeepsCore DEF vars
<1>5. QED
  BY <1>1, <1>2, <1>3, <1>4 DEF Next

\* Whatever mix of execute() calls, duck-typed clients, resets and
\* reconfigurations shares the breaker, its core invariant holds.
THEOREM CoreInvariance == Spec => []CoreInv
<1>1. Init => CoreInv
  BY InitCore
<1>2. CoreInv /\ [Next]_vars => CoreInv'
  BY StepCore
<1>3. QED
  BY <1>1, <1>2, PTL DEF Spec

\* Every field and every call's position keeps its type: no sequence of calls
\* leaves the breaker outside CLOSED / OPEN / HALF_OPEN with a legal window.
THEOREM TypeCorrectness == Spec => []TypeOK
<1>1. CoreInv => TypeOK
  BY DEF CoreInv
<1>2. QED
  BY <1>1, CoreInvariance, PTL

\* AsyncMutex excludes and hands over to each waiter exactly once.
THEOREM MutualExclusion == Spec => []MutexOK
<1>1. CoreInv => MutexOK
  BY DEF CoreInv
<1>2. QED
  BY <1>1, CoreInvariance, PTL

\* No call in flight belongs to the generation of an OPEN breaker.
THEOREM OpenQuiet == Spec => []OpenIsQuiet
<1>1. CoreInv => OpenIsQuiet
  BY DEF CoreInv
<1>2. QED
  BY <1>1, CoreInvariance, PTL

-----------------------------------------------------------------------------
(* Probe accounting, for clients that all go through execute() *)

\* The effect of each step on the deciding fields and on the calls of the
\* current generation that are in flight.

LEMMA AdmitEffect ==
  ASSUME CoreInv, NEW c \in Calls, Admit(c)
  PROVE  /\ c \notin CurrentCalls
         /\ breaker.state = "CLOSED" => Decides(breaker') = Decides(breaker)
         /\ breaker.state = "HALF_OPEN" =>
              /\ breaker.halfOpenCalls < config.halfOpenMaxCalls
              /\ Decides(breaker') =
                   <<"HALF_OPEN", breaker.openedAt, breaker.halfOpenCalls + 1,
                     breaker.halfOpenSuccesses, breaker.generation>>
              /\ CurrentCalls' = CurrentCalls \cup {c}
         /\ breaker.state = "OPEN" =>
              /\ TimedOut(breaker, config, now)
              /\ Decides(breaker') =
                   <<"HALF_OPEN", breaker.openedAt, 1, 0, breaker.generation + 1>>
              /\ CurrentCalls' = {c}
<1> DEFINE b == SyncState(breaker, config, now)
<1>1. /\ pc'[c] = "running"
      /\ \A d \in Calls \ {c} : InFlight(d)' <=> InFlight(d)
  BY CriticalSection DEF Admit, Holding
<1>2. /\ b \in Breaker
      /\ TimedOut(breaker, config, now) =>
           breaker.state = "OPEN"
           /\ Decides(b) = Moved(breaker, "HALF_OPEN", breaker.openedAt)
      /\ ~TimedOut(breaker, config, now) => b = breaker
  BY CoreTypes, SyncStateFacts
<1>3. /\ Permitted(b, config)
      /\ gen' = [gen EXCEPT ![c] = b.generation]
      /\ breaker' = Admitted(b)
  BY DEF Admit
<1> HIDE DEF b
<1>4. Decides(breaker') =
        <<b.state, b.openedAt,
          IF b.state = "HALF_OPEN" THEN b.halfOpenCalls + 1 ELSE b.halfOpenCalls,
          b.halfOpenSuccesses, b.generation>>
  BY <1>2, <1>3, AdmittedFacts
<1>5. breaker'.generation = b.generation
  BY <1>4 DEF Decides
<1>6. c \notin CurrentCalls
  BY DEF CurrentCalls, InFlight, Admit
<1>7. CASE b = breaker
  <2>1. breaker.state # "OPEN"
    BY <1>3, <1>7 DEF Permitted
  <2>2. CurrentCalls' = CurrentCalls \cup {c}
    BY <1>1, <1>3, <1>5, <1>7, CoreTypes DEF CurrentCalls, InFlight
  <2>3. QED
    BY <1>3, <1>4, <1>6, <1>7, <2>1, <2>2, CoreTypes DEF Permitted, Decides, Breaker
<1>8. CASE TimedOut(breaker, config, now)
  <2>1. /\ breaker.state = "OPEN" /\ b.state = "HALF_OPEN"
        /\ b.openedAt = breaker.openedAt /\ b.halfOpenCalls = 0
        /\ b.halfOpenSuccesses = 0 /\ b.generation = breaker.generation + 1
    BY <1>2, <1>8 DEF Decides, Moved
  <2>2. CurrentCalls' = {c}
    BY <1>1, <1>3, <1>5, <2>1, CoreTypes DEF CurrentCalls, InFlight
  <2>3. QED
    BY <1>4, <1>6, <1>8, <2>1, <2>2
<1>9. QED
  BY <1>2, <1>7, <1>8

LEMMA ReportEffect ==
  ASSUME CoreInv, NEW c \in Calls, Report(c)
  PROVE  \/ /\ Decides(breaker') = Decides(breaker)
            /\ CurrentCalls' = CurrentCalls \ {c}
            /\ breaker.state # "HALF_OPEN" \/ c \notin CurrentCalls
         \/ /\ breaker.state = "CLOSED"
            /\ Decides(breaker') = Moved(breaker, "OPEN", now)
         \/ /\ breaker.state = "HALF_OPEN" /\ c \in CurrentCalls
            /\ ending[c] = "infra"
            /\ Decides(breaker') = Moved(breaker, "OPEN", now)
         \/ /\ breaker.state = "HALF_OPEN" /\ c \in CurrentCalls
            /\ ending[c] # "infra"
            /\ breaker.halfOpenSuccesses + 1 >= config.halfOpenMaxCalls
            /\ Decides(breaker') = Moved(breaker, "CLOSED", NoTime)
         \/ /\ breaker.state = "HALF_OPEN" /\ c \in CurrentCalls
            /\ ending[c] # "infra"
            /\ breaker.halfOpenSuccesses + 1 < config.halfOpenMaxCalls
            /\ Decides(breaker') =
                 <<"HALF_OPEN", breaker.openedAt, breaker.halfOpenCalls,
                   breaker.halfOpenSuccesses + 1, breaker.generation>>
            /\ CurrentCalls' = CurrentCalls \ {c}
<1>1. /\ pc'[c] = "done"
      /\ \A d \in Calls \ {c} : InFlight(d)' <=> InFlight(d)
  BY CriticalSection DEF Report, Holding
<1>2. ending[c] \in Endings /\ now - start[c] \in Int
  BY CoreTypes DEF CoreInv, EndingKnown, Report
<1>3. /\ gen[c] # breaker.generation => Decides(breaker') = Decides(breaker)
      /\ breaker.state = "CLOSED" =>
           Decides(breaker') \in {Decides(breaker), Moved(breaker, "OPEN", now)}
      /\ breaker.state = "OPEN" => Decides(breaker') = Decides(breaker)
      /\ breaker.state = "HALF_OPEN" /\ gen[c] = breaker.generation =>
           Decides(breaker') =
             IF ending[c] = "infra" THEN Moved(breaker, "OPEN", now)
             ELSE IF breaker.halfOpenSuccesses + 1 >= config.halfOpenMaxCalls
             THEN Moved(breaker, "CLOSED", NoTime)
             ELSE <<"HALF_OPEN", breaker.openedAt, breaker.halfOpenCalls,
                    breaker.halfOpenSuccesses + 1, breaker.generation>>
  BY <1>2, CoreTypes, SettleFacts DEF Report
<1>4. gen[c] = breaker.generation <=> c \in CurrentCalls
  BY DEF CurrentCalls, InFlight, Report
<1>5. breaker'.generation = breaker.generation => CurrentCalls' = CurrentCalls \ {c}
  BY <1>1 DEF CurrentCalls, InFlight, Report, callVars
<1>6. Decides(breaker') = Decides(breaker) => breaker'.generation = breaker.generation
  BY DEF Decides
<1>7. /\ breaker.state \in States /\ breaker.halfOpenSuccesses + 1 \in Int
      /\ config.halfOpenMaxCalls \in Int
  BY CoreTypes DEF Breaker, ValidConfig, Config
<1>8. CASE breaker.state = "HALF_OPEN" /\ c \in CurrentCalls
  <2>1. Decides(breaker') = <<"HALF_OPEN", breaker.openedAt, breaker.halfOpenCalls,
                              breaker.halfOpenSuccesses + 1, breaker.generation>>
          => breaker'.generation = breaker.generation
    BY DEF Decides
  <2>2. QED
    BY <1>3, <1>4, <1>5, <1>7, <1>8, <2>1
<1>9. CASE ~(breaker.state = "HALF_OPEN" /\ c \in CurrentCalls)
  BY <1>3, <1>4, <1>5, <1>6, <1>7, <1>9 DEF States
<1>10. QED
  BY <1>8, <1>9

\* The other steps: they leave the cohort alone, ...
LeavesCohort ==
  /\ Decides(breaker') = Decides(breaker)
  /\ CurrentCalls' = CurrentCalls
  /\ resets' = resets
  /\ \/ config' = config /\ now' \in {now, now + 1}
     \/ config' \in ValidConfig /\ now' = now

\* ... or notice that OPEN has timed out, ...
StartsProbing ==
  /\ TimedOut(breaker, config, now)
  /\ Decides(breaker') = Moved(breaker, "HALF_OPEN", breaker.openedAt)
  /\ CurrentCalls' = {}
  /\ config' = config /\ now' = now /\ resets' = resets

\* ... or reset the breaker.
ClosesByHand ==
  /\ ResetBreaker
  /\ Decides(breaker') = Moved(breaker, "CLOSED", NoTime)

LEMMA OtherEffect ==
  ASSUME CoreInv, DirectCalls = {}, [Next]_vars,
         ~ \E c \in Calls : Admit(c) \/ Report(c)
  PROVE  LeavesCohort \/ StartsProbing \/ ClosesByHand
<1>1. ASSUME NEW c \in Calls, Enter(c) \/ \E e \in Endings : TaskSettles(c, e)
      PROVE  LeavesCohort
  <2>1. /\ InFlight(c)' <=> InFlight(c)
        /\ \A d \in All \ {c} : pc'[d] = pc[d]
        /\ breaker' = breaker /\ gen' = gen
        /\ config' = config /\ now' = now /\ resets' = resets
    <3>1. CASE Enter(c)
      BY <3>1, CoreTypes, AcquireKeepsMutex DEF Enter, Granted, InFlight, callVars
    <3>2. CASE \E e \in Endings : TaskSettles(c, e)
      BY <3>2, CoreTypes, AcquireKeepsMutex DEF TaskSettles, Granted, InFlight
    <3>3. QED
      BY <1>1, <3>1, <3>2
  <2>2. \A d \in Calls : InFlight(d)' <=> InFlight(d)
    BY <2>1, CoreTypes DEF InFlight
  <2>3. QED
    BY <2>1, <2>2 DEF CurrentCalls, LeavesCohort
<1>2. ASSUME breaker.generation + 1 = breaker'.generation, gen' = gen
      PROVE  CurrentCalls' = {}
  BY <1>2, CoreTypes DEF CurrentCalls
<1>3. ASSUME NEW c \in Calls, Reject(c)
      PROVE  LeavesCohort \/ StartsProbing
  <2> DEFINE b == SyncState(breaker, config, now)
  <2>1. \A d \in Calls : InFlight(d)' <=> InFlight(d)
    BY <1>3, CriticalSection DEF Reject, Holding, InFlight
  <2>2. /\ b \in Breaker
        /\ TimedOut(breaker, config, now) =>
             Decides(b) = Moved(breaker, "HALF_OPEN", breaker.openedAt)
        /\ ~TimedOut(breaker, config, now) => b = breaker
    BY CoreTypes, SyncStateFacts
  <2>3. /\ breaker' = CountRejection(b) /\ gen' = gen
        /\ config' = config /\ now' = now /\ resets' = resets
    BY <1>3 DEF Reject, callVars
  <2> HIDE DEF b
  <2>4. Decides(breaker') = Decides(b)
    BY <2>2, <2>3, CountFacts
  <2>5. CASE TimedOut(breaker, config, now)
    <3>1. breaker.generation + 1 = breaker'.generation
      BY <2>2, <2>4, <2>5 DEF Decides, Moved
    <3>2. QED
      BY <1>2, <2>2, <2>3, <2>4, <2>5, <3>1 DEF StartsProbing
  <2>6. CASE ~TimedOut(breaker, config, now)
    <3>1. breaker'.generation = breaker.generation
      BY <2>2, <2>4, <2>6 DEF Decides
    <3>2. QED
      BY <2>1, <2>2, <2>3, <2>4, <2>6, <3>1 DEF LeavesCohort, CurrentCalls
  <2>7. QED
    BY <2>5, <2>6
<1>4. CASE Observe
  <2>1. /\ TimedOut(breaker, config, now) =>
             Decides(breaker') = Moved(breaker, "HALF_OPEN", breaker.openedAt)
        /\ ~TimedOut(breaker, config, now) => breaker' = breaker
        /\ gen' = gen /\ pc' = pc
        /\ config' = config /\ now' = now /\ resets' = resets
    BY <1>4, CoreTypes, SyncStateFacts DEF Observe, callVars
  <2>2. CASE TimedOut(breaker, config, now)
    <3>1. breaker.generation + 1 = breaker'.generation
      BY <2>1, <2>2 DEF Decides, Moved
    <3>2. QED
      BY <1>2, <2>1, <2>2, <3>1 DEF StartsProbing
  <2>3. CASE ~TimedOut(breaker, config, now)
    BY <2>1, <2>3 DEF LeavesCohort, CurrentCalls, InFlight
  <2>4. QED
    BY <2>2, <2>3
<1>5. ASSUME NEW k \in Configs, UpdateConfig(k)
      PROVE  LeavesCohort
  BY <1>5, ConfigAssumption
     DEF UpdateConfig, LeavesCohort, CurrentCalls, InFlight, callVars, ValidConfig
<1>6. CASE ResetBreaker
  BY <1>6, CoreTypes, ResetFacts DEF ResetBreaker, ClosesByHand
<1>7. CASE Tick \/ UNCHANGED vars
  BY <1>7 DEF Tick, vars, LeavesCohort, CurrentCalls, InFlight, callVars
<1>8. QED
  BY <1>1, <1>3, <1>4, <1>5, <1>6, <1>7 DEF Next, ExecuteStep

CohortInv == CoreInv /\ ProbeAccounting

LEMMA InitCohort == Init => CohortInv
BY InitCore DEF Init, CohortInv, ProbeAccounting, NewBreaker

LEMMA StepCohort ==
  ASSUME DirectCalls = {}, IsFiniteSet(Calls), CohortInv, [Next]_vars
  PROVE  CohortInv'
<1>1. CoreInv /\ CoreInv'
  BY StepCore DEF CohortInv
<1>2. IsFiniteSet(CurrentCalls) /\ Cardinality(CurrentCalls) \in Nat
  BY FS_Subset, FS_CardinalityType DEF CurrentCalls
<1>3. /\ breaker.state \in States /\ breaker.halfOpenCalls \in Nat
      /\ breaker.halfOpenSuccesses \in Nat
  BY <1>1, CoreTypes DEF Breaker
<1>4. ASSUME NEW c \in Calls, Admit(c)
      PROVE  ProbeAccounting'
  <2>1. CASE breaker.state = "CLOSED"
    BY <1>1, <1>4, <2>1, AdmitEffect DEF CohortInv, ProbeAccounting, Decides
  <2>2. CASE breaker.state = "HALF_OPEN"
    <3>1. Cardinality(CurrentCalls \cup {c}) = Cardinality(CurrentCalls) + 1
      BY <1>1, <1>2, <1>4, AdmitEffect, FS_AddElement
    <3>2. /\ breaker'.state = "HALF_OPEN"
          /\ breaker'.halfOpenCalls = breaker.halfOpenCalls + 1
          /\ breaker'.halfOpenSuccesses = breaker.halfOpenSuccesses
          /\ CurrentCalls' = CurrentCalls \cup {c}
      BY <1>1, <1>4, <2>2, AdmitEffect DEF Decides
    <3>3. QED
      BY <1>2, <1>3, <2>2, <3>1, <3>2 DEF CohortInv, ProbeAccounting
  <2>3. CASE breaker.state = "OPEN"
    <3>1. Cardinality({c}) = 1
      BY FS_Singleton
    <3>2. QED
      BY <1>1, <1>4, <2>3, <3>1, AdmitEffect DEF ProbeAccounting, Decides
  <2>4. QED
    BY <1>3, <2>1, <2>2, <2>3 DEF States
<1>5. ASSUME NEW c \in Calls, Report(c)
      PROVE  ProbeAccounting'
  <2>1. c \in CurrentCalls =>
          Cardinality(CurrentCalls \ {c}) = Cardinality(CurrentCalls) - 1
    BY <1>2, FS_RemoveElement
  <2>2. c \notin CurrentCalls => CurrentCalls \ {c} = CurrentCalls
    OBVIOUS
  <2>3. CASE Decides(breaker') = Decides(breaker) /\ CurrentCalls' = CurrentCalls \ {c}
             /\ (breaker.state # "HALF_OPEN" \/ c \notin CurrentCalls)
    BY <2>2, <2>3 DEF CohortInv, ProbeAccounting, Decides
  <2>4. CASE \E next \in {"OPEN", "CLOSED"} : \E at : Decides(breaker') = Moved(breaker, next, at)
    BY <2>4 DEF ProbeAccounting, Decides, Moved
  <2>5. CASE /\ breaker.state = "HALF_OPEN" /\ c \in CurrentCalls
             /\ Decides(breaker') =
                  <<"HALF_OPEN", breaker.openedAt, breaker.halfOpenCalls,
                    breaker.halfOpenSuccesses + 1, breaker.generation>>
             /\ CurrentCalls' = CurrentCalls \ {c}
    BY <1>2, <1>3, <2>1, <2>5 DEF CohortInv, ProbeAccounting, Decides
  <2>6. QED
    BY <1>1, <1>5, <2>3, <2>4, <2>5, ReportEffect
<1>6. CASE LeavesCohort
  BY <1>1, <1>6 DEF CohortInv, ProbeAccounting, LeavesCohort, Decides
<1>7. CASE StartsProbing
  BY <1>1, <1>7, FS_EmptySet DEF CohortInv, StartsProbing, ProbeAccounting, Decides, Moved
<1>8. CASE ClosesByHand
  BY <1>1, <1>8 DEF CohortInv, ClosesByHand, ProbeAccounting, Decides, Moved
<1>9. QED
  BY <1>1, <1>4, <1>5, <1>6, <1>7, <1>8, OtherEffect DEF CohortInv

\* When every client goes through execute(), probe slots are never leaked and
\* never granted twice.
THEOREM ProbesAccounted ==
  ASSUME DirectCalls = {}, IsFiniteSet(Calls)
  PROVE  Spec => []ProbeAccounting
<1>1. Init => CohortInv
  BY InitCohort
<1>2. CohortInv /\ [Next]_vars => CohortInv'
  BY StepCohort
<1>3. CohortInv => ProbeAccounting
  BY DEF CohortInv
<1>4. QED
  BY <1>1, <1>2, <1>3, PTL DEF Spec

-----------------------------------------------------------------------------
(* A HALF_OPEN breaker can always be decided *)

\* The cohort has not passed yet, and its size is the one it started with.
UndecidedInv ==
  /\ CohortInv
  /\ config.halfOpenMaxCalls = InitConfig.halfOpenMaxCalls
  /\ breaker.state = "HALF_OPEN" => breaker.halfOpenSuccesses < config.halfOpenMaxCalls

LEMMA StepUndecided ==
  ASSUME DirectCalls = {}, IsFiniteSet(Calls),
         \A k \in Configs : k.halfOpenMaxCalls = InitConfig.halfOpenMaxCalls,
         UndecidedInv, [Next]_vars
  PROVE  UndecidedInv'
<1>1. CoreInv /\ CohortInv'
  BY StepCohort DEF UndecidedInv, CohortInv
<1>2. config'.halfOpenMaxCalls = config.halfOpenMaxCalls
  BY DEF UndecidedInv, Next, vars, ExecuteStep, DirectStep, Enter, Reject, Admit,
         TaskSettles, Report, Observe, UpdateConfig, ResetBreaker, Tick
<1>3. config.halfOpenMaxCalls \in Nat /\ config.halfOpenMaxCalls >= 1
  BY <1>1, CoreTypes DEF ValidConfig, ValidateConfig, Config
<1>4. breaker.state \in States
  BY <1>1, CoreTypes DEF Breaker
<1>5. ASSUME NEW c \in Calls, Admit(c)
      PROVE  breaker'.state = "HALF_OPEN"
               => breaker'.halfOpenSuccesses < config.halfOpenMaxCalls
  BY <1>1, <1>3, <1>4, <1>5, AdmitEffect DEF UndecidedInv, Decides, States
<1>6. ASSUME NEW c \in Calls, Report(c)
      PROVE  breaker'.state = "HALF_OPEN"
               => breaker'.halfOpenSuccesses < config.halfOpenMaxCalls
  BY <1>1, <1>3, <1>6, ReportEffect DEF UndecidedInv, Decides, Moved
<1>7. CASE LeavesCohort \/ StartsProbing \/ ClosesByHand
  <2>1. breaker'.state = "HALF_OPEN" => breaker'.halfOpenSuccesses < config.halfOpenMaxCalls
    BY <1>3, <1>7 DEF UndecidedInv, LeavesCohort, StartsProbing, ClosesByHand, Decides, Moved
  <2>2. QED
    BY <1>1, <1>2, <2>1 DEF UndecidedInv
<1>8. QED
  BY <1>1, <1>2, <1>5, <1>6, <1>7, OtherEffect DEF UndecidedInv

\* As long as halfOpenMaxCalls is not reconfigured, a HALF_OPEN breaker whose
\* probes have all reported lets another call in: it cannot reject for ever.
THEOREM NeverWedged ==
  ASSUME DirectCalls = {}, IsFiniteSet(Calls),
         \A k \in Configs : k.halfOpenMaxCalls = InitConfig.halfOpenMaxCalls
  PROVE  Spec => []HalfOpenNotWedged
<1>1. Init => UndecidedInv
  BY InitCohort DEF Init, UndecidedInv, NewBreaker
<1>2. UndecidedInv /\ [Next]_vars => UndecidedInv'
  BY StepUndecided
<1>3. UndecidedInv => HalfOpenNotWedged
  <2>1. SUFFICES ASSUME UndecidedInv, breaker.state = "HALF_OPEN", CurrentCalls = {}
                 PROVE  breaker.halfOpenCalls < config.halfOpenMaxCalls
    BY DEF HalfOpenNotWedged, Permitted
  <2>2. breaker.halfOpenSuccesses \in Nat
    BY <2>1, CoreTypes DEF UndecidedInv, CohortInv, Breaker
  <2>3. breaker.halfOpenCalls = breaker.halfOpenSuccesses
    BY <2>1, <2>2, FS_EmptySet DEF UndecidedInv, CohortInv, ProbeAccounting
  <2>4. QED
    BY <2>1, <2>3 DEF UndecidedInv
<1>4. QED
  BY <1>1, <1>2, <1>3, PTL DEF Spec

-----------------------------------------------------------------------------
(* The breaker implements its contract *)

LEMMA InitRefines == Init => Contract!Init
<1> SUFFICES ASSUME Init PROVE Contract!Init
  OBVIOUS
<1>1. /\ breaker.state = "CLOSED" /\ breaker.openedAt = -1
      /\ breaker.halfOpenSuccesses = 0
  BY DEF Init, NewBreaker, NoTime
<1>2. [cohort |-> config.halfOpenMaxCalls, timeout |-> config.openTimeoutMs]
        \in [cohort: Nat \ {0}, timeout: Nat \ {0}]
  BY ConfigAssumption DEF Init, ValidateConfig, Config
<1>3. QED
  BY <1>1, <1>2 DEF Init, Contract!Init

LEMMA AdmitRefines ==
  ASSUME CohortInv, NEW c \in Calls, Admit(c)
  PROVE  Contract!Next \/ UNCHANGED Contract!vars
<1>1. CoreInv /\ breaker.state \in States
  BY CoreTypes DEF CohortInv, Breaker
<1>2. config' = config /\ now' = now /\ resets' = resets
  BY DEF Admit
<1>3. CASE breaker.state = "CLOSED"
  <2>1. Decides(breaker') = Decides(breaker)
    BY <1>1, <1>3, AdmitEffect
  <2>2. QED
    BY <1>2, <1>3, <2>1 DEF Contract!vars, Contract!breakerVars, Decides
<1>4. CASE breaker.state = "HALF_OPEN"
  <2>1. /\ breaker.halfOpenSuccesses + Cardinality(CurrentCalls) < config.halfOpenMaxCalls
        /\ breaker'.state = "HALF_OPEN" /\ breaker'.openedAt = breaker.openedAt
        /\ breaker'.halfOpenSuccesses = breaker.halfOpenSuccesses
        /\ CurrentCalls' = CurrentCalls \cup {c} /\ c \notin CurrentCalls
    BY <1>1, <1>4, AdmitEffect DEF CohortInv, ProbeAccounting, Decides
  <2>2. Contract!Cardinality(CurrentCalls) = Cardinality(CurrentCalls)
    BY DEF Cardinality, Contract!Cardinality, IsFiniteSet, Contract!IsFiniteSet
  <2>3. Contract!StartProbe(c)
    BY <1>4, <2>1, <2>2 DEF Contract!StartProbe
  <2>4. QED
    BY <1>2, <2>3 DEF Contract!Next, Contract!BreakerStep
<1>5. CASE breaker.state = "OPEN"
  <2>1. /\ TimedOut(breaker, config, now)
        /\ breaker'.state = "HALF_OPEN" /\ breaker'.openedAt = breaker.openedAt
        /\ breaker'.halfOpenSuccesses = 0 /\ breaker.halfOpenSuccesses = 0
        /\ CurrentCalls' = {c}
    BY <1>1, <1>5, AdmitEffect DEF CohortInv, ProbeAccounting, Decides
  <2>2. Contract!StartProbe(c)
    BY <1>5, <2>1 DEF Contract!StartProbe, Contract!Due, TimedOut
  <2>3. QED
    BY <1>2, <2>2 DEF Contract!Next, Contract!BreakerStep
<1>6. QED
  BY <1>1, <1>3, <1>4, <1>5 DEF States

LEMMA ReportRefines ==
  ASSUME CohortInv, NEW c \in Calls, Report(c)
  PROVE  Contract!Next \/ UNCHANGED Contract!vars
<1>1. CoreInv
  BY DEF CohortInv
<1>2. config' = config /\ now' = now /\ resets' = resets
  BY DEF Report
<1>3. CASE /\ Decides(breaker') = Decides(breaker)
           /\ CurrentCalls' = CurrentCalls \ {c}
           /\ breaker.state # "HALF_OPEN" \/ c \notin CurrentCalls
  <2>1. breaker.state # "HALF_OPEN" \/ CurrentCalls' = CurrentCalls
    BY <1>3
  <2>2. QED
    BY <1>2, <1>3, <2>1 DEF Contract!vars, Contract!breakerVars, Decides
<1>4. CASE breaker.state = "CLOSED" /\ Decides(breaker') = Moved(breaker, "OPEN", now)
  <2>1. Contract!Trip
    BY <1>4 DEF Contract!Trip, Contract!Open, Decides, Moved
  <2>2. QED
    BY <1>2, <2>1 DEF Contract!Next, Contract!BreakerStep
<1>5. CASE /\ breaker.state = "HALF_OPEN" /\ c \in CurrentCalls
           /\ Decides(breaker') = Moved(breaker, "OPEN", now)
  <2>1. Contract!FailProbe(c)
    BY <1>5 DEF Contract!FailProbe, Contract!Open, Decides, Moved
  <2>2. QED
    BY <1>2, <2>1 DEF Contract!Next, Contract!BreakerStep
<1>6. CASE /\ breaker.state = "HALF_OPEN" /\ c \in CurrentCalls
           /\ breaker.halfOpenSuccesses + 1 >= config.halfOpenMaxCalls
           /\ Decides(breaker') = Moved(breaker, "CLOSED", NoTime)
  <2>1. Contract!PassProbe(c)
    BY <1>6 DEF Contract!PassProbe, Contract!Close, Decides, Moved, NoTime
  <2>2. QED
    BY <1>2, <2>1 DEF Contract!Next, Contract!BreakerStep
<1>7. CASE /\ breaker.state = "HALF_OPEN" /\ c \in CurrentCalls
           /\ breaker.halfOpenSuccesses + 1 < config.halfOpenMaxCalls
           /\ Decides(breaker') =
                <<"HALF_OPEN", breaker.openedAt, breaker.halfOpenCalls,
                  breaker.halfOpenSuccesses + 1, breaker.generation>>
           /\ CurrentCalls' = CurrentCalls \ {c}
  <2>1. breaker.halfOpenSuccesses + 1 \in Int /\ config.halfOpenMaxCalls \in Int
    BY <1>1, CoreTypes DEF Breaker, ValidConfig, Config
  <2>2. Contract!PassProbe(c)
    BY <1>7, <2>1 DEF Contract!PassProbe, Decides
  <2>3. QED
    BY <1>2, <2>2 DEF Contract!Next, Contract!BreakerStep
<1>8. QED
  BY <1>1, <1>3, <1>4, <1>5, <1>6, <1>7, ReportEffect

LEMMA OtherRefines ==
  ASSUME CohortInv, LeavesCohort \/ StartsProbing \/ ClosesByHand
  PROVE  Contract!Next \/ UNCHANGED Contract!vars
<1>1. CoreInv /\ now \in Nat /\ breaker.halfOpenSuccesses \in Nat
  BY CoreTypes DEF CohortInv, Breaker
<1>2. CASE LeavesCohort
  <2>1. UNCHANGED Contract!breakerVars /\ resets' = resets
    BY <1>2 DEF LeavesCohort, Contract!breakerVars, Decides
  <2>2. CASE config' = config /\ now' = now
    BY <2>1, <2>2 DEF Contract!vars
  <2>3. CASE config' = config /\ now' = now + 1
    BY <1>1, <2>1, <2>3 DEF Contract!Next, Contract!EnvironmentStep
  <2>4. CASE config' \in ValidConfig /\ now' = now
    <3>1. [cohort |-> config'.halfOpenMaxCalls, timeout |-> config'.openTimeoutMs]
            \in [cohort: Nat \ {0}, timeout: Nat \ {0}]
      BY <2>4 DEF ValidConfig, ValidateConfig, Config
    <3>2. QED
      BY <2>1, <2>4, <3>1 DEF Contract!Next, Contract!EnvironmentStep
  <2>5. QED
    BY <1>2, <2>2, <2>3, <2>4 DEF LeavesCohort
<1>3. CASE StartsProbing
  <2>1. breaker.halfOpenSuccesses = 0 /\ breaker.state = "OPEN"
    BY <1>3 DEF StartsProbing, TimedOut, CohortInv, ProbeAccounting
  <2>2. Contract!StartProbing
    BY <1>3, <2>1
       DEF StartsProbing, Contract!StartProbing, Contract!Due, TimedOut, Decides, Moved
  <2>3. QED
    BY <1>3, <2>2 DEF StartsProbing, Contract!Next, Contract!BreakerStep
<1>4. CASE ClosesByHand
  <2>1. Contract!Reset
    BY <1>4 DEF ClosesByHand, ResetBreaker, Contract!Reset, Contract!Close,
                Decides, Moved, NoTime
  <2>2. QED
    BY <2>1 DEF Contract!Next
<1>5. QED
  BY <1>2, <1>3, <1>4

\* For any number of concurrent calls and any configurations, the breaker with
\* its mutex, window, counters and generations implements BreakerContract.
THEOREM Refinement ==
  ASSUME DirectCalls = {}, IsFiniteSet(Calls)
  PROVE  Spec => ImplementsContract
<1>1. Init => CohortInv /\ Contract!Init
  BY InitCohort, InitRefines
<1>2. CohortInv /\ [Next]_vars => CohortInv' /\ [Contract!Next]_(Contract!vars)
  <2> SUFFICES ASSUME CohortInv, [Next]_vars
               PROVE  CohortInv' /\ [Contract!Next]_(Contract!vars)
    OBVIOUS
  <2>1. CohortInv'
    BY StepCohort
  <2>2. Contract!Next \/ UNCHANGED Contract!vars
    BY AdmitRefines, ReportRefines, OtherRefines, OtherEffect DEF CohortInv
  <2>3. QED
    BY <2>1, <2>2
<1>3. QED
  BY <1>1, <1>2, PTL DEF Spec, ImplementsContract, Contract!Spec

-----------------------------------------------------------------------------
(* A CLOSED breaker never sits on a window that trips *)

Healthy(b, c) == b.state = "CLOSED" => ~Tripped(b.window, c)

LEMMA CountKeepsHealth ==
  ASSUME NEW b \in Breaker, NEW s \in BOOLEAN, NEW c,
         NEW r \in {CountAdmission(b), CountRejection(b), CountFailure(b),
                    CountSuccess(b, s)}
  PROVE  Healthy(r, c) <=> Healthy(b, c)
<1>1. PICK n : r = [b EXCEPT !.counters = n]
  BY DEF CountAdmission, CountRejection, CountFailure, CountSuccess
<1>2. r.state = b.state /\ r.window = b.window
  BY <1>1 DEF Breaker
<1>3. QED
  BY <1>2 DEF Healthy

\* Every transition either leaves CLOSED or starts it with an empty window.
LEMMA TransitionIsHealthy ==
  ASSUME NEW b, NEW next \in States, NEW t, NEW c \in ValidConfig
  PROVE  Healthy(TransitionTo(b, next, t), c)
<1>1. c.minimumCalls \in Nat /\ c.minimumCalls >= 1
  BY DEF ValidConfig, ValidateConfig, Config
<1>2. Len(<<>>) = 0
  OBVIOUS
<1>3. ~Tripped(<<>>, c)
  BY <1>1, <1>2 DEF Tripped
<1>4. /\ TransitionTo(b, next, t).state = next
      /\ next = "CLOSED" => TransitionTo(b, next, t).window = <<>>
  BY DEF TransitionTo
<1>5. QED
  BY <1>3, <1>4 DEF Healthy

\* record() evaluates the window it leaves, so it needs no healthy one to begin with.
LEMMA RecordIsHealthy ==
  ASSUME NEW b \in Breaker, NEW o \in Outcomes, NEW c \in ValidConfig, NEW t \in Nat
  PROVE  Healthy(Record(b, o, c, t), c)
<1> DEFINE r == [b EXCEPT !.window = Slide(b.window, o, c)]
<1>1. Healthy(TransitionTo(r, "OPEN", t), c)
  BY TransitionIsHealthy DEF States
<1>2. CASE r.state = "CLOSED" /\ Tripped(r.window, c)
  BY <1>1, <1>2 DEF Record
<1>3. CASE ~(r.state = "CLOSED" /\ Tripped(r.window, c))
  <2>1. Record(b, o, c, t) = r
    BY <1>3 DEF Record
  <2> HIDE DEF r
  <2>2. QED
    BY <1>3, <2>1 DEF Healthy
<1>4. QED
  BY <1>2, <1>3

LEMMA PassProbeKeepsHealth ==
  ASSUME NEW b \in Breaker, NEW c \in ValidConfig, NEW t \in Nat, Healthy(b, c)
  PROVE  Healthy(PassProbe(b, c, t), c)
<1> DEFINE p == [b EXCEPT !.halfOpenSuccesses = @ + 1]
<1>1. p.state = b.state
  BY DEF Breaker
<1>2. Healthy(TransitionTo(p, "CLOSED", t), c)
  BY TransitionIsHealthy DEF States
<1>3. b.state = "HALF_OPEN" => Healthy(p, c)
  BY <1>1 DEF Healthy
<1>4. QED
  BY <1>2, <1>3 DEF PassProbe

LEMMA SettleKeepsHealth ==
  ASSUME NEW b \in Breaker, NEW e \in Endings, NEW d \in Int, NEW g,
         NEW c \in ValidConfig, NEW t \in Nat, Healthy(b, c)
  PROVE  Healthy(Settle(b, e, d, g, c, t), c)
<1>1. ASSUME NEW s \in BOOLEAN, NEW o \in Outcomes
      PROVE  /\ Healthy(CountSuccess(b, s), c)
             /\ Healthy(PassProbe(Record(CountSuccess(b, s), o, c, t), c, t), c)
  <2> DEFINE n == CountSuccess(b, s)
             m == Record(n, o, c, t)
  <2>1. n \in Breaker /\ Healthy(n, c)
    BY CountFacts, CountKeepsHealth
  <2> HIDE DEF n
  <2>2. m \in Breaker /\ Healthy(m, c)
    BY <2>1, RecordFacts, RecordIsHealthy
  <2> HIDE DEF m
  <2>3. QED
    BY <2>1, <2>2, PassProbeKeepsHealth DEF m, n
<1>2. CASE e = "ok"
  <2>1. (d >= c.slowCallDurationMs) \in BOOLEAN /\ {"slow", "success"} \subseteq Outcomes
    BY DEF Outcomes
  <2>2. QED
    BY <1>1, <1>2, <2>1 DEF Settle, OnSuccess
<1>3. CASE e = "business"
  BY <1>1, <1>3 DEF Settle, OnBusinessError, Outcomes
<1>4. CASE e = "infra"
  <2> DEFINE n == CountFailure(b)
             m == Record(n, "failure", c, t)
  <2>1. n \in Breaker /\ Healthy(n, c)
    BY CountFacts, CountKeepsHealth
  <2>2. Settle(b, e, d, g, c, t) = IF g # b.generation THEN n
            ELSE IF m.state = "HALF_OPEN" THEN TransitionTo(m, "OPEN", t) ELSE m
    BY <1>4 DEF Settle, OnInfrastructureError
  <2> HIDE DEF n
  <2>3. Healthy(m, c)
    BY <2>1, RecordIsHealthy DEF Outcomes
  <2>4. Healthy(TransitionTo(m, "OPEN", t), c)
    BY TransitionIsHealthy DEF States
  <2> HIDE DEF m
  <2>5. QED
    BY <2>1, <2>2, <2>3, <2>4
<1>5. QED
  BY <1>2, <1>3, <1>4 DEF Endings

LEMMA SyncStateKeepsHealth ==
  ASSUME NEW b, NEW c \in ValidConfig, NEW t, Healthy(b, c)
  PROVE  Healthy(SyncState(b, c, t), c)
BY TransitionIsHealthy DEF SyncState, States

LEMMA AdmittedKeepsHealth ==
  ASSUME NEW b \in Breaker, NEW c, Healthy(b, c)
  PROVE  Healthy(Admitted(b), c)
<1> DEFINE p == [b EXCEPT !.halfOpenCalls = @ + 1]
<1>1. p \in Breaker /\ Healthy(p, c)
  BY DEF Breaker, Healthy
<1> HIDE DEF p
<1>2. QED
  BY <1>1, CountKeepsHealth DEF Admitted, p

LEMMA ResetIsHealthy ==
  ASSUME NEW b \in Breaker, NEW t \in Nat, NEW c \in ValidConfig
  PROVE  Healthy(Reset(b, t), c)
<1> DEFINE m == TransitionTo(b, "CLOSED", t)
<1>1. m \in Breaker /\ Healthy(m, c)
  BY TransitionToFacts, TransitionIsHealthy DEF States
<1> HIDE DEF m
<1>2. [m EXCEPT !.counters = NoCalls].state = m.state
        /\ [m EXCEPT !.counters = NoCalls].window = m.window
  BY <1>1 DEF Breaker
<1>3. QED
  BY <1>1, <1>2 DEF Healthy, Reset, m

\* The thresholds the breaker was built with.
SameThresholds(k) ==
  /\ k.minimumCalls = InitConfig.minimumCalls
  /\ k.failureThreshold = InitConfig.failureThreshold
  /\ k.slowCallThreshold = InitConfig.slowCallThreshold

HealthInv == CoreInv /\ SameThresholds(config) /\ ClosedIsHealthy

LEMMA StepHealth ==
  ASSUME \A k \in Configs : SameThresholds(k), HealthInv, [Next]_vars
  PROVE  HealthInv'
<1>1. CoreInv /\ CoreInv'
  BY StepCore DEF HealthInv
<1>2. Healthy(breaker, config) /\ SameThresholds(config)
  BY DEF HealthInv, ClosedIsHealthy, Healthy
<1>3. ASSUME NEW c \in Calls, ExecuteStep(c)
      PROVE  config' = config /\ Healthy(breaker', config)
  <2> DEFINE b == SyncState(breaker, config, now)
  <2>1. b \in Breaker /\ Healthy(b, config)
    BY <1>1, <1>2, CoreTypes, SyncStateFacts, SyncStateKeepsHealth
  <2> HIDE DEF b
  <2>2. CASE Reject(c)
    BY <2>1, <2>2, CountKeepsHealth DEF Reject, b
  <2>3. CASE Admit(c)
    BY <2>1, <2>3, AdmittedKeepsHealth DEF Admit, b
  <2>4. CASE Report(c)
    <3>1. ending[c] \in Endings /\ now - start[c] \in Int
      BY <1>1, <2>4, CoreTypes DEF CoreInv, EndingKnown, Report
    <3>2. QED
      BY <1>1, <1>2, <2>4, <3>1, CoreTypes, SettleKeepsHealth DEF Report
  <2>5. CASE Enter(c) \/ \E e \in Endings : TaskSettles(c, e)
    BY <1>2, <2>5 DEF Enter, TaskSettles
  <2>6. QED
    BY <1>3, <2>2, <2>3, <2>4, <2>5 DEF ExecuteStep
<1>4. ASSUME NEW d \in DirectCalls, DirectStep(d)
      PROVE  config' = config /\ Healthy(breaker', config)
  <2>1. CASE DirectAttempt(d)
    BY <1>1, <1>2, <2>1, CoreTypes, SyncStateKeepsHealth DEF DirectAttempt
  <2>2. ASSUME NEW e \in Endings, DirectReport(d, e)
        PROVE  config' = config /\ Healthy(breaker', config)
    <3>1. now - start[d] \in Int
      BY <1>1, CoreTypes DEF All
    <3>2. QED
      BY <1>1, <1>2, <2>2, <3>1, CoreTypes, SettleKeepsHealth DEF DirectReport
  <2>3. CASE DirectNoReport(d)
    BY <1>2, <2>3 DEF DirectNoReport
  <2>4. QED
    BY <1>4, <2>1, <2>2, <2>3 DEF DirectStep
<1>5. CASE Observe
  BY <1>1, <1>2, <1>5, CoreTypes, SyncStateKeepsHealth
     DEF Observe, HealthInv, ClosedIsHealthy, Healthy
<1>6. ASSUME NEW k \in Configs, UpdateConfig(k)
      PROVE  HealthInv'
  BY <1>1, <1>2, <1>6 DEF UpdateConfig, HealthInv, ClosedIsHealthy, Healthy, SameThresholds,
                          Tripped
<1>7. CASE ResetBreaker
  BY <1>1, <1>2, <1>7, CoreTypes, ResetIsHealthy
     DEF ResetBreaker, HealthInv, ClosedIsHealthy, Healthy
<1>8. CASE Tick \/ UNCHANGED vars
  BY <1>1, <1>2, <1>8 DEF Tick, vars, HealthInv, ClosedIsHealthy, Healthy
<1>9. QED
  BY <1>1, <1>2, <1>3, <1>4, <1>5, <1>6, <1>7, <1>8
     DEF Next, HealthInv, ClosedIsHealthy, Healthy

\* As long as the thresholds are not reconfigured, a CLOSED breaker never sits on a window
\* that evaluateThresholds() would trip on: in whatever order execute(), the duck-typed
\* clients and the unlocked reads come, no outcome slips past the evaluation.
THEOREM ClosedStaysHealthy ==
  ASSUME \A k \in Configs : SameThresholds(k)
  PROVE  Spec => []ClosedIsHealthy
<1>1. Init => HealthInv
  <2> SUFFICES ASSUME Init PROVE HealthInv
    OBVIOUS
  <2>1. breaker.window = <<>> /\ config = InitConfig /\ Len(<<>>) = 0
    BY DEF Init, NewBreaker
  <2>2. InitConfig.minimumCalls \in Nat /\ InitConfig.minimumCalls >= 1
    BY ConfigAssumption DEF ValidateConfig, Config
  <2>3. QED
    BY <2>1, <2>2, InitCore DEF HealthInv, SameThresholds, ClosedIsHealthy, Tripped
<1>2. HealthInv /\ [Next]_vars => HealthInv'
  BY StepHealth
<1>3. HealthInv => ClosedIsHealthy
  BY DEF HealthInv
<1>4. QED
  BY <1>1, <1>2, <1>3, PTL DEF Spec

-----------------------------------------------------------------------------
(* The verdict on HALF_OPEN is that of a whole cohort *)

\* Not admitted, yet or for good.
Fresh(c) == pc[c] \in {"idle", "enterWait", "entering", "rejected"}

\* The cohort is as large as the slots taken, and whoever is done has passed.
CohortPasses ==
  /\ Cardinality(Cohort) = breaker.halfOpenCalls
  /\ breaker.halfOpenCalls <= config.halfOpenMaxCalls
  /\ \A c \in Cohort : InFlight(c) \/ (pc[c] = "done" /\ ending[c] # "infra")

VerdictInv ==
  /\ UndecidedInv
  /\ \A c \in Calls : Fresh(c) => gen[c] = NoGen
  /\ breaker.state = "HALF_OPEN" => CohortPasses

\* What a step leaves alone of a call.
SameCall(c) ==
  /\ Fresh(c)' <=> Fresh(c)
  /\ InFlight(c)' <=> InFlight(c)
  /\ pc[c] = "done" => pc'[c] = "done" /\ ending'[c] = ending[c]

LEMMA MutexStepCalls ==
  ASSUME CoreInv, NEW c \in Calls, Reject(c) \/ Admit(c) \/ Report(c)
  PROVE  \A d \in Calls \ {c} : SameCall(d)
<1>1. PICK next \in {"rejected", "running", "done"} : Holding(c) /\ Release(c, next)
  BY DEF Reject, Admit, Report, Holding
<1>2. \A d \in All \ {c} : \/ pc'[d] = pc[d]
                           \/ pc[d] = "enterWait" /\ pc'[d] = "entering"
                           \/ pc[d] = "exitWait" /\ pc'[d] = "exiting"
  BY <1>1, CoreTypes, ReleaseKeepsMutex
<1>3. ending' = ending
  BY DEF Reject, Admit, Report, callVars
<1>4. QED
  BY <1>2, <1>3, CoreTypes DEF SameCall, Fresh, InFlight

LEMMA OtherStepCalls ==
  ASSUME CoreInv, DirectCalls = {}, [Next]_vars, ~ \E c \in Calls : Admit(c) \/ Report(c)
  PROVE  gen' = gen /\ \A d \in Calls : SameCall(d)
<1>1. ASSUME NEW c \in Calls, Enter(c)
      PROVE  gen' = gen /\ \A d \in Calls : SameCall(d)
  <2>1. /\ pc[c] = "idle" /\ pc'[c] \in {"enterWait", "entering"}
        /\ \A d \in All \ {c} : pc'[d] = pc[d]
        /\ gen' = gen /\ ending' = ending
    BY <1>1, CoreTypes, AcquireKeepsMutex DEF Enter, Granted, callVars
  <2>2. QED
    BY <2>1, CoreTypes DEF SameCall, Fresh, InFlight
<1>2. ASSUME NEW c \in Calls, NEW e \in Endings, TaskSettles(c, e)
      PROVE  gen' = gen /\ \A d \in Calls : SameCall(d)
  <2>1. /\ pc[c] = "running" /\ pc'[c] \in {"exitWait", "exiting"}
        /\ \A d \in All \ {c} : pc'[d] = pc[d]
        /\ gen' = gen /\ ending' = [ending EXCEPT ![c] = e]
    BY <1>2, CoreTypes, AcquireKeepsMutex DEF TaskSettles, Granted
  <2>2. QED
    BY <2>1, CoreTypes DEF SameCall, Fresh, InFlight
<1>3. ASSUME NEW c \in Calls, Reject(c)
      PROVE  gen' = gen /\ \A d \in Calls : SameCall(d)
  <2>1. pc[c] = "entering" /\ pc'[c] = "rejected" /\ gen' = gen
    BY <1>3, CriticalSection DEF Reject, Holding, callVars
  <2>2. QED
    BY <1>3, <2>1, MutexStepCalls DEF SameCall, Fresh, InFlight
<1>4. CASE Observe \/ (\E k \in Configs : UpdateConfig(k)) \/ ResetBreaker \/ Tick \/ UNCHANGED vars
  BY <1>4 DEF Observe, UpdateConfig, ResetBreaker, Tick, vars, callVars, SameCall, Fresh, InFlight
<1>5. QED
  BY <1>1, <1>2, <1>3, <1>4 DEF Next, ExecuteStep

LEMMA StepVerdict ==
  ASSUME DirectCalls = {}, IsFiniteSet(Calls),
         \A k \in Configs : k.halfOpenMaxCalls = InitConfig.halfOpenMaxCalls,
         VerdictInv, [Next]_vars
  PROVE  VerdictInv'
<1>1. /\ CoreInv /\ CoreInv' /\ UndecidedInv /\ UndecidedInv'
      /\ ProbeAccounting /\ ProbeAccounting'
      /\ config'.halfOpenMaxCalls = config.halfOpenMaxCalls
  BY StepUndecided DEF VerdictInv, UndecidedInv, CohortInv
<1>2. /\ breaker.state \in States /\ breaker.generation \in Nat
      /\ breaker.halfOpenCalls \in Nat
      /\ config.halfOpenMaxCalls \in Nat /\ config.halfOpenMaxCalls >= 1
      /\ \A c \in Calls : gen[c] \in Int /\ gen[c] <= breaker.generation
      /\ gen \in [All -> Nat \cup {NoGen}]
      /\ Calls \subseteq All
  BY <1>1, CoreTypes DEF Breaker, ValidConfig, ValidateConfig, Config
<1>3. IsFiniteSet(Cohort) /\ Cardinality(Cohort) \in Nat
  BY FS_Subset, FS_CardinalityType DEF Cohort
<1>4. ASSUME NEW c \in Calls, Admit(c)
      PROVE  VerdictInv'
  <2>1. /\ pc[c] = "entering" /\ pc'[c] = "running"
        /\ \A d \in Calls \ {c} : SameCall(d)
    BY <1>1, <1>4, CriticalSection, MutexStepCalls DEF Admit, Holding
  <2>2. PICK g : gen' = [gen EXCEPT ![c] = g]
    BY <1>4 DEF Admit
  <2>3. gen[c] = NoGen /\ c \notin Cohort
    BY <1>2, <2>1 DEF VerdictInv, Fresh, Cohort, NoGen
  <2>4. \A d \in Calls : Fresh(d)' => gen'[d] = NoGen
    BY <1>2, <2>1, <2>2 DEF VerdictInv, Fresh, SameCall
  <2>5. /\ InFlight(c)' /\ \A d \in Calls \ {c} : gen'[d] = gen[d]
    BY <1>2, <2>1, <2>2 DEF InFlight
  <2>6. CASE breaker.state = "HALF_OPEN"
    <3>1. /\ breaker.halfOpenCalls < config.halfOpenMaxCalls
          /\ breaker'.halfOpenCalls = breaker.halfOpenCalls + 1
          /\ breaker'.generation = breaker.generation
          /\ c \in CurrentCalls'
      BY <1>1, <1>4, <2>6, AdmitEffect DEF Decides
    <3>2. gen'[c] = breaker.generation
      BY <3>1 DEF CurrentCalls
    <3>3. Cohort' = Cohort \cup {c}
      BY <2>5, <3>1, <3>2 DEF Cohort
    <3>4. Cardinality(Cohort \cup {c}) = Cardinality(Cohort) + 1
      BY <1>3, <2>3, FS_AddElement
    <3>5. \A d \in Cohort : InFlight(d)' \/ (pc'[d] = "done" /\ ending'[d] # "infra")
      BY <2>1, <2>3, <2>6 DEF VerdictInv, CohortPasses, Cohort, SameCall
    <3>6. CohortPasses'
      BY <1>1, <1>2, <1>3, <2>5, <2>6, <3>1, <3>3, <3>4, <3>5 DEF VerdictInv, CohortPasses
    <3>7. QED
      BY <1>1, <2>4, <3>6 DEF VerdictInv
  <2>7. CASE breaker.state = "OPEN"
    <3>1. /\ breaker'.halfOpenCalls = 1
          /\ breaker'.generation = breaker.generation + 1
          /\ c \in CurrentCalls'
      BY <1>1, <1>4, <2>7, AdmitEffect DEF Decides
    <3>2. Cohort' = {c}
      BY <1>2, <2>5, <3>1 DEF Cohort, CurrentCalls
    <3>3. Cardinality({c}) = 1
      BY FS_Singleton
    <3>4. CohortPasses'
      BY <1>1, <1>2, <2>5, <3>1, <3>2, <3>3 DEF CohortPasses
    <3>5. QED
      BY <1>1, <2>4, <3>4 DEF VerdictInv
  <2>8. CASE breaker.state = "CLOSED"
    <3>1. breaker'.state = "CLOSED"
      BY <1>1, <1>4, <2>8, AdmitEffect DEF Decides
    <3>2. QED
      BY <1>1, <2>4, <3>1 DEF VerdictInv
  <2>9. QED
    BY <1>2, <2>6, <2>7, <2>8 DEF States
<1>5. ASSUME NEW c \in Calls, Report(c)
      PROVE  VerdictInv'
  <2>1. /\ pc[c] = "exiting" /\ pc'[c] = "done" /\ gen' = gen /\ ending' = ending
        /\ \A d \in Calls \ {c} : SameCall(d)
    BY <1>1, <1>5, CriticalSection, MutexStepCalls DEF Report, Holding, callVars
  <2>2. \A d \in Calls : Fresh(d)' => gen'[d] = NoGen
    BY <2>1 DEF VerdictInv, Fresh, SameCall
  <2>3. ASSUME breaker.state = "HALF_OPEN", breaker'.generation = breaker.generation,
               breaker'.halfOpenCalls = breaker.halfOpenCalls,
               c \in CurrentCalls => ending[c] # "infra"
        PROVE  CohortPasses'
    <3>1. Cohort' = Cohort
      BY <2>1, <2>3 DEF Cohort
    <3>2. c \in Cohort => c \in CurrentCalls
      BY <2>1 DEF Cohort, CurrentCalls, InFlight
    <3>3. \A d \in Cohort : InFlight(d)' \/ (pc'[d] = "done" /\ ending'[d] # "infra")
      BY <2>1, <2>3, <3>2 DEF VerdictInv, CohortPasses, Cohort, SameCall
    <3>4. QED
      BY <1>1, <2>3, <3>1, <3>3 DEF VerdictInv, CohortPasses
  <2>4. breaker'.state = "HALF_OPEN" => CohortPasses'
    BY <1>1, <1>5, <2>3, ReportEffect DEF Decides, Moved
  <2>5. QED
    BY <1>1, <2>2, <2>4 DEF VerdictInv
<1>6. ASSUME ~ \E c \in Calls : Admit(c) \/ Report(c)
      PROVE  VerdictInv'
  <2>1. gen' = gen /\ \A d \in Calls : SameCall(d)
    BY <1>1, <1>6, OtherStepCalls
  <2>2. \A d \in Calls : Fresh(d)' => gen'[d] = NoGen
    BY <2>1 DEF VerdictInv, SameCall
  <2>3. CASE LeavesCohort
    <3>1. /\ breaker'.state = breaker.state /\ breaker'.generation = breaker.generation
          /\ breaker'.halfOpenCalls = breaker.halfOpenCalls
      BY <2>3 DEF LeavesCohort, Decides
    <3>2. Cohort' = Cohort
      BY <2>1, <3>1 DEF Cohort
    <3>3. breaker.state = "HALF_OPEN" => CohortPasses'
      BY <1>1, <2>1, <3>1, <3>2 DEF VerdictInv, CohortPasses, Cohort, SameCall
    <3>4. QED
      BY <1>1, <2>2, <3>1, <3>3 DEF VerdictInv
  <2>4. CASE StartsProbing
    <3>1. breaker'.generation = breaker.generation + 1 /\ breaker'.halfOpenCalls = 0
      BY <2>4 DEF StartsProbing, Decides, Moved
    <3>2. Cohort' = {}
      BY <1>2, <2>1, <3>1 DEF Cohort
    <3>3. CohortPasses'
      BY <1>1, <1>2, <3>1, <3>2, FS_EmptySet DEF CohortPasses
    <3>4. QED
      BY <1>1, <2>2, <3>3 DEF VerdictInv
  <2>5. CASE ClosesByHand
    BY <1>1, <2>2, <2>5 DEF ClosesByHand, VerdictInv, Decides, Moved
  <2>6. QED
    BY <1>1, <1>6, <2>3, <2>4, <2>5, OtherEffect
<1>7. QED
  BY <1>4, <1>5, <1>6

LEMMA VerdictStep ==
  ASSUME DirectCalls = {}, IsFiniteSet(Calls), VerdictInv, [Next]_vars,
         breaker.state = "HALF_OPEN", breaker'.state # "HALF_OPEN", resets' = resets
  PROVE  IF breaker'.state = "CLOSED"
         THEN /\ Cardinality(Cohort) = config.halfOpenMaxCalls
              /\ \A c \in Cohort : pc'[c] = "done" /\ ending[c] # "infra"
         ELSE \E c \in Cohort : pc'[c] = "done" /\ ending[c] = "infra"
<1>1. CoreInv /\ ProbeAccounting /\ CohortPasses
  BY DEF VerdictInv, UndecidedInv, CohortInv
<1>2. /\ breaker.halfOpenSuccesses \in Nat /\ breaker.halfOpenCalls \in Nat
      /\ config.halfOpenMaxCalls \in Nat /\ resets \in Nat
  BY <1>1, CoreTypes DEF Breaker, ValidConfig, Config
<1>3. PICK c \in Calls : Report(c)
  <2>1. ASSUME NEW c \in Calls, Admit(c)
        PROVE  FALSE
    BY <1>1, <2>1, AdmitEffect DEF Decides
  <2>2. ~(LeavesCohort \/ StartsProbing \/ ClosesByHand)
    BY <1>2 DEF LeavesCohort, StartsProbing, ClosesByHand, ResetBreaker, TimedOut, Decides
  <2>3. QED
    BY <1>1, <2>1, <2>2, OtherEffect
<1>4. /\ pc[c] = "exiting" /\ pc'[c] = "done"
      /\ \A d \in Calls \ {c} : SameCall(d)
  BY <1>1, <1>3, CriticalSection, MutexStepCalls DEF Report, Holding
<1>5. CurrentCalls \subseteq Cohort
  BY DEF CurrentCalls, Cohort
<1>6. CASE /\ c \in CurrentCalls /\ ending[c] = "infra"
           /\ Decides(breaker') = Moved(breaker, "OPEN", now)
  BY <1>4, <1>5, <1>6 DEF Decides, Moved
<1>7. CASE /\ c \in CurrentCalls /\ ending[c] # "infra"
           /\ breaker.halfOpenSuccesses + 1 >= config.halfOpenMaxCalls
           /\ Decides(breaker') = Moved(breaker, "CLOSED", NoTime)
  <2>1. IsFiniteSet(CurrentCalls) /\ Cardinality(CurrentCalls) \in Nat
    BY FS_Subset, FS_CardinalityType DEF CurrentCalls
  <2>2. Cardinality(CurrentCalls \ {c}) = Cardinality(CurrentCalls) - 1
    BY <1>7, <2>1, FS_RemoveElement
  <2>3. Cardinality(CurrentCalls \ {c}) \in Nat
    BY <2>1, FS_Subset, FS_CardinalityType
  <2>4. breaker.halfOpenCalls = breaker.halfOpenSuccesses + Cardinality(CurrentCalls)
    BY <1>1 DEF ProbeAccounting
  <2>5. /\ Cardinality(Cohort) = config.halfOpenMaxCalls
        /\ Cardinality(CurrentCalls \ {c}) = 0
    BY <1>1, <1>2, <1>7, <2>1, <2>2, <2>3, <2>4 DEF CohortPasses
  <2>6. CurrentCalls \ {c} = {}
    BY <2>1, <2>5, FS_Subset, FS_EmptySet
  <2>7. \A d \in Cohort \ {c} : pc[d] = "done" /\ ending[d] # "infra"
    BY <1>1, <2>6 DEF CohortPasses, Cohort, CurrentCalls
  <2>8. \A d \in Cohort : pc'[d] = "done" /\ ending[d] # "infra"
    BY <1>4, <1>7, <2>7 DEF SameCall, Cohort
  <2>9. breaker'.state = "CLOSED"
    BY <1>7 DEF Decides, Moved
  <2>10. QED
    BY <2>5, <2>8, <2>9
<1>8. QED
  BY <1>1, <1>3, <1>6, <1>7, ReportEffect DEF Decides, Moved

\* If every client goes through execute() and halfOpenMaxCalls is not reconfigured, HALF_OPEN
\* closes only when a full cohort of halfOpenMaxCalls probes of one generation has reported
\* without an infrastructure error, and reopens only because one of them had one.
THEOREM VerdictOfTheCohort ==
  ASSUME DirectCalls = {}, IsFiniteSet(Calls),
         \A k \in Configs : k.halfOpenMaxCalls = InitConfig.halfOpenMaxCalls
  PROVE  Spec => HalfOpenVerdictIsTheCohorts
<1>1. Init => VerdictInv
  <2> SUFFICES ASSUME Init PROVE VerdictInv
    OBVIOUS
  <2>1. UndecidedInv /\ breaker.state = "CLOSED"
    BY InitCohort DEF Init, UndecidedInv, NewBreaker
  <2>2. \A c \in Calls : gen[c] = NoGen
    BY DEF Init, All
  <2>3. QED
    BY <2>1, <2>2 DEF VerdictInv
<1>2. VerdictInv /\ [Next]_vars => VerdictInv'
  BY StepVerdict
<1>3. VerdictInv /\ [Next]_vars =>
        [ breaker.state = "HALF_OPEN" /\ breaker'.state # "HALF_OPEN" /\ resets' = resets
          => IF breaker'.state = "CLOSED"
             THEN /\ Cardinality(Cohort) = config.halfOpenMaxCalls
                  /\ \A c \in Cohort : pc'[c] = "done" /\ ending[c] # "infra"
             ELSE \E c \in Cohort : pc'[c] = "done" /\ ending[c] = "infra" ]_vars
  BY VerdictStep
<1>4. QED
  BY <1>1, <1>2, <1>3, PTL DEF Spec, HalfOpenVerdictIsTheCohorts

=============================================================================

------------------------------- MODULE HttpProofs -------------------------------
(***************************************************************************)
(* What holds of the two packages that call HTTP endpoints through a       *)
(* circuit breaker.  Of HttpClient: its counts, cancellations and tokens,  *)
(* for any requests, keys, attempts and valid configuration of its         *)
(* breaker.  Of BufferedSender, at the end: where each entry is, for any   *)
(* sizes, retries, number of overlapping flushes and valid configuration.  *)
(***************************************************************************)
EXTENDS HttpClient, BufferedSender, FilterProofs

Started  == {r \in Requests : pc[r] # "idle"}
Sleeping == {r \in Requests : pc[r] = "sleeping"}
Failures == {r \in Requests : pc[r] = "done" /\ ending[r] \notin {"success", "circuit-open"}}

Types ==
  /\ TypeOK
  /\ issued \in Nat /\ now \in Nat
  /\ metrics = [m \in Metrics |-> metrics[m]]
  /\ ending = [r \in Requests |-> ending[r]]

\* What a request is after each await, and how often it was counted.
Counted ==
  /\ IsFiniteSet(Started) /\ IsFiniteSet(Retried)
  /\ metrics["requests"] = Cardinality(Started)
  /\ metrics["success"] = Cardinality(Done("success"))
  /\ metrics["circuitOpen"] = Cardinality(Done("circuit-open"))
  /\ metrics["failed"] = Cardinality(Failures)
  /\ metrics["retried"] = Cardinality(Retried) + Cardinality(Sleeping)
  /\ breaker.counters.totalCalls =
       breaker.counters.successfulCalls + breaker.counters.failedCalls + Cardinality(Asking)
  /\ \A r \in Requests : pc[r] = "sleeping" => attempt[r] < Attempts
  /\ \A r \in Requests : pc[r] = "answered" => ending[r] \notin {"circuit-open", "step", "none"}

\* A token is under one key, until it is cancelled.
TokensApart ==
  /\ \A k \in Keys : tokens[k] \notin cancelled
  /\ \A k, l \in Keys : tokens[k] # NoToken /\ tokens[k] = tokens[l] => k = l

Together(q, r) ==
  /\ q # r /\ key[q] = key[r] /\ key[r] # NoKey
  /\ pc[q] \in Active \cup {"answered"} /\ pc[r] \in Active \cup {"answered"}

\* Of a request that has its key to itself: what its token says of the cancellations.
AsAsked(r) ==
  /\ pc[r] = "idle" => r \notin asked
  /\ key[r] = NoKey => r \notin asked /\ held[r] = NoToken /\ ending[r] # "cancelled"
  /\ key[r] # NoKey /\ pc[r] = "pipeline" => (r \in asked <=> tokens[key[r]] = NoToken)
  /\ key[r] # NoKey /\ pc[r] \in {"calling", "sleeping"} =>
       /\ held[r] # NoToken
       /\ r \in asked <=> held[r] \in cancelled
       /\ r \notin asked => tokens[key[r]] = held[r]
  /\ r \in late => r \in asked /\ pc[r] \in {"answered", "done"}
  /\ key[r] # NoKey /\ pc[r] \in {"answered", "done"} =>
       /\ ending[r] = "cancelled" => r \in asked \ late
       /\ r \in asked \ late => ending[r] # "success"

CancelInv ==
  /\ TokensApart
  /\ \A q, r \in Requests : Together(q, r) => r \in crowded
  /\ \A r \in Requests \ (crowded \cup astray) : AsAsked(r)

Released == \A k \in Keys : tokens[k] # NoToken => InFlight(k) # {} \/ astray # {}

ClientInv == Types /\ Counted /\ CancelInv /\ Released

-----------------------------------------------------------------------------
(* What the breaker counts *)

ValidConfig == {c \in Config : ValidateConfig(c)}

Heard(b) == b.counters.successfulCalls + b.counters.failedCalls

\* b is a breaker that has counted what a has, and heard of so many calls more.
Counts(b, a, admitted, heard) ==
  /\ b \in Breaker
  /\ b.counters.totalCalls = a.counters.totalCalls + admitted
  /\ Heard(b) = Heard(a) + heard

LEMMA SomeCounters ==
  ASSUME NEW b \in Breaker
  PROVE  /\ b.counters \in Counters
         /\ b.counters.totalCalls \in Nat /\ Heard(b) \in Nat
         /\ Counts(b, b, 0, 0)
PROOF
  <1>1. b.counters \in Counters
    BY DEF Breaker
  <1>2. /\ b.counters.totalCalls \in Nat /\ b.counters.successfulCalls \in Nat
        /\ b.counters.failedCalls \in Nat
    BY <1>1 DEF Counters
  <1> QED BY <1>1, <1>2 DEF Counts, Heard

LEMMA NewCounters ==
  ASSUME NEW b \in Breaker, NEW n \in Counters
  PROVE  [b EXCEPT !.counters = n] \in Breaker /\ [b EXCEPT !.counters = n].counters = n
PROOF
  BY DEF Breaker

LEMMA AdmissionCounts ==
  ASSUME NEW b \in Breaker
  PROVE  Counts(CountAdmission(b), b, 1, 0) /\ Counts(CountRejection(b), b, 0, 0)
PROOF
  <1> DEFINE n == [b.counters EXCEPT !.totalCalls = @ + 1]
             m == [b.counters EXCEPT !.notPermittedCalls = @ + 1]
  <1>1. b.counters \in Counters /\ Heard(b) \in Nat /\ b.counters.totalCalls \in Nat
    BY SomeCounters
  <1>2. /\ n \in Counters /\ n.totalCalls = b.counters.totalCalls + 1
        /\ n.successfulCalls = b.counters.successfulCalls /\ n.failedCalls = b.counters.failedCalls
    BY <1>1 DEF Counters
  <1>3. /\ m \in Counters /\ m.totalCalls = b.counters.totalCalls
        /\ m.successfulCalls = b.counters.successfulCalls /\ m.failedCalls = b.counters.failedCalls
    BY <1>1 DEF Counters
  <1>4. CountAdmission(b) = [b EXCEPT !.counters = n] /\ CountRejection(b) = [b EXCEPT !.counters = m]
    BY DEF CountAdmission, CountRejection
  <1> HIDE DEF n, m
  <1>5. /\ CountAdmission(b) \in Breaker /\ CountAdmission(b).counters = n
        /\ CountRejection(b) \in Breaker /\ CountRejection(b).counters = m
    BY <1>2, <1>3, <1>4, NewCounters
  <1> QED BY <1>1, <1>2, <1>3, <1>5 DEF Counts, Heard

\* The counters after a success.
Succeeds(n, s) == [n EXCEPT !.successfulCalls = @ + 1, !.slowCalls = IF s THEN @ + 1 ELSE @]

LEMMA SuccessCounters ==
  ASSUME NEW n \in Counters, NEW s \in BOOLEAN
  PROVE  /\ Succeeds(n, s) \in Counters /\ Succeeds(n, s).totalCalls = n.totalCalls
         /\ Succeeds(n, s).successfulCalls = n.successfulCalls + 1
         /\ Succeeds(n, s).failedCalls = n.failedCalls
PROOF
  <1> DEFINE m == [n EXCEPT !.successfulCalls = @ + 1]
             slow == IF s THEN m.slowCalls + 1 ELSE m.slowCalls
  <1>1. /\ m \in Counters /\ m.totalCalls = n.totalCalls
        /\ m.successfulCalls = n.successfulCalls + 1 /\ m.failedCalls = n.failedCalls
    BY DEF Counters
  <1>2. slow \in Nat
    BY <1>1 DEF Counters
  <1>3. Succeeds(n, s) = [m EXCEPT !.slowCalls = slow]
    BY DEF Counters, Succeeds
  <1> HIDE DEF m, slow
  <1> QED BY <1>1, <1>2, <1>3 DEF Counters

LEMMA OutcomeCounts ==
  ASSUME NEW b \in Breaker, NEW s \in BOOLEAN
  PROVE  Counts(CountFailure(b), b, 0, 1) /\ Counts(CountSuccess(b, s), b, 0, 1)
PROOF
  <1> DEFINE n == [b.counters EXCEPT !.failedCalls = @ + 1]
             m == Succeeds(b.counters, s)
  <1>1. /\ b.counters \in Counters /\ Heard(b) \in Nat /\ b.counters.totalCalls \in Nat
        /\ b.counters.successfulCalls \in Nat /\ b.counters.failedCalls \in Nat
    BY SomeCounters DEF Counters
  <1>2. /\ n \in Counters /\ n.totalCalls = b.counters.totalCalls
        /\ n.successfulCalls = b.counters.successfulCalls /\ n.failedCalls = b.counters.failedCalls + 1
    BY <1>1 DEF Counters
  <1>3. CountFailure(b) = [b EXCEPT !.counters = n] /\ CountSuccess(b, s) = [b EXCEPT !.counters = m]
    BY DEF CountFailure, CountSuccess, Succeeds
  <1>4. /\ m \in Counters /\ m.totalCalls = b.counters.totalCalls
        /\ m.successfulCalls = b.counters.successfulCalls + 1 /\ m.failedCalls = b.counters.failedCalls
    BY <1>1, SuccessCounters
  <1> HIDE DEF n, m
  <1>5. /\ CountFailure(b) \in Breaker /\ CountFailure(b).counters = n
        /\ CountSuccess(b, s) \in Breaker /\ CountSuccess(b, s).counters = m
    BY <1>2, <1>3, <1>4, NewCounters
  <1> QED BY <1>1, <1>2, <1>4, <1>5 DEF Counts, Heard

\* A transition, an outcome in the window and a probe that passes count nothing.
LEMMA TransitionCounts ==
  ASSUME NEW b \in Breaker, NEW next \in States, NEW t \in Nat
  PROVE  TransitionTo(b, next, t) \in Breaker /\ TransitionTo(b, next, t).counters = b.counters
PROOF
  BY DEF TransitionTo, Breaker, States, NoTime

LEMMA RecordCounts ==
  ASSUME NEW b \in Breaker, NEW o \in Outcomes, NEW c \in ValidConfig, NEW t \in Nat
  PROVE  Record(b, o, c, t) \in Breaker /\ Record(b, o, c, t).counters = b.counters
PROOF
  <1> DEFINE w == Slide(b.window, o, c)
             r == [b EXCEPT !.window = w]
  <1>1. b.window \in Seq(Outcomes)
    BY DEF Breaker
  <1>2. w \in Seq(Outcomes)
    BY <1>1 DEF Slide, ValidConfig, ValidateConfig, Config
  <1> HIDE DEF w
  <1>3. r \in Breaker /\ r.counters = b.counters
    BY <1>2 DEF Breaker
  <1>4. Record(b, o, c, t) \in {r, TransitionTo(r, "OPEN", t)}
    BY DEF Record, w
  <1> HIDE DEF r
  <1>5. "OPEN" \in States
    BY DEF States
  <1>6. TransitionTo(r, "OPEN", t) \in Breaker /\ TransitionTo(r, "OPEN", t).counters = r.counters
    BY <1>3, <1>5, TransitionCounts
  <1>7. CASE Record(b, o, c, t) = r
    BY <1>3, <1>7
  <1>8. CASE Record(b, o, c, t) = TransitionTo(r, "OPEN", t)
    BY <1>3, <1>6, <1>8
  <1> QED BY <1>4, <1>7, <1>8

LEMMA ProbeCounts ==
  ASSUME NEW b \in Breaker, NEW c \in ValidConfig, NEW t \in Nat
  PROVE  PassProbe(b, c, t) \in Breaker /\ PassProbe(b, c, t).counters = b.counters
PROOF
  <1> DEFINE p == [b EXCEPT !.halfOpenSuccesses = @ + 1]
  <1>1. p \in Breaker /\ p.counters = b.counters
    BY DEF Breaker
  <1>2. PassProbe(b, c, t) \in {b, p, TransitionTo(p, "CLOSED", t)}
    BY DEF PassProbe
  <1> HIDE DEF p
  <1>3. TransitionTo(p, "CLOSED", t) \in Breaker /\ TransitionTo(p, "CLOSED", t).counters = p.counters
    BY <1>1, TransitionCounts DEF States
  <1> QED BY <1>1, <1>2, <1>3

\* A call is settled once, whatever became of the breaker in the meantime.
LEMMA SettleCounts ==
  ASSUME NEW b \in Breaker, NEW e \in Endings, NEW g, NEW c \in ValidConfig, NEW t \in Nat
  PROVE  Counts(Settle(b, e, 0, g, c, t), b, 0, 1)
PROOF
  <1>1. CASE e = "infra"
    <2> DEFINE n == CountFailure(b)
               m == Record(n, "failure", c, t)
    <2>1. Counts(n, b, 0, 1)
      BY OutcomeCounts
    <2>2. Settle(b, e, 0, g, c, t) \in {n, m, TransitionTo(m, "OPEN", t)}
      BY <1>1 DEF Settle, OnInfrastructureError
    <2> HIDE DEF n
    <2>3. m \in Breaker /\ m.counters = n.counters
      BY <2>1, RecordCounts DEF Counts, Outcomes
    <2> HIDE DEF m
    <2>4. TransitionTo(m, "OPEN", t) \in Breaker /\ TransitionTo(m, "OPEN", t).counters = n.counters
      BY <2>3, TransitionCounts DEF States
    <2> QED BY <2>1, <2>2, <2>3, <2>4 DEF Counts, Heard
  <1>2. CASE e # "infra"
    <2>1. PICK s \in BOOLEAN, o \in Outcomes :
            Settle(b, e, 0, g, c, t) \in
              {CountSuccess(b, s), PassProbe(Record(CountSuccess(b, s), o, c, t), c, t)}
      <3>1. CASE e = "ok"
        <4> DEFINE slow == 0 >= c.slowCallDurationMs
                   out  == IF slow THEN "slow" ELSE "success"
        <4>1. slow \in BOOLEAN /\ out \in Outcomes
          BY DEF Outcomes
        <4>2. Settle(b, e, 0, g, c, t) \in
                {CountSuccess(b, slow), PassProbe(Record(CountSuccess(b, slow), out, c, t), c, t)}
          BY <3>1 DEF Settle, OnSuccess
        <4> HIDE DEF slow, out
        <4> QED BY <4>1, <4>2
      <3>2. CASE e = "business"
        BY <3>2 DEF Settle, OnBusinessError, Outcomes
      <3> QED BY <1>2, <3>1, <3>2 DEF Endings
    <2> DEFINE n == CountSuccess(b, s)
               m == Record(n, o, c, t)
    <2>2. Counts(n, b, 0, 1)
      BY OutcomeCounts
    <2>3. Settle(b, e, 0, g, c, t) \in {n, PassProbe(m, c, t)}
      BY <2>1
    <2> HIDE DEF n
    <2>4. m \in Breaker /\ m.counters = n.counters
      BY <2>2, RecordCounts DEF Counts
    <2> HIDE DEF m
    <2>5. PassProbe(m, c, t) \in Breaker /\ PassProbe(m, c, t).counters = n.counters
      BY <2>4, ProbeCounts
    <2> QED BY <2>2, <2>3, <2>5 DEF Counts, Heard
  <1> QED BY <1>1, <1>2

LEMMA OneProbeMore ==
  ASSUME NEW b \in Breaker
  PROVE  /\ [b EXCEPT !.halfOpenCalls = @ + 1] \in Breaker
         /\ [b EXCEPT !.halfOpenCalls = @ + 1].counters = b.counters
PROOF
  BY DEF Breaker

\* A call that asks is counted as admitted, or not at all.
LEMMA AskCounts ==
  ASSUME NEW a \in Breaker, NEW c \in ValidConfig, NEW t \in Nat, NEW b, b = SyncState(a, c, t)
  PROVE  Counts(Admitted(b), a, 1, 0) /\ Counts(CountRejection(b), a, 0, 0)
PROOF
  <1>1. b \in Breaker /\ b.counters = a.counters
    BY TransitionCounts DEF SyncState, States
  <1> DEFINE p == [b EXCEPT !.halfOpenCalls = @ + 1]
  <1>2. p \in Breaker /\ p.counters = a.counters
    BY <1>1, OneProbeMore
  <1>3. Admitted(b) \in {CountAdmission(b), CountAdmission(p)}
    BY DEF Admitted
  <1> HIDE DEF p
  <1> QED BY <1>1, <1>2, <1>3, AdmissionCounts DEF Counts, Heard

-----------------------------------------------------------------------------
(* What a step of one request does to the sets of requests *)

Was(fact) == IF fact THEN 1 ELSE 0

\* Two sets that differ in r at most.
LEMMA OneMoves ==
  ASSUME NEW S, IsFiniteSet(S), NEW T, NEW r, \A q : q # r => (q \in T <=> q \in S)
  PROVE  /\ IsFiniteSet(T) /\ Cardinality(S) \in Nat /\ Cardinality(T) \in Nat
         /\ Cardinality(T) = Cardinality(S) + Was(r \in T) - Was(r \in S)
PROOF
  <1>1. Cardinality(S) \in Nat
    BY FS_CardinalityType
  <1>2. CASE r \in T /\ r \notin S
    <2>1. T = S \cup {r}
      BY <1>2
    <2>2. IsFiniteSet(T) /\ Cardinality(T) = Cardinality(S) + 1
      BY <1>2, <2>1, FS_AddElement, Zenon
    <2> QED BY <1>1, <1>2, <2>2 DEF Was
  <1>3. CASE r \notin T /\ r \in S
    <2>1. T = S \ {r}
      BY <1>3
    <2>2. IsFiniteSet(T) /\ Cardinality(T) = Cardinality(S) - 1
      BY <1>3, <2>1, FS_RemoveElement, Zenon
    <2>3. Cardinality(T) \in Nat
      BY <2>2, FS_CardinalityType
    <2> QED BY <1>1, <1>3, <2>2, <2>3 DEF Was
  <1>4. CASE r \in T <=> r \in S
    <2>1. T = S
      BY <1>4
    <2> QED BY <1>1, <1>4, <2>1 DEF Was
  <1> QED BY <1>2, <1>3, <1>4

LEMMA DisjointUnion ==
  ASSUME NEW A, IsFiniteSet(A), NEW B, IsFiniteSet(B), A \cap B = {}
  PROVE  IsFiniteSet(A \cup B) /\ Cardinality(A \cup B) = Cardinality(A) + Cardinality(B)
PROOF
  <1>1. /\ IsFiniteSet(A \cup B)
        /\ Cardinality(A \cup B) = Cardinality(A) + Cardinality(B) - Cardinality(A \cap B)
    BY FS_Union
  <1>2. Cardinality(A \cap B) = 0
    BY FS_EmptySet
  <1>3. Cardinality(A) \in Nat /\ Cardinality(B) \in Nat
    BY FS_CardinalityType
  <1> QED BY <1>1, <1>2, <1>3

Moves(r, where, how) ==
  /\ pc' = [pc EXCEPT ![r] = where]
  /\ ending' = [ending EXCEPT ![r] = how]

LEMMA Moved ==
  ASSUME Types, NEW r \in Requests, NEW where, NEW how, Moves(r, where, how)
  PROVE  /\ pc'[r] = where /\ ending'[r] = how
         /\ \A q \in Requests \ {r} : pc'[q] = pc[q] /\ ending'[q] = ending[q]
         /\ ending' = [q \in Requests |-> ending'[q]]
PROOF
  BY DEF Moves, Types, TypeOK

\* All but the idle are started, so there are finitely many of every other kind.
LEMMA SomeStarted ==
  ASSUME Counted
  PROVE  /\ IsFiniteSet(Sleeping) /\ IsFiniteSet(Asking) /\ IsFiniteSet(Flying)
         /\ IsFiniteSet(Failures) /\ \A x : IsFiniteSet(Done(x))
PROOF
  <1>1. /\ Sleeping \subseteq Started /\ Asking \subseteq Started /\ Flying \subseteq Started
        /\ Failures \subseteq Started /\ \A x : Done(x) \subseteq Started
    BY DEF Sleeping, Asking, Flying, Failures, Done, Started, Active
  <1>2. IsFiniteSet(Started)
    BY DEF Counted
  <1> QED BY <1>1, <1>2, FS_Subset

LEMMA SetsMove ==
  ASSUME Types, Counted, NEW r \in Requests, NEW where, NEW how, Moves(r, where, how)
  PROVE  /\ IsFiniteSet(Started)'
         /\ Cardinality(Started)' =
              Cardinality(Started) + Was(where # "idle") - Was(pc[r] # "idle")
         /\ Cardinality(Sleeping)' =
              Cardinality(Sleeping) + Was(where = "sleeping") - Was(pc[r] = "sleeping")
         /\ Cardinality(Asking)' =
              Cardinality(Asking) + Was(where \in {"calling", "sleeping", "answered"})
                                  - Was(pc[r] \in {"calling", "sleeping", "answered"})
         /\ \A x \in {"success", "circuit-open"} :
              Cardinality(Done(x))' =
                Cardinality(Done(x)) + Was(where = "done" /\ how = x)
                                     - Was(pc[r] = "done" /\ ending[r] = x)
         /\ Cardinality(Failures)' =
              Cardinality(Failures)
                + Was(where = "done" /\ how \notin {"success", "circuit-open"})
                - Was(pc[r] = "done" /\ ending[r] \notin {"success", "circuit-open"})
PROOF
  <1>1. /\ pc'[r] = where /\ ending'[r] = how
        /\ \A q \in Requests \ {r} : pc'[q] = pc[q] /\ ending'[q] = ending[q]
    BY Moved
  <1>2. /\ IsFiniteSet(Started)'
        /\ Cardinality(Started)' =
             Cardinality(Started) + Was(where # "idle") - Was(pc[r] # "idle")
    <2>1. /\ \A q : q # r => (q \in Started' <=> q \in Started) /\ IsFiniteSet(Started)
          /\ (r \in Started' <=> where # "idle") /\ (r \in Started <=> pc[r] # "idle")
      BY <1>1 DEF Started, Counted
    <2>2. IsFiniteSet(Started')
      BY <2>1, OneMoves
    <2>3. Cardinality(Started') = Cardinality(Started) + Was(r \in Started') - Was(r \in Started)
      BY <2>1, OneMoves
    <2> QED BY <2>1, <2>2, <2>3 DEF Was
  <1>3. Cardinality(Sleeping)' =
          Cardinality(Sleeping) + Was(where = "sleeping") - Was(pc[r] = "sleeping")
    <2>1. /\ \A q : q # r => (q \in Sleeping' <=> q \in Sleeping)
          /\ (r \in Sleeping' <=> where = "sleeping") /\ (r \in Sleeping <=> pc[r] = "sleeping")
      BY <1>1 DEF Sleeping
    <2>2. Cardinality(Sleeping') = Cardinality(Sleeping) + Was(r \in Sleeping') - Was(r \in Sleeping)
      BY <2>1, OneMoves, SomeStarted
    <2> QED BY <2>1, <2>2 DEF Was
  <1>4. Cardinality(Asking)' =
          Cardinality(Asking) + Was(where \in {"calling", "sleeping", "answered"})
                              - Was(pc[r] \in {"calling", "sleeping", "answered"})
    <2>1. /\ \A q : q # r => (q \in Asking' <=> q \in Asking)
          /\ (r \in Asking' <=> where \in {"calling", "sleeping", "answered"})
          /\ (r \in Asking <=> pc[r] \in {"calling", "sleeping", "answered"})
      BY <1>1 DEF Asking
    <2>2. Cardinality(Asking') = Cardinality(Asking) + Was(r \in Asking') - Was(r \in Asking)
      BY <2>1, OneMoves, SomeStarted
    <2> QED BY <2>1, <2>2 DEF Was
  <1>5. ASSUME NEW x \in {"success", "circuit-open"}
        PROVE  Cardinality(Done(x))' =
                 Cardinality(Done(x)) + Was(where = "done" /\ how = x)
                                      - Was(pc[r] = "done" /\ ending[r] = x)
    <2>1. /\ \A q : q # r => (q \in Done(x)' <=> q \in Done(x))
          /\ (r \in Done(x)' <=> where = "done" /\ how = x)
          /\ (r \in Done(x) <=> pc[r] = "done" /\ ending[r] = x)
      BY <1>1 DEF Done
    <2>2. Cardinality(Done(x)') = Cardinality(Done(x)) + Was(r \in Done(x)') - Was(r \in Done(x))
      BY <2>1, OneMoves, SomeStarted
    <2> QED BY <2>1, <2>2 DEF Was
  <1>6. Cardinality(Failures)' =
          Cardinality(Failures)
            + Was(where = "done" /\ how \notin {"success", "circuit-open"})
            - Was(pc[r] = "done" /\ ending[r] \notin {"success", "circuit-open"})
    <2>1. /\ \A q : q # r => (q \in Failures' <=> q \in Failures)
          /\ (r \in Failures' <=> where = "done" /\ how \notin {"success", "circuit-open"})
          /\ (r \in Failures <=> pc[r] = "done" /\ ending[r] \notin {"success", "circuit-open"})
      BY <1>1 DEF Failures
    <2>2. Cardinality(Failures') = Cardinality(Failures) + Was(r \in Failures') - Was(r \in Failures)
      BY <2>1, OneMoves, SomeStarted
    <2> QED BY <2>1, <2>2 DEF Was
  <1> QED BY <1>2, <1>3, <1>4, <1>5, <1>6

LEMMA Numbers ==
  ASSUME Types, Counted
  PROVE  /\ metrics["requests"] \in Nat /\ metrics["success"] \in Nat
         /\ metrics["circuitOpen"] \in Nat /\ metrics["failed"] \in Nat /\ metrics["retried"] \in Nat
         /\ Cardinality(Started) \in Nat /\ Cardinality(Sleeping) \in Nat
         /\ Cardinality(Asking) \in Nat /\ Cardinality(Retried) \in Nat /\ Cardinality(Failures) \in Nat
         /\ Cardinality(Done("success")) \in Nat /\ Cardinality(Done("circuit-open")) \in Nat
         /\ breaker.counters.totalCalls \in Nat /\ Heard(breaker) \in Nat
PROOF
  <1>1. /\ IsFiniteSet(Started) /\ IsFiniteSet(Retried) /\ IsFiniteSet(Sleeping)
        /\ IsFiniteSet(Asking) /\ IsFiniteSet(Failures) /\ \A x : IsFiniteSet(Done(x))
    BY SomeStarted DEF Counted
  <1>2. /\ Cardinality(Started) \in Nat /\ Cardinality(Sleeping) \in Nat
        /\ Cardinality(Asking) \in Nat /\ Cardinality(Retried) \in Nat /\ Cardinality(Failures) \in Nat
        /\ Cardinality(Done("success")) \in Nat /\ Cardinality(Done("circuit-open")) \in Nat
    BY <1>1, FS_CardinalityType
  <1>3. breaker.counters.totalCalls \in Nat /\ Heard(breaker) \in Nat
    BY SomeCounters DEF Types, TypeOK
  <1> QED BY <1>2, <1>3 DEF Counted

\* What a step of r puts in the books: d retries woke up, and the breaker admitted and heard
\* of so many calls.
Books(r, where, how, d, admitted, heard) ==
  /\ IsFiniteSet(Retried') /\ Cardinality(Retried') = Cardinality(Retried) + d
  /\ metrics'["requests"] = metrics["requests"] + Was(where # "idle") - Was(pc[r] # "idle")
  /\ \A x \in {<<"success", "success">>, <<"circuitOpen", "circuit-open">>} :
       metrics'[x[1]] = metrics[x[1]] + Was(where = "done" /\ how = x[2])
                                      - Was(pc[r] = "done" /\ ending[r] = x[2])
  /\ metrics'["failed"] = metrics["failed"]
       + Was(where = "done" /\ how \notin {"success", "circuit-open"})
       - Was(pc[r] = "done" /\ ending[r] \notin {"success", "circuit-open"})
  /\ metrics'["retried"] = metrics["retried"] + d
       + Was(where = "sleeping") - Was(pc[r] = "sleeping")
  /\ Counts(breaker', breaker, admitted, heard)
  /\ admitted - heard = Was(where \in {"calling", "sleeping", "answered"})
                          - Was(pc[r] \in {"calling", "sleeping", "answered"})

LEMMA BooksBalance ==
  ASSUME Types, Counted, NEW r \in Requests, NEW where, NEW how, Moves(r, where, how),
         NEW d \in {0, 1}, NEW admitted \in {0, 1}, NEW heard \in {0, 1},
         Books(r, where, how, d, admitted, heard),
         where = "sleeping" => attempt'[r] < Attempts,
         where = "answered" => how \notin {"circuit-open", "step", "none"},
         \A q \in Requests \ {r} : attempt'[q] = attempt[q]
  PROVE  Counted'
PROOF
  <1>1. IsFiniteSet(Started') /\ IsFiniteSet(Retried')
    BY SetsMove DEF Books
  <1>2. metrics'["requests"] = Cardinality(Started')
    <2>1. Cardinality(Started') = Cardinality(Started) + Was(where # "idle") - Was(pc[r] # "idle")
      BY SetsMove
    <2> QED BY <2>1 DEF Books, Counted
  <1>3. metrics'["success"] = Cardinality(Done("success")')
    <2>1. Cardinality(Done("success")') =
            Cardinality(Done("success")) + Was(where = "done" /\ how = "success")
                                         - Was(pc[r] = "done" /\ ending[r] = "success")
      BY SetsMove
    <2>2. metrics'["success"] = metrics["success"] + Was(where = "done" /\ how = "success")
                                                   - Was(pc[r] = "done" /\ ending[r] = "success")
      BY DEF Books
    <2> QED BY <2>1, <2>2 DEF Counted
  <1>4. metrics'["circuitOpen"] = Cardinality(Done("circuit-open")')
    <2>1. Cardinality(Done("circuit-open")') =
            Cardinality(Done("circuit-open")) + Was(where = "done" /\ how = "circuit-open")
                                              - Was(pc[r] = "done" /\ ending[r] = "circuit-open")
      BY SetsMove
    <2>2. metrics'["circuitOpen"] = metrics["circuitOpen"]
            + Was(where = "done" /\ how = "circuit-open")
            - Was(pc[r] = "done" /\ ending[r] = "circuit-open")
      BY DEF Books
    <2> QED BY <2>1, <2>2 DEF Counted
  <1>5. metrics'["failed"] = Cardinality(Failures')
    <2>1. Cardinality(Failures') = Cardinality(Failures)
            + Was(where = "done" /\ how \notin {"success", "circuit-open"})
            - Was(pc[r] = "done" /\ ending[r] \notin {"success", "circuit-open"})
      BY SetsMove
    <2> QED BY <2>1 DEF Books, Counted
  <1> DEFINE asleep == Was(where = "sleeping")
             slept == Was(pc[r] = "sleeping")
             asks == Was(where \in {"calling", "sleeping", "answered"})
             asked0 == Was(pc[r] \in {"calling", "sleeping", "answered"})
  <1>6. asleep \in Nat /\ slept \in Nat /\ asks \in Nat /\ asked0 \in Nat
    BY DEF Was
  <1>7. metrics'["retried"] = Cardinality(Retried') + Cardinality(Sleeping')
    <2>1. Cardinality(Sleeping') = Cardinality(Sleeping) + asleep - slept
      BY SetsMove
    <2>2. /\ metrics'["retried"] = metrics["retried"] + d + asleep - slept
          /\ Cardinality(Retried') = Cardinality(Retried) + d
      BY DEF Books
    <2>3. metrics["retried"] = Cardinality(Retried) + Cardinality(Sleeping)
      BY DEF Counted
    <2>4. /\ Cardinality(Retried) \in Nat /\ Cardinality(Sleeping) \in Nat
      BY Numbers
    <2> HIDE DEF asleep, slept
    <2> QED BY <1>6, <2>1, <2>2, <2>3, <2>4
  <1>8. breaker'.counters.totalCalls =
          breaker'.counters.successfulCalls + breaker'.counters.failedCalls + Cardinality(Asking')
    <2>1. Cardinality(Asking') = Cardinality(Asking) + asks - asked0
      BY SetsMove
    <2>2. /\ breaker'.counters.totalCalls = breaker.counters.totalCalls + admitted
          /\ Heard(breaker') = Heard(breaker) + heard
          /\ admitted - heard = asks - asked0
      BY DEF Books, Counts
    <2>3. breaker.counters.totalCalls = Heard(breaker) + Cardinality(Asking)
      BY DEF Counted, Heard
    <2>4. Cardinality(Asking) \in Nat /\ Heard(breaker) \in Nat
      BY Numbers
    <2> HIDE DEF asks, asked0
    <2>5. breaker'.counters.totalCalls = Heard(breaker') + Cardinality(Asking')
      BY <1>6, <2>1, <2>2, <2>3, <2>4
    <2> QED BY <2>5 DEF Heard
  <1>9. /\ \A q \in Requests : pc'[q] = "sleeping" => attempt'[q] < Attempts
        /\ \A q \in Requests : pc'[q] = "answered" => ending'[q] \notin {"circuit-open", "step", "none"}
    BY Moved DEF Counted
  <1> QED BY <1>1, <1>2, <1>3, <1>4, <1>5, <1>7, <1>8, <1>9 DEF Counted

-----------------------------------------------------------------------------
(* What each action does to one request, its token and the books *)

Places == Active \cup {"idle", "answered", "done"}

LEMMA Stays ==
  ASSUME Types, NEW r \in Requests
  PROVE  /\ ending = [ending EXCEPT ![r] = ending[r]] /\ pc = [pc EXCEPT ![r] = pc[r]]
         /\ pc[r] \in Places
PROOF
  BY DEF Types, TypeOK, Places

LEMMA CountMetric ==
  ASSUME Types, NEW m \in Metrics, Count(m)
  PROVE  /\ metrics' = [x \in Metrics |-> metrics'[x]]
         /\ metrics'[m] = metrics[m] + 1
         /\ \A x \in Metrics \ {m} : metrics'[x] = metrics[x]
PROOF
  BY DEF Types, Count

LEMMA DeleteToken ==
  ASSUME Types, NEW k \in Keys \cup {NoKey}, Delete(k)
  PROVE  /\ tokens' \in [Keys -> 0..issued]
         /\ \A l \in Keys : tokens'[l] = IF l = k THEN NoToken ELSE tokens[l]
PROOF
  <1>1. /\ NoKey \notin Keys /\ NoToken \in 0..issued /\ tokens \in [Keys -> 0..issued]
    BY ClientAssumption DEF Types, TypeOK, NoToken
  <1>2. CASE k = NoKey
    BY <1>1, <1>2 DEF Delete
  <1>3. CASE k # NoKey
    BY <1>1, <1>3 DEF Delete
  <1> QED BY <1>2, <1>3

LEMMA NewToken ==
  ASSUME Types, NEW k \in Keys, GetOrCreate(k)
  PROVE  /\ issued' \in Nat /\ issued <= issued' /\ tokens' \in [Keys -> 0..issued']
         /\ \A l \in Keys \ {k} : tokens'[l] = tokens[l]
         /\ tokens'[k] = IF tokens[k] # NoToken THEN tokens[k] ELSE issued + 1
PROOF
  <1>1. issued \in Nat /\ tokens \in [Keys -> 0..issued]
    BY DEF Types, TypeOK
  <1>2. CASE tokens[k] # NoToken
    BY <1>1, <1>2 DEF GetOrCreate
  <1>3. CASE tokens[k] = NoToken
    <2>1. issued' = issued + 1 /\ tokens' = [tokens EXCEPT ![k] = issued + 1]
      BY <1>3 DEF GetOrCreate
    <2>2. \A l \in Keys : tokens[l] \in 0..(issued + 1)
      BY <1>1
    <2>3. issued + 1 \in 0..(issued + 1)
      BY <1>1
    <2> QED BY <1>1, <1>3, <2>1, <2>2, <2>3
  <1> QED BY <1>2, <1>3

LEMMA ConfigIsValid == BreakerConfig \in ValidConfig
PROOF
  BY ClientAssumption DEF ValidConfig

\* The types after a step of one request.
LEMMA TypesMove ==
  ASSUME Types, NEW r \in Requests, NEW where \in Places, NEW how, Moves(r, where, how),
         key' \in [Requests -> Keys \cup {NoKey}], attempt' \in [Requests -> 0..Attempts],
         issued' \in Nat, held' \in [Requests -> 0..issued'], tokens' \in [Keys -> 0..issued'],
         cancelled' \subseteq 1..issued', breaker' \in Breaker, now' = now,
         metrics' = [m \in Metrics |-> metrics'[m]]
  PROVE  Types'
PROOF
  <1>1. pc' \in [Requests -> Places] /\ ending' = [q \in Requests |-> ending'[q]]
    BY Moved DEF Moves, Types, TypeOK, Places
  <1>2. now' \in Nat
    BY DEF Types
  <1> QED BY <1>1, <1>2, Zenon DEF Types, TypeOK, Places

\* A step that neither retries nor asks the breaker.
LEMMA QuietStep ==
  ASSUME Types, Counted, UNCHANGED <<attempt, breaker>>
  PROVE  /\ IsFiniteSet(Retried') /\ Cardinality(Retried') = Cardinality(Retried) + 0
         /\ Counts(breaker', breaker, 0, 0)
PROOF
  <1>1. Retried' = Retried
    BY DEF Retried
  <1>2. IsFiniteSet(Retried) /\ Cardinality(Retried) \in Nat
    BY Numbers DEF Counted
  <1>3. Counts(breaker', breaker, 0, 0)
    BY SomeCounters DEF Types, TypeOK
  <1> QED BY <1>1, <1>2, <1>3

LEMMA ExecuteCounts ==
  ASSUME Types, Counted, NEW r \in Requests, Execute(r)
  PROVE  Types' /\ Counted'
PROOF
  <1>1. pc[r] = "idle" /\ Moves(r, "pipeline", ending[r])
    BY Stays DEF Execute, Moves
  <1>2. /\ metrics' = [m \in Metrics |-> metrics'[m]]
        /\ metrics'["requests"] = metrics["requests"] + 1
        /\ \A x \in Metrics \ {"requests"} : metrics'[x] = metrics[x]
    BY CountMetric DEF Execute, Metrics
  <1>3. Books(r, "pipeline", ending[r], 0, 0, 0)
    <2>1. /\ IsFiniteSet(Retried') /\ Cardinality(Retried') = Cardinality(Retried) + 0
          /\ Counts(breaker', breaker, 0, 0)
      BY QuietStep DEF Execute
    <2> QED BY <1>1, <1>2, <2>1, Numbers DEF Books, Was, Metrics
  <1>4. Counted'
    BY <1>1, <1>3, BooksBalance DEF Execute
  <1>5. /\ key[r] \in Keys \cup {NoKey} /\ issued \in Nat /\ tokens \in [Keys -> 0..issued]
        /\ held \in [Requests -> 0..issued] /\ cancelled \subseteq 1..issued
    BY DEF Types, TypeOK
  <1>6. issued' \in Nat /\ issued <= issued' /\ tokens' \in [Keys -> 0..issued']
    BY <1>5, NewToken DEF Execute
  <1>7. held \in [Requests -> 0..issued'] /\ cancelled \subseteq 1..issued'
    BY <1>5, <1>6
  <1>8. Types'
    BY <1>1, <1>2, <1>6, <1>7, TypesMove DEF Execute, Types, TypeOK, Places, Active
  <1> QED BY <1>4, <1>8

LEMMA DropKeyCounts ==
  ASSUME Types, Counted, NEW r \in Requests, DropKey(r)
  PROVE  Types' /\ Counted'
PROOF
  <1>1. pc[r] = "pipeline" /\ Moves(r, "pipeline", ending[r])
    BY Stays DEF DropKey, Moves
  <1>2. Books(r, "pipeline", ending[r], 0, 0, 0)
    <2>1. /\ IsFiniteSet(Retried') /\ Cardinality(Retried') = Cardinality(Retried) + 0
          /\ Counts(breaker', breaker, 0, 0)
      BY QuietStep DEF DropKey
    <2>2. metrics' = metrics
      BY DEF DropKey
    <2> QED BY <1>1, <2>1, <2>2, Numbers DEF Books, Was
  <1>3. Counted'
    BY <1>1, <1>2, BooksBalance DEF DropKey
  <1>4. Types'
    BY <1>1, TypesMove DEF DropKey, tokenVars, Types, TypeOK, Places, Active
  <1> QED BY <1>3, <1>4

\* The two ways a request may end before it asks the breaker.
LEMMA EarlyEndCounts ==
  ASSUME Types, Counted, NEW r \in Requests, pc[r] = "pipeline",
         NEW how \in {"step", "cancelled"}, Ends(r, how), Count("failed"),
         UNCHANGED <<key, attempt, held, tokenVars, breaker, now>>
  PROVE  Types' /\ Counted'
PROOF
  <1>1. Moves(r, "done", how)
    BY DEF Ends, Moves
  <1>2. /\ metrics' = [m \in Metrics |-> metrics'[m]]
        /\ metrics'["failed"] = metrics["failed"] + 1
        /\ \A x \in Metrics \ {"failed"} : metrics'[x] = metrics[x]
    BY CountMetric DEF Metrics
  <1>3. Books(r, "done", how, 0, 0, 0)
    <2>1. /\ IsFiniteSet(Retried') /\ Cardinality(Retried') = Cardinality(Retried) + 0
          /\ Counts(breaker', breaker, 0, 0)
      BY QuietStep
    <2> QED BY <1>1, <1>2, <2>1, Numbers DEF Books, Was, Metrics
  <1>4. Counted'
    BY <1>1, <1>3, BooksBalance
  <1>5. Types'
    BY <1>1, <1>2, TypesMove DEF tokenVars, Types, TypeOK, Places, Active
  <1> QED BY <1>4, <1>5

LEMMA PipelinePassesCounts ==
  ASSUME Types, Counted, NEW r \in Requests, PipelinePasses(r)
  PROVE  Types' /\ Counted'
PROOF
  <1> DEFINE b == SyncState(breaker, BreakerConfig, now)
  <1>1. /\ pc[r] = "pipeline" /\ key[r] \in Keys \cup {NoKey} /\ issued \in Nat
        /\ tokens \in [Keys -> 0..issued] /\ held \in [Requests -> 0..issued]
        /\ breaker \in Breaker /\ now \in Nat
    BY DEF PipelinePasses, Types, TypeOK
  <1>2. Counts(Admitted(b), breaker, 1, 0) /\ Counts(CountRejection(b), breaker, 0, 0)
    BY <1>1, AskCounts, ConfigIsValid
  <1>3. held' \in [Requests -> 0..issued]
    <2> DEFINE token == IF key[r] = NoKey THEN NoToken ELSE tokens[key[r]]
    <2>1. token \in 0..issued
      BY <1>1 DEF NoToken
    <2>2. held' = [held EXCEPT ![r] = token]
      BY DEF PipelinePasses
    <2> HIDE DEF token
    <2> QED BY <1>1, <2>1, <2>2
  <1>4. IsFiniteSet(Retried') /\ Cardinality(Retried') = Cardinality(Retried) + 0
    <2>1. Retried' = Retried
      BY DEF Retried, PipelinePasses
    <2> QED BY <2>1, Numbers DEF Counted
  <1>5. CASE Permitted(b, BreakerConfig)
    <2>1. /\ breaker' = Admitted(b) /\ Moves(r, "calling", ending[r]) /\ metrics' = metrics
          /\ tokens' = tokens
      BY <1>5, Stays DEF PipelinePasses, Moves
    <2> HIDE DEF b
    <2>2. Books(r, "calling", ending[r], 0, 1, 0)
      BY <1>1, <1>2, <1>4, <2>1, Numbers DEF Books, Was
    <2>3. Counted'
      BY <2>1, <2>2, BooksBalance DEF PipelinePasses
    <2>4. breaker' \in Breaker
      BY <1>2, <2>1 DEF Counts
    <2>5. Types'
      BY <1>3, <2>1, <2>4, TypesMove DEF PipelinePasses, Types, TypeOK, Places, Active
    <2> QED BY <2>3, <2>5
  <1>6. CASE ~Permitted(b, BreakerConfig)
    <2>1. /\ breaker' = CountRejection(b) /\ Moves(r, "done", "circuit-open")
          /\ Count("circuitOpen") /\ Delete(key[r])
      BY <1>6 DEF PipelinePasses, Moves, Ends
    <2> HIDE DEF b
    <2>2. /\ metrics' = [m \in Metrics |-> metrics'[m]]
          /\ metrics'["circuitOpen"] = metrics["circuitOpen"] + 1
          /\ \A x \in Metrics \ {"circuitOpen"} : metrics'[x] = metrics[x]
      BY <2>1, CountMetric DEF Metrics
    <2>3. Books(r, "done", "circuit-open", 0, 0, 0)
      BY <1>1, <1>2, <1>4, <2>1, <2>2, Numbers DEF Books, Was, Metrics
    <2>4. Counted'
      BY <2>1, <2>3, BooksBalance DEF PipelinePasses
    <2>5. breaker' \in Breaker
      BY <1>2, <2>1 DEF Counts
    <2>6. tokens' \in [Keys -> 0..issued]
      BY <1>1, <2>1, DeleteToken
    <2>7. Types'
      BY <1>3, <2>1, <2>2, <2>5, <2>6, TypesMove DEF PipelinePasses, Types, TypeOK, Places, Active
    <2> QED BY <2>4, <2>7
  <1> QED BY <1>5, <1>6

\* How an attempt may end: another one follows, or its answer is the request's.
LEMMA CallEndsHow ==
  ASSUME NEW r \in Requests, CallEnds(r)
  PROVE  \E answer \in Answers(r) :
           \/ /\ Retries(r, answer) /\ pc' = [pc EXCEPT ![r] = "sleeping"]
              /\ Count("retried") /\ ending' = ending
           \/ /\ pc' = [pc EXCEPT ![r] = "answered"] /\ ending' = [ending EXCEPT ![r] = answer]
              /\ metrics' = metrics
PROOF
  BY DEF CallEnds

LEMMA CallEndsCounts ==
  ASSUME Types, Counted, NEW r \in Requests, CallEnds(r)
  PROVE  Types' /\ Counted'
PROOF
  <1>1. pc[r] = "calling" /\ UNCHANGED <<key, attempt, held, tokenVars, breaker, now>>
    BY DEF CallEnds
  <1>2. /\ IsFiniteSet(Retried') /\ Cardinality(Retried') = Cardinality(Retried) + 0
        /\ Counts(breaker', breaker, 0, 0)
    BY <1>1, QuietStep
  <1>3. PICK answer \in Answers(r) :
          \/ /\ Retries(r, answer) /\ pc' = [pc EXCEPT ![r] = "sleeping"]
             /\ Count("retried") /\ ending' = ending
          \/ /\ pc' = [pc EXCEPT ![r] = "answered"] /\ ending' = [ending EXCEPT ![r] = answer]
             /\ metrics' = metrics
    BY CallEndsHow
  <1>4. answer \in {"cancelled", "success", "transient", "refused"}
    BY DEF Answers
  <1>5. CASE /\ Retries(r, answer) /\ pc' = [pc EXCEPT ![r] = "sleeping"]
             /\ Count("retried") /\ ending' = ending
    <2>1. Moves(r, "sleeping", ending[r]) /\ attempt'[r] < Attempts
      BY <1>1, <1>5, Stays DEF Moves, Retries
    <2>2. /\ metrics' = [m \in Metrics |-> metrics'[m]]
          /\ metrics'["retried"] = metrics["retried"] + 1
          /\ \A x \in Metrics \ {"retried"} : metrics'[x] = metrics[x]
      BY <1>5, CountMetric DEF Metrics
    <2>3. Books(r, "sleeping", ending[r], 0, 0, 0)
      BY <1>1, <1>2, <2>1, <2>2, Numbers DEF Books, Was, Metrics
    <2>4. Counted'
      BY <1>1, <2>1, <2>3, BooksBalance
    <2>5. Types'
      BY <1>1, <2>1, <2>2, TypesMove DEF tokenVars, Types, TypeOK, Places, Active
    <2> QED BY <2>4, <2>5
  <1>6. CASE /\ pc' = [pc EXCEPT ![r] = "answered"] /\ ending' = [ending EXCEPT ![r] = answer]
             /\ metrics' = metrics
    <2>1. Moves(r, "answered", answer)
      BY <1>6 DEF Moves
    <2>2. Books(r, "answered", answer, 0, 0, 0)
      BY <1>1, <1>2, <1>6, <2>1, Numbers DEF Books, Was
    <2>3. Counted'
      BY <1>1, <1>4, <2>1, <2>2, BooksBalance
    <2>4. Types'
      BY <1>1, <1>6, <2>1, TypesMove DEF tokenVars, Types, TypeOK, Places, Active
    <2> QED BY <2>3, <2>4
  <1> QED BY <1>3, <1>5, <1>6

LEMMA WakeUpCounts ==
  ASSUME Types, Counted, NEW r \in Requests, WakeUp(r)
  PROVE  Types' /\ Counted'
PROOF
  <1> DEFINE x == <<r, attempt[r] + 1>>
  <1>1. /\ pc[r] = "sleeping" /\ Moves(r, "calling", ending[r])
        /\ UNCHANGED <<key, held, tokenVars, metrics, breaker, now>>
    BY Stays DEF WakeUp, Moves
  <1>2. /\ attempt \in [Requests -> 0..Attempts] /\ attempt[r] \in 0..Attempts
        /\ attempt[r] < Attempts /\ Attempts \in Nat
        /\ attempt' = [attempt EXCEPT ![r] = attempt[r] + 1]
    BY <1>1, ClientAssumption DEF WakeUp, Types, TypeOK, Counted
  <1>3. attempt' \in [Requests -> 0..Attempts] /\ attempt'[r] = attempt[r] + 1
    BY <1>2
  <1>4. \A q \in Requests \ {r} : attempt'[q] = attempt[q]
    BY <1>2
  <1>5. x \notin Retried
    BY <1>2 DEF Retried
  <1>6. Retried' = Retried \cup {x}
    <2>1. ASSUME NEW y \in Requests \X (1..Attempts)
          PROVE  y[2] <= attempt'[y[1]] <=> y[2] <= attempt[y[1]] \/ y = x
      <3>1. PICK q \in Requests, n \in 1..Attempts : y = <<q, n>>
        BY <2>1
      <3>2. CASE q = r
        BY <1>2, <1>3, <3>1, <3>2
      <3>3. CASE q # r
        BY <1>4, <3>1, <3>3
      <3> QED BY <3>2, <3>3
    <2>2. x \in Requests \X (1..Attempts)
      BY <1>2
    <2> HIDE DEF x
    <2>3. \A y : y \in Retried' <=> y \in Retried \/ y = x
      BY <2>1, <2>2 DEF Retried
    <2> QED BY <2>3
  <1>7. IsFiniteSet(Retried') /\ Cardinality(Retried') = Cardinality(Retried) + 1
    <2>1. IsFiniteSet(Retried)
      BY DEF Counted
    <2> HIDE DEF x
    <2> QED BY <1>5, <1>6, <2>1, FS_AddElement, Zenon
  <1>8. Counts(breaker', breaker, 0, 0)
    BY <1>1, SomeCounters DEF Types, TypeOK
  <1>9. Books(r, "calling", ending[r], 1, 0, 0)
    BY <1>1, <1>7, <1>8, Numbers DEF Books, Was
  <1>10. Counted'
    BY <1>1, <1>4, <1>9, BooksBalance
  <1>11. Types'
    BY <1>1, <1>3, TypesMove DEF tokenVars, Types, TypeOK, Places, Active
  <1> QED BY <1>10, <1>11

LEMMA ReportCounts ==
  ASSUME Types, Counted, NEW r \in Requests, Report(r)
  PROVE  Types' /\ Counted'
PROOF
  <1> DEFINE m == IF ending[r] = "success" THEN "success" ELSE "failed"
  <1>1. /\ pc[r] = "answered" /\ Moves(r, "done", ending[r]) /\ Count(m) /\ Delete(key[r])
        /\ UNCHANGED <<key, attempt, held, cancelled, issued, now>>
    BY Stays DEF Report, Moves
  <1>2. /\ breaker \in Breaker /\ now \in Nat /\ key[r] \in Keys \cup {NoKey} /\ issued \in Nat
        /\ ending[r] \notin {"circuit-open", "step", "none"}
    BY <1>1 DEF Types, TypeOK, Counted
  <1>3. Counts(breaker', breaker, 0, 1)
    <2>1. BreakerEnding(ending[r]) \in Endings
      BY DEF BreakerEnding, Endings
    <2>2. breaker' = Settle(breaker, BreakerEnding(ending[r]), 0, gen[r], BreakerConfig, now)
      BY DEF Report
    <2> QED BY <1>2, <2>1, <2>2, SettleCounts, ConfigIsValid
  <1>4. IsFiniteSet(Retried') /\ Cardinality(Retried') = Cardinality(Retried) + 0
    <2>1. Retried' = Retried
      BY <1>1 DEF Retried
    <2> QED BY <2>1, Numbers DEF Counted
  <1>5. m \in Metrics /\ (m = "success" <=> ending[r] = "success") /\ m \in {"success", "failed"}
    BY DEF Metrics
  <1> HIDE DEF m
  <1>6. /\ metrics' = [x \in Metrics |-> metrics'[x]]
        /\ metrics'[m] = metrics[m] + 1
        /\ \A x \in Metrics \ {m} : metrics'[x] = metrics[x]
    BY <1>1, <1>5, CountMetric
  <1>7. Books(r, "done", ending[r], 0, 0, 1)
    <2>1. CASE m = "success"
      BY <1>1, <1>3, <1>4, <1>5, <1>6, <2>1, Numbers DEF Books, Was, Metrics
    <2>2. CASE m = "failed"
      BY <1>1, <1>2, <1>3, <1>4, <1>5, <1>6, <2>2, Numbers DEF Books, Was, Metrics
    <2> QED BY <1>5, <2>1, <2>2
  <1>8. Counted'
    BY <1>1, <1>7, BooksBalance
  <1>9. breaker' \in Breaker /\ tokens' \in [Keys -> 0..issued]
    BY <1>1, <1>2, <1>3, DeleteToken DEF Counts
  <1>10. Types'
    BY <1>1, <1>6, <1>9, TypesMove DEF Types, TypeOK, Places, Active
  <1> QED BY <1>8, <1>10

\* Nothing moves but the tokens or the clock.
LEMMA OthersCount ==
  ASSUME Types, Counted,
         \/ \E k \in Keys : CancelRequest(k)
         \/ CancelAll
         \/ Tick
         \/ UNCHANGED vars
  PROVE  Types' /\ Counted'
PROOF
  <1>1. /\ UNCHANGED <<pc, key, attempt, held, ending, breaker, issued>>
        /\ \A x \in Metrics \ {"cancelled"} : metrics'[x] = metrics[x]
        /\ metrics' = [x \in Metrics |-> metrics'[x]]
    <2>1. ASSUME NEW k \in Keys, CancelRequest(k)
          PROVE  /\ UNCHANGED <<pc, key, attempt, held, ending, breaker, issued>>
                 /\ \A x \in Metrics \ {"cancelled"} : metrics'[x] = metrics[x]
                 /\ metrics' = [x \in Metrics |-> metrics'[x]]
      BY <2>1, CountMetric DEF CancelRequest, requestVars, Metrics
    <2>2. CASE CancelAll
      BY <2>2 DEF CancelAll, requestVars, Types
    <2>3. CASE Tick \/ UNCHANGED vars
      BY <2>3 DEF Tick, vars, requestVars, tokenVars, Types
    <2> QED BY <2>1, <2>2, <2>3
  <1>2. Counted'
    <2>1. /\ metrics'["requests"] = metrics["requests"] /\ metrics'["success"] = metrics["success"]
          /\ metrics'["circuitOpen"] = metrics["circuitOpen"]
          /\ metrics'["failed"] = metrics["failed"] /\ metrics'["retried"] = metrics["retried"]
      BY <1>1 DEF Metrics
    <2>2. /\ Started' = Started /\ Retried' = Retried /\ Sleeping' = Sleeping /\ Asking' = Asking
          /\ Failures' = Failures /\ \A x : Done(x)' = Done(x)
      BY <1>1 DEF Started, Retried, Sleeping, Asking, Failures, Done
    <2> QED BY <1>1, <2>1, <2>2 DEF Counted
  <1>3. tokens' \in [Keys -> 0..issued] /\ cancelled' \subseteq 1..issued /\ now' \in Nat
    <2>1. /\ tokens \in [Keys -> 0..issued] /\ cancelled \subseteq 1..issued /\ now \in Nat
          /\ issued \in Nat
      BY DEF Types, TypeOK
    <2>2. ASSUME NEW k \in Keys, CancelRequest(k)
          PROVE  /\ tokens' \in [Keys -> 0..issued] /\ cancelled' \subseteq 1..issued
                 /\ now' \in Nat
      <3>1. tokens' \in [Keys -> 0..issued]
        BY <2>2, DeleteToken DEF CancelRequest
      <3>2. /\ tokens[k] \in 0..issued /\ now' = now
            /\ cancelled' = cancelled \cup ({tokens[k]} \ {NoToken})
        BY <2>1, <2>2 DEF CancelRequest
      <3>3. tokens[k] # NoToken => tokens[k] \in 1..issued
        BY <2>1, <3>2 DEF NoToken
      <3>4. cancelled' \subseteq 1..issued
        BY <2>1, <3>2, <3>3
      <3> QED BY <2>1, <3>1, <3>2, <3>4
    <2>3. CASE CancelAll
      <3>1. /\ tokens' = [k \in Keys |-> NoToken] /\ now' = now
            /\ cancelled' = cancelled \cup ({tokens[k] : k \in Keys} \ {NoToken})
        BY <2>3 DEF CancelAll
      <3>2. \A k \in Keys : tokens[k] # NoToken => tokens[k] \in 1..issued
        BY <2>1 DEF NoToken
      <3>3. cancelled' \subseteq 1..issued
        BY <2>1, <3>1, <3>2
      <3>4. NoToken \in 0..issued
        BY <2>1 DEF NoToken
      <3>5. tokens' \in [Keys -> 0..issued]
        BY <3>1, <3>4
      <3> QED BY <2>1, <3>1, <3>3, <3>5
    <2>4. CASE Tick \/ UNCHANGED vars
      <3>1. tokens' = tokens /\ cancelled' = cancelled /\ now' \in {now, now + 1}
        BY <2>4 DEF Tick, vars, tokenVars
      <3> QED BY <2>1, <3>1
    <2> QED BY <2>2, <2>3, <2>4
  <1>4. Types'
    BY <1>1, <1>3 DEF Types, TypeOK
  <1> QED BY <1>2, <1>4

-----------------------------------------------------------------------------
(* The tokens and the cancellations *)

Live(r) == pc[r] \in Active \cup {"answered"}

\* What nobody touched of q still says the same of its cancellation.
LEMMA AsAskedStays ==
  ASSUME NEW q \in Requests, AsAsked(q),
         pc'[q] = pc[q], key'[q] = key[q], held'[q] = held[q], ending'[q] = ending[q],
         q \in asked' <=> q \in asked, q \in late' <=> q \in late,
         held[q] \in cancelled' <=> held[q] \in cancelled,
         key[q] # NoKey /\ pc[q] \in Active => tokens'[key[q]] = tokens[key[q]]
  PROVE  AsAsked(q)'
PROOF
  BY DEF AsAsked, Active

\* The token of a live request is its own while nobody else has the key, and r may give it up.
LEMMA LiveStep ==
  ASSUME Types, CancelInv, Released, NEW r \in Requests, Live(r),
         \A q \in Requests \ {r} :
           pc'[q] = pc[q] /\ key'[q] = key[q] /\ held'[q] = held[q] /\ ending'[q] = ending[q],
         key'[r] \in {key[r], NoKey},
         UNCHANGED <<asked, late, crowded, cancelled>>, astray \subseteq astray',
         \A l \in Keys : tokens'[l] = tokens[l] \/ (l = key[r] /\ tokens'[l] = NoToken),
         r \notin astray' =>
           /\ key'[r] = key[r]
           /\ Live(r)' \/ (key[r] # NoKey => tokens'[key[r]] = NoToken),
         r \notin crowded \cup astray' => AsAsked(r)'
  PROVE  CancelInv' /\ Released'
PROOF
  <1>1. TokensApart'
    <2>1. NoToken \notin cancelled
      BY DEF Types, TypeOK, NoToken
    <2> QED BY <2>1 DEF CancelInv, TokensApart
  <1>2. \A q, s \in Requests : Together(q, s)' => s \in crowded'
    <2>1. \A q, s \in Requests : Together(q, s) => s \in crowded
      BY DEF CancelInv
    <2>2. \A q, s \in Requests : Together(q, s)' => Together(q, s)
      BY DEF Together, Live
    <2> QED BY <2>1, <2>2
  <1>3. ASSUME NEW q \in Requests \ (crowded' \cup astray')
        PROVE  AsAsked(q)'
    <2>1. CASE q = r
      BY <1>3, <2>1
    <2>2. CASE q # r
      <3>1. AsAsked(q)
        BY <1>3 DEF CancelInv
      <3>2. ~Together(r, q)
        BY <1>3 DEF CancelInv
      <3>3. key[q] # NoKey /\ pc[q] \in Active => key[q] # key[r]
        BY <2>2, <3>2 DEF Together, Live
      <3>4. key[q] # NoKey => key[q] \in Keys
        BY DEF Types, TypeOK
      <3>5. key[q] # NoKey /\ pc[q] \in Active => tokens'[key[q]] = tokens[key[q]]
        BY <3>3, <3>4
      <3> QED BY <2>2, <3>1, <3>5, AsAskedStays
    <2> QED BY <2>1, <2>2
  <1>4. Released'
    <2>1. ASSUME NEW k \in Keys, tokens'[k] # NoToken, astray' = {}
          PROVE  InFlight(k)' # {}
      <3>1. PICK q \in Requests : key[q] = k /\ Live(q)
        <4>1. tokens[k] # NoToken /\ astray = {}
          BY <2>1
        <4> QED BY <4>1 DEF Released, InFlight, Live
      <3>2. key'[q] = k /\ Live(q)'
        <4>1. CASE q = r
          <5>1. key[r] # NoKey
            BY <3>1, <4>1, ClientAssumption
          <5> QED BY <2>1, <3>1, <4>1, <5>1
        <4>2. CASE q # r
          BY <3>1, <4>2 DEF Live
        <4> QED BY <4>1, <4>2
      <3> QED BY <3>2 DEF InFlight, Live
    <2> QED BY <2>1 DEF Released
  <1> QED BY <1>1, <1>2, <1>3, <1>4 DEF CancelInv

LEMMA ExecuteCancel ==
  ASSUME Types, Types', CancelInv, Released, NEW r \in Requests, Execute(r)
  PROVE  CancelInv' /\ Released'
PROOF
  <1>1. /\ pc[r] = "idle" /\ pc'[r] = "pipeline"
        /\ \A q \in Requests \ {r} : pc'[q] = pc[q]
        /\ UNCHANGED <<key, held, ending, cancelled, asked, late, astray>>
        /\ crowded \subseteq crowded'
        /\ key[r] # NoKey /\ InFlight(key[r]) # {} => crowded' = crowded \cup {r} \cup InFlight(key[r])
    BY DEF Execute, Types, TypeOK
  <1>2. /\ issued \in Nat /\ tokens \in [Keys -> 0..issued] /\ cancelled \subseteq 1..issued
        /\ key[r] \in Keys \cup {NoKey} /\ NoKey \notin Keys
    BY ClientAssumption DEF Types, TypeOK
  <1>3. /\ \A l \in Keys \ {key[r]} : tokens'[l] = tokens[l]
        /\ key[r] # NoKey => tokens'[key[r]] = IF tokens[key[r]] # NoToken THEN tokens[key[r]] ELSE issued + 1
    <2>1. CASE key[r] = NoKey
      BY <2>1 DEF Execute
    <2>2. CASE key[r] # NoKey
      BY <1>2, <2>2, NewToken DEF Execute
    <2> QED BY <2>1, <2>2
  <1>4. TokensApart'
    <2>1. issued + 1 \notin cancelled /\ \A l \in Keys : tokens[l] # issued + 1
      BY <1>2
    <2>2. \A l \in Keys : tokens'[l] = tokens[l] \/ (l = key[r] /\ tokens'[l] = issued + 1)
      BY <1>2, <1>3
    <2> QED BY <1>1, <2>1, <2>2 DEF CancelInv, TokensApart
  <1>5. \A q, s \in Requests : Together(q, s)' => s \in crowded'
    <2>1. ASSUME NEW q \in Requests, NEW s \in Requests, Together(q, s)'
          PROVE  s \in crowded'
      <3>1. CASE q # r /\ s # r
        BY <1>1, <2>1, <3>1 DEF CancelInv, Together
      <3>2. CASE q = r \/ s = r
        <4>1. PICK p \in Requests \ {r} : p \in {q, s} /\ key[p] = key[r] /\ key[r] # NoKey /\ Live(p)
          BY <1>1, <2>1, <3>2 DEF Together, Live
        <4>2. p \in InFlight(key[r])
          BY <4>1 DEF InFlight, Live
        <4> QED BY <1>1, <2>1, <3>2, <4>1, <4>2 DEF Together
      <3> QED BY <3>1, <3>2
    <2> QED BY <2>1
  <1>6. ASSUME NEW q \in Requests \ (crowded' \cup astray')
        PROVE  AsAsked(q)'
    <2>1. AsAsked(q)
      BY <1>1, <1>6 DEF CancelInv
    <2>2. CASE q = r
      <3>1. key[r] # NoKey => tokens'[key[r]] # NoToken
        BY <1>2, <1>3 DEF NoToken
      <3> QED BY <1>1, <2>1, <2>2, <3>1 DEF AsAsked
    <2>3. CASE q # r
      <3>1. key[q] # NoKey /\ pc[q] \in Active => key[q] \in Keys \ {key[r]}
        <4>1. SUFFICES ASSUME key[q] # NoKey, pc[q] \in Active, key[q] = key[r]
                       PROVE  FALSE
          BY DEF Types, TypeOK
        <4>2. q \in InFlight(key[r])
          BY <4>1 DEF InFlight
        <4> QED BY <1>1, <1>6, <4>1, <4>2
      <3> QED BY <1>1, <1>3, <2>1, <2>3, <3>1, AsAskedStays
    <2> QED BY <2>2, <2>3
  <1>7. Released'
    <2>1. ASSUME NEW k \in Keys, tokens'[k] # NoToken, astray' = {}
          PROVE  InFlight(k)' # {}
      <3>1. CASE k = key[r]
        BY <1>1, <3>1 DEF InFlight, Active
      <3>2. CASE k # key[r]
        <4>1. PICK q \in Requests : key[q] = k /\ Live(q)
          BY <1>1, <1>3, <2>1, <3>2 DEF Released, InFlight, Live
        <4>2. key'[q] = k /\ Live(q)'
          BY <1>1, <3>2, <4>1 DEF Live
        <4> QED BY <4>2 DEF InFlight, Live
      <3> QED BY <3>1, <3>2
    <2> QED BY <2>1 DEF Released
  <1> QED BY <1>4, <1>5, <1>6, <1>7 DEF CancelInv

LEMMA DropKeyCancel ==
  ASSUME Types, CancelInv, Released, NEW r \in Requests, DropKey(r)
  PROVE  CancelInv' /\ Released'
PROOF
  <1>1. /\ Live(r) /\ key'[r] = NoKey
        /\ \A q \in Requests \ {r} : key'[q] = key[q]
        /\ UNCHANGED <<pc, held, ending, tokens, cancelled, asked, late, crowded>>
        /\ astray' = astray \cup {r}
    BY DEF DropKey, Live, Active, tokenVars, Types, TypeOK
  <1> QED BY <1>1, LiveStep

LEMMA PipelineFailsCancel ==
  ASSUME Types, CancelInv, Released, NEW r \in Requests, PipelineFails(r)
  PROVE  CancelInv' /\ Released'
PROOF
  <1>1. /\ Live(r) /\ UNCHANGED <<key, held, tokens, cancelled, asked, late, crowded>>
        /\ \A q \in Requests \ {r} : pc'[q] = pc[q] /\ ending'[q] = ending[q]
        /\ astray' = astray \cup {r}
    BY DEF PipelineFails, Ends, Live, Active, tokenVars, Types, TypeOK
  <1> QED BY <1>1, LiveStep

LEMMA PipelineCancelledCancel ==
  ASSUME Types, CancelInv, Released, NEW r \in Requests, PipelineCancelled(r)
  PROVE  CancelInv' /\ Released'
PROOF
  <1>1. /\ pc[r] = "pipeline" /\ UNCHANGED <<key, held, tokens, cancelled, asked, late, crowded, astray>>
        /\ key[r] # NoKey /\ tokens[key[r]] = NoToken
    BY DEF PipelineCancelled, BailOut, tokenVars, history
  <1>2. /\ pc'[r] = "done" /\ ending'[r] = "cancelled"
        /\ \A q \in Requests \ {r} : pc'[q] = pc[q] /\ ending'[q] = ending[q]
    <2>1. Moves(r, "done", "cancelled")
      BY DEF PipelineCancelled, Ends, Moves
    <2> QED BY <2>1, Moved
  <1>3. r \notin crowded \cup astray => AsAsked(r)'
    BY <1>1, <1>2 DEF CancelInv, AsAsked
  <1>4. Live(r)
    BY <1>1 DEF Live, Active
  <1> QED BY <1>1, <1>2, <1>3, <1>4, LiveStep

LEMMA PipelinePassesCancel ==
  ASSUME Types, CancelInv, Released, NEW r \in Requests, PipelinePasses(r)
  PROVE  CancelInv' /\ Released'
PROOF
  <1> DEFINE token == IF key[r] = NoKey THEN NoToken ELSE tokens[key[r]]
             permitted == Permitted(SyncState(breaker, BreakerConfig, now), BreakerConfig)
  <1>1. /\ pc[r] = "pipeline" /\ UNCHANGED <<key, cancelled, asked, late, crowded, astray>>
        /\ key[r] \in Keys \cup {NoKey} /\ NoKey \notin Keys
        /\ held' = [held EXCEPT ![r] = token]
        /\ key[r] # NoKey => tokens[key[r]] # NoToken
    BY ClientAssumption DEF PipelinePasses, BailOut, history, Types, TypeOK
  <1>2. held'[r] = token /\ \A q \in Requests \ {r} : held'[q] = held[q]
    BY <1>1 DEF Types, TypeOK
  <1>3. /\ key[r] = NoKey => token = NoToken
        /\ key[r] # NoKey => token = tokens[key[r]] /\ token # NoToken /\ token \notin cancelled
    BY <1>1 DEF CancelInv, TokensApart
  <1>4. Live(r)
    BY <1>1 DEF Live, Active
  <1>5. \/ permitted /\ Moves(r, "calling", ending[r]) /\ tokens' = tokens
        \/ ~permitted /\ Moves(r, "done", "circuit-open") /\ Delete(key[r])
    BY Stays DEF PipelinePasses, Moves, Ends
  <1> HIDE DEF token, permitted
  <1>6. CASE Moves(r, "calling", ending[r]) /\ tokens' = tokens
    <2>1. /\ pc'[r] = "calling" /\ ending'[r] = ending[r]
          /\ \A q \in Requests \ {r} : pc'[q] = pc[q] /\ ending'[q] = ending[q]
      BY <1>6, Moved
    <2>2. r \notin crowded \cup astray => AsAsked(r)'
      BY <1>1, <1>2, <1>3, <1>6, <2>1 DEF CancelInv, AsAsked
    <2>3. Live(r)'
      BY <2>1 DEF Live, Active
    <2> QED BY <1>1, <1>2, <1>4, <1>6, <2>1, <2>2, <2>3, LiveStep
  <1>7. CASE Moves(r, "done", "circuit-open") /\ Delete(key[r])
    <2>1. /\ pc'[r] = "done" /\ ending'[r] = "circuit-open"
          /\ \A q \in Requests \ {r} : pc'[q] = pc[q] /\ ending'[q] = ending[q]
      BY <1>7, Moved
    <2>2. r \notin crowded \cup astray => AsAsked(r)'
      BY <1>1, <1>2, <1>3, <2>1 DEF CancelInv, AsAsked
    <2>3. \A l \in Keys : tokens'[l] = IF l = key[r] THEN NoToken ELSE tokens[l]
      BY <1>1, <1>7, DeleteToken
    <2> QED BY <1>1, <1>2, <1>4, <2>1, <2>2, <2>3, LiveStep
  <1> QED BY <1>5, <1>6, <1>7

LEMMA CallEndsCancel ==
  ASSUME Types, CancelInv, Released, NEW r \in Requests, CallEnds(r)
  PROVE  CancelInv' /\ Released'
PROOF
  <1>1. /\ pc[r] = "calling" /\ Live(r) /\ UNCHANGED <<key, held, tokens, cancelled, asked, late, crowded, astray>>
    BY DEF CallEnds, Live, Active, tokenVars, history
  <1>2. PICK answer \in Answers(r) :
          \/ Moves(r, "sleeping", ending[r])
          \/ Moves(r, "answered", answer)
    BY CallEndsHow, Stays DEF Moves
  <1>3. NoToken \notin cancelled
    BY DEF Types, TypeOK, NoToken
  <1>4. CASE Moves(r, "sleeping", ending[r])
    <2>1. /\ pc'[r] = "sleeping" /\ ending'[r] = ending[r]
          /\ \A q \in Requests \ {r} : pc'[q] = pc[q] /\ ending'[q] = ending[q]
      BY <1>4, Moved
    <2>2. r \notin crowded \cup astray => AsAsked(r)'
      BY <1>1, <2>1 DEF CancelInv, AsAsked
    <2>3. Live(r)'
      BY <2>1 DEF Live, Active
    <2> QED BY <1>1, <2>1, <2>2, <2>3, LiveStep
  <1>5. CASE Moves(r, "answered", answer)
    <2>1. /\ pc'[r] = "answered" /\ ending'[r] = answer
          /\ \A q \in Requests \ {r} : pc'[q] = pc[q] /\ ending'[q] = ending[q]
      BY <1>5, Moved
    <2>2. answer = "cancelled" <=> held[r] \in cancelled
      BY DEF Answers
    <2>3. r \notin crowded \cup astray => AsAsked(r)'
      BY <1>1, <1>3, <2>1, <2>2 DEF CancelInv, AsAsked
    <2>4. Live(r)'
      BY <2>1 DEF Live
    <2> QED BY <1>1, <2>1, <2>3, <2>4, LiveStep
  <1> QED BY <1>2, <1>4, <1>5

LEMMA WakeUpCancel ==
  ASSUME Types, CancelInv, Released, NEW r \in Requests, WakeUp(r)
  PROVE  CancelInv' /\ Released'
PROOF
  <1>1. /\ pc[r] = "sleeping" /\ Live(r) /\ pc'[r] = "calling" /\ Live(r)'
        /\ \A q \in Requests \ {r} : pc'[q] = pc[q]
        /\ UNCHANGED <<key, held, ending, tokens, cancelled, asked, late, crowded, astray>>
    BY DEF WakeUp, Live, Active, tokenVars, history, Types, TypeOK
  <1>2. r \notin crowded \cup astray => AsAsked(r)'
    BY <1>1 DEF CancelInv, AsAsked
  <1> QED BY <1>1, <1>2, LiveStep

LEMMA ReportCancel ==
  ASSUME Types, CancelInv, Released, NEW r \in Requests, Report(r)
  PROVE  CancelInv' /\ Released'
PROOF
  <1>1. /\ pc[r] = "answered" /\ Live(r) /\ pc'[r] = "done"
        /\ \A q \in Requests \ {r} : pc'[q] = pc[q]
        /\ UNCHANGED <<key, held, ending, cancelled, asked, late, crowded, astray>>
        /\ Delete(key[r]) /\ key[r] \in Keys \cup {NoKey} /\ NoKey \notin Keys
    BY ClientAssumption DEF Report, Live, history, Types, TypeOK
  <1>2. \A l \in Keys : tokens'[l] = IF l = key[r] THEN NoToken ELSE tokens[l]
    BY <1>1, DeleteToken
  <1>3. r \notin crowded \cup astray => AsAsked(r)'
    BY <1>1 DEF CancelInv, AsAsked
  <1> QED BY <1>1, <1>2, <1>3, LiveStep

\* A cancellation takes the tokens of some keys, and everybody in flight who has one of them
\* was asked for.
LEMMA KeysCancelled ==
  ASSUME Types, Types', CancelInv, Released, NEW K \in SUBSET Keys,
         UNCHANGED <<pc, key, held, ending, crowded, astray>>,
         cancelled' = cancelled \cup ({tokens[k] : k \in K} \ {NoToken}),
         \A k \in Keys : tokens'[k] = IF k \in K THEN NoToken ELSE tokens[k],
         Asks({r \in Requests : key[r] \in K /\ Live(r)})
  PROVE  CancelInv' /\ Released'
PROOF
  <1>1. NoToken \notin cancelled /\ NoToken \notin cancelled'
    BY DEF Types, TypeOK, NoToken
  <1>2. TokensApart'
    <2>1. ASSUME NEW k \in Keys
          PROVE  tokens'[k] \notin cancelled'
      <3>1. CASE k \in K
        BY <1>1, <3>1
      <3>2. CASE k \notin K /\ tokens[k] # NoToken
        <4>1. \A l \in K : tokens[l] # tokens[k]
          BY <3>2 DEF CancelInv, TokensApart
        <4> QED BY <3>2, <4>1 DEF CancelInv, TokensApart
      <3>3. CASE k \notin K /\ tokens[k] = NoToken
        BY <1>1, <3>3
      <3> QED BY <3>1, <3>2, <3>3
    <2>2. \A k, l \in Keys : tokens'[k] # NoToken /\ tokens'[k] = tokens'[l] => k = l
      BY DEF CancelInv, TokensApart
    <2> QED BY <2>1, <2>2 DEF TokensApart
  <1>3. \A q, r \in Requests : Together(q, r)' => r \in crowded'
    BY DEF CancelInv, Together
  <1>4. ASSUME NEW r \in Requests \ (crowded' \cup astray')
        PROVE  AsAsked(r)'
    <2>1. AsAsked(r) /\ key[r] \in Keys \cup {NoKey} /\ NoKey \notin Keys
      BY <1>4, ClientAssumption DEF CancelInv, Types, TypeOK
    <2>2. CASE key[r] \in K /\ pc[r] \in Active
      <3>1. r \in asked' /\ tokens'[key[r]] = NoToken /\ r \notin late'
        BY <1>4, <2>1, <2>2 DEF Asks, Live, AsAsked, Active
      <3>2. ASSUME pc[r] \in {"calling", "sleeping"}
            PROVE  held[r] # NoToken /\ held[r] \in cancelled'
        <4>1. /\ held[r] # NoToken
              /\ held[r] \in cancelled \/ tokens[key[r]] = held[r]
          BY <2>1, <2>2, <3>2 DEF AsAsked
        <4> QED BY <2>2, <4>1
      <3> QED BY <2>1, <2>2, <3>1, <3>2 DEF AsAsked, Active
    <2>3. CASE key[r] \in K /\ pc[r] = "answered"
      <3>1. r \in asked' /\ (r \in late' <=> r \in late \/ r \notin asked)
        BY <2>3 DEF Asks, Live
      <3>2. key[r] # NoKey
        BY <2>1, <2>3
      <3> QED BY <2>1, <2>3, <3>1, <3>2 DEF AsAsked
    <2>4. CASE ~(key[r] \in K /\ Live(r))
      <3>1. (r \in asked' <=> r \in asked) /\ (r \in late' <=> r \in late)
        BY <2>4 DEF Asks
      <3>2. key[r] # NoKey /\ pc[r] \in Active => tokens'[key[r]] = tokens[key[r]]
        BY <2>1, <2>4 DEF Live
      <3>3. ASSUME pc[r] \in {"calling", "sleeping"}, key[r] # NoKey
            PROVE  held[r] \in cancelled' <=> held[r] \in cancelled
        <4>1. /\ held[r] # NoToken
              /\ held[r] \in cancelled \/ tokens[key[r]] = held[r]
          BY <2>1, <3>3 DEF AsAsked
        <4>2. CASE tokens[key[r]] = held[r]
          <5>1. \A k \in K : tokens[k] # held[r]
            BY <2>1, <2>4, <3>3, <4>1, <4>2 DEF CancelInv, TokensApart, Active, Live
          <5> QED BY <5>1
        <4> QED BY <4>1, <4>2
      <3> QED BY <2>1, <3>1, <3>2, <3>3 DEF AsAsked, Active
    <2> QED BY <2>2, <2>3, <2>4 DEF Live
  <1>5. Released'
    BY DEF Released, InFlight
  <1> QED BY <1>2, <1>3, <1>4, <1>5 DEF CancelInv

LEMMA CancelRequestCancel ==
  ASSUME Types, Types', CancelInv, Released, NEW k \in Keys, CancelRequest(k)
  PROVE  CancelInv' /\ Released'
PROOF
  <1>1. /\ UNCHANGED <<pc, key, held, ending, crowded, astray>>
        /\ cancelled' = cancelled \cup ({tokens[l] : l \in {k}} \ {NoToken})
    BY DEF CancelRequest, requestVars
  <1>2. \A l \in Keys : tokens'[l] = IF l \in {k} THEN NoToken ELSE tokens[l]
    BY DeleteToken DEF CancelRequest
  <1>3. Asks({r \in Requests : key[r] \in {k} /\ Live(r)})
    <2>1. InFlight(k) = {r \in Requests : key[r] \in {k} /\ Live(r)}
      BY DEF InFlight, Live
    <2> QED BY <2>1 DEF CancelRequest
  <1> QED BY <1>1, <1>2, <1>3, KeysCancelled

LEMMA CancelAllCancel ==
  ASSUME Types, Types', CancelInv, Released, CancelAll
  PROVE  CancelInv' /\ Released'
PROOF
  <1>1. /\ UNCHANGED <<pc, key, held, ending, crowded, astray>>
        /\ cancelled' = cancelled \cup ({tokens[k] : k \in Keys} \ {NoToken})
        /\ \A k \in Keys : tokens'[k] = NoToken
    BY DEF CancelAll, requestVars
  <1>2. Asks({r \in Requests : key[r] \in Keys /\ Live(r)})
    <2>1. UNION {InFlight(k) : k \in Keys} = {r \in Requests : key[r] \in Keys /\ Live(r)}
      BY DEF InFlight, Live
    <2> QED BY <2>1 DEF CancelAll
  <1> QED BY <1>1, <1>2, KeysCancelled

-----------------------------------------------------------------------------
(* The invariant *)

LEMMA ClientStarts == Init => ClientInv
PROOF
  <1> SUFFICES ASSUME Init
               PROVE  ClientInv
    OBVIOUS
  <1>1. Attempts \in Nat /\ NoKey \notin Keys
    BY ClientAssumption
  <1>2. breaker \in Breaker /\ breaker.counters = NoCalls
    BY DEF Init, NewBreaker, NoCalls, Breaker, Counters, States, Outcomes, NoTime
  <1>3. Types
    BY <1>1, <1>2 DEF Init, Types, TypeOK, NoToken
  <1>4. Counted
    <2>1. /\ Started = {} /\ Sleeping = {} /\ Asking = {} /\ Failures = {}
          /\ Done("success") = {} /\ Done("circuit-open") = {}
      BY DEF Init, Started, Sleeping, Asking, Failures, Done
    <2>2. Retried = {}
      <3>1. \A r \in Requests, n \in 1..Attempts : ~(n <= attempt[r])
        BY <1>1 DEF Init
      <3> QED BY <3>1 DEF Retried
    <2>3. IsFiniteSet({}) /\ Cardinality({}) = 0
      BY FS_EmptySet
    <2>4. /\ breaker.counters.totalCalls = 0
          /\ breaker.counters.successfulCalls = 0 /\ breaker.counters.failedCalls = 0
      BY <1>2 DEF NoCalls
    <2>5. /\ metrics["requests"] = 0 /\ metrics["success"] = 0 /\ metrics["circuitOpen"] = 0
          /\ metrics["failed"] = 0 /\ metrics["retried"] = 0
      BY DEF Init, Metrics
    <2>6. \A r \in Requests : pc[r] = "idle"
      BY DEF Init
    <2> QED BY <2>1, <2>2, <2>3, <2>4, <2>5, <2>6 DEF Counted
  <1>5. CancelInv
    BY DEF Init, CancelInv, TokensApart, Together, AsAsked, NoToken, Active
  <1>6. Released
    BY DEF Init, Released
  <1> QED BY <1>3, <1>4, <1>5, <1>6 DEF ClientInv

LEMMA ClientSteps == ClientInv /\ [Next]_vars => ClientInv'
PROOF
  <1> SUFFICES ASSUME Types, Counted, CancelInv, Released, [Next]_vars
               PROVE  Types' /\ Counted' /\ CancelInv' /\ Released'
    BY DEF ClientInv
  <1>1. ASSUME NEW r \in Requests, RequestStep(r)
        PROVE  Types' /\ Counted' /\ CancelInv' /\ Released'
    <2>1. CASE Execute(r)
      BY <2>1, ExecuteCounts, ExecuteCancel
    <2>2. CASE DropKey(r)
      BY <2>2, DropKeyCounts, DropKeyCancel
    <2>3. CASE PipelineFails(r)
      <3>1. Types' /\ Counted'
        BY <2>3, EarlyEndCounts DEF PipelineFails
      <3> QED BY <2>3, <3>1, PipelineFailsCancel
    <2>4. CASE PipelineCancelled(r)
      <3>1. Types' /\ Counted'
        BY <2>4, EarlyEndCounts DEF PipelineCancelled
      <3> QED BY <2>4, <3>1, PipelineCancelledCancel
    <2>5. CASE PipelinePasses(r)
      BY <2>5, PipelinePassesCounts, PipelinePassesCancel
    <2>6. CASE CallEnds(r)
      BY <2>6, CallEndsCounts, CallEndsCancel
    <2>7. CASE WakeUp(r)
      BY <2>7, WakeUpCounts, WakeUpCancel
    <2>8. CASE Report(r)
      BY <2>8, ReportCounts, ReportCancel
    <2> QED BY <1>1, <2>1, <2>2, <2>3, <2>4, <2>5, <2>6, <2>7, <2>8 DEF RequestStep
  <1>2. ASSUME NEW k \in Keys, CancelRequest(k)
        PROVE  Types' /\ Counted' /\ CancelInv' /\ Released'
    <2>1. Types' /\ Counted'
      BY <1>2, OthersCount
    <2> QED BY <1>2, <2>1, CancelRequestCancel
  <1>3. CASE CancelAll
    <2>1. Types' /\ Counted'
      BY <1>3, OthersCount
    <2> QED BY <1>3, <2>1, CancelAllCancel
  <1>4. CASE Tick \/ UNCHANGED vars
    <2>1. Types' /\ Counted'
      BY <1>4, OthersCount
    <2>2. UNCHANGED <<pc, key, held, ending, tokens, cancelled, asked, late, crowded, astray>>
      BY <1>4 DEF Tick, vars, requestVars, tokenVars, history
    <2>3. \A r \in Requests : AsAsked(r) => AsAsked(r)'
      BY <2>2, AsAskedStays
    <2>4. CancelInv'
      BY <2>2, <2>3 DEF CancelInv, TokensApart, Together
    <2>5. Released'
      BY <2>2 DEF Released, InFlight
    <2> QED BY <2>1, <2>4, <2>5
  <1> QED BY <1>1, <1>2, <1>3, <1>4 DEF Next

LEMMA ClientInvariant == Spec => []ClientInv
PROOF
  BY ClientStarts, ClientSteps, PTL DEF Spec

-----------------------------------------------------------------------------
(* The theorems *)

\* Who has started is in flight, or is counted as what its Result says.
LEMMA StartedIsInFlightOrDone ==
  ASSUME Types, Counted
  PROVE  Cardinality(Started) = Cardinality(Flying) + Cardinality(Done("success"))
                              + Cardinality(Failures) + Cardinality(Done("circuit-open"))
PROOF
  <1> DEFINE A == Flying \cup Done("success")
             B == Failures \cup Done("circuit-open")
  <1>1. /\ IsFiniteSet(Flying) /\ IsFiniteSet(Failures)
        /\ IsFiniteSet(Done("success")) /\ IsFiniteSet(Done("circuit-open"))
    BY SomeStarted
  <1>2. /\ Cardinality(Flying) \in Nat /\ Cardinality(Failures) \in Nat
        /\ Cardinality(Done("success")) \in Nat /\ Cardinality(Done("circuit-open")) \in Nat
    BY <1>1, FS_CardinalityType
  <1>3. IsFiniteSet(A) /\ Cardinality(A) = Cardinality(Flying) + Cardinality(Done("success"))
    <2>1. Flying \cap Done("success") = {}
      BY DEF Flying, Done, Active
    <2> QED BY <1>1, <1>2, <2>1, DisjointUnion
  <1>4. IsFiniteSet(B) /\ Cardinality(B) = Cardinality(Failures) + Cardinality(Done("circuit-open"))
    <2>1. Failures \cap Done("circuit-open") = {}
      BY DEF Failures, Done
    <2> QED BY <1>1, <1>2, <2>1, DisjointUnion
  <1>5. Started = A \cup B
    <2>1. \A r \in Requests : pc[r] \in Active \cup {"idle", "answered", "done"}
      BY DEF Types, TypeOK
    <2> QED BY <2>1 DEF Started, Flying, Done, Failures, Active
  <1>6. A \cap B = {}
    BY DEF Flying, Done, Failures, Active
  <1> HIDE DEF A, B
  <1>7. Cardinality(Started) = Cardinality(A) + Cardinality(B)
    BY <1>3, <1>4, <1>5, <1>6, DisjointUnion
  <1> QED BY <1>2, <1>3, <1>4, <1>7

\* getMetrics() and the breaker agree with what the requests did, whatever their number: each
\* is in flight or counted once, each retry is counted, and the breaker hears of each request
\* it let through once, never once an attempt (http-client.ts:132-204).
THEOREM RequestsCountedOnce == Spec => []EachCountedOnce
PROOF
  <1>1. ClientInv => EachCountedOnce
    <2> SUFFICES ASSUME Types, Counted
                 PROVE  EachCountedOnce
      BY DEF ClientInv
    <2>1. metrics["requests"] = Cardinality(Flying) + metrics["success"]
                              + metrics["failed"] + metrics["circuitOpen"]
      BY StartedIsInFlightOrDone DEF Counted
    <2>2. breaker.counters.totalCalls
            - (breaker.counters.successfulCalls + breaker.counters.failedCalls) = Cardinality(Asking)
      <3>1. Cardinality(Asking) \in Nat /\ Heard(breaker) \in Nat
        BY Numbers
      <3>2. breaker.counters.totalCalls = Heard(breaker) + Cardinality(Asking)
        BY DEF Counted, Heard
      <3>3. breaker.counters.totalCalls - Heard(breaker) = Cardinality(Asking)
        BY <3>1, <3>2
      <3> QED BY <3>3 DEF Heard
    <2> QED BY <2>1, <2>2 DEF Counted, EachCountedOnce, Started, Sleeping
  <1> QED BY <1>1, ClientInvariant, PTL

\* A request that had its key to itself is cancelled only if somebody asked for it before axios
\* answered, and then never succeeds, whether it was in the pipeline, on the network or asleep
\* between two attempts (cancel-manager.ts, http-client.ts:132-204).
THEOREM CancellationsAreAsked == Spec => []CancelledAsAsked
PROOF
  <1>1. ClientInv => CancelledAsAsked
    BY DEF ClientInv, CancelInv, AsAsked, CancelledAsAsked, Active
  <1> QED BY <1>1, ClientInvariant, PTL

\* A key stays registered only while a request with it is in flight, or after a pipeline step
\* failed or dropped the key of one: the map of tokens does not grow otherwise
\* (cancel-manager.ts, http-client.ts:132-204).
THEOREM TokensAreReleased == Spec => []TokensReleased
PROOF
  <1>1. ClientInv => TokensReleased
    BY DEF ClientInv, Types, Released, TokensReleased
  <1> QED BY <1>1, ClientInvariant, PTL

-----------------------------------------------------------------------------
(* Sequences without repetition *)

Distinct(n) == {s \in Seq(1..n) : IsInjective(s)}

LEMMA DistinctIs ==
  ASSUME NEW n \in Nat, NEW s \in Distinct(n)
  PROVE  /\ s \in Seq(1..n) /\ Len(s) \in Nat /\ DOMAIN s = 1..Len(s)
         /\ \A i, j \in 1..Len(s) : s[i] = s[j] => i = j
         /\ ToSet(s) = {s[i] : i \in 1..Len(s)} /\ ToSet(s) \subseteq 1..n
PROOF
  <1>1. s \in Seq(1..n) /\ IsInjective(s)
    BY DEF Distinct
  <1>2. Len(s) \in Nat /\ DOMAIN s = 1..Len(s) /\ \A i \in 1..Len(s) : s[i] \in 1..n
    BY <1>1
  <1>3. ToSet(s) = {s[i] : i \in 1..Len(s)}
    BY <1>2 DEF ToSet
  <1>4. \A i, j \in 1..Len(s) : s[i] = s[j] => i = j
    BY <1>1, <1>2 DEF IsInjective
  <1> QED BY <1>1, <1>2, <1>3, <1>4

LEMMA ToDistinct ==
  ASSUME NEW n \in Nat, NEW s \in Seq(1..n), \A i, j \in 1..Len(s) : s[i] = s[j] => i = j
  PROVE  s \in Distinct(n) /\ ToSet(s) = {s[i] : i \in 1..Len(s)}
PROOF
  <1>1. DOMAIN s = 1..Len(s)
    OBVIOUS
  <1>2. IsInjective(s)
    BY <1>1 DEF IsInjective
  <1> QED BY <1>1, <1>2 DEF Distinct, ToSet

LEMMA NoneDistinct ==
  ASSUME NEW n \in Nat
  PROVE  <<>> \in Distinct(n) /\ ToSet(<<>>) = {} /\ Len(<<>>) = 0
PROOF
  BY DEF Distinct, IsInjective, ToSet

LEMMA MoreDistinct ==
  ASSUME NEW n \in Nat, NEW s \in Distinct(n)
  PROVE  s \in Distinct(n + 1)
PROOF
  <1>1. \A i \in 1..n : i \in 1..(n + 1)
    OBVIOUS
  <1>2. s \in Seq(1..n) /\ \A i, j \in 1..Len(s) : s[i] = s[j] => i = j
    BY DistinctIs
  <1>3. \A i \in 1..Len(s) : s[i] \in 1..(n + 1)
    BY <1>1, <1>2
  <1>4. s \in Seq(1..(n + 1))
    BY <1>2, <1>3
  <1> QED BY <1>2, <1>4, ToDistinct

LEMMA Cut ==
  ASSUME NEW n \in Nat, NEW s \in Distinct(n), NEW k \in Nat
  PROVE  /\ Prefix(s, k) \in Distinct(n) /\ Suffix(s, k) \in Distinct(n)
         /\ Len(Prefix(s, k)) <= k /\ Len(Suffix(s, k)) <= Len(s)
         /\ ToSet(s) = ToSet(Prefix(s, k)) \cup ToSet(Suffix(s, k))
         /\ ToSet(Prefix(s, k)) \cap ToSet(Suffix(s, k)) = {}
PROOF
  <1> DEFINE m == IF Len(s) < k THEN Len(s) ELSE k
             p == Prefix(s, k)
             q == Suffix(s, k)
  <1>1. /\ s \in Seq(1..n) /\ Len(s) \in Nat
        /\ \A i, j \in 1..Len(s) : s[i] = s[j] => i = j
        /\ ToSet(s) = {s[i] : i \in 1..Len(s)}
    BY DistinctIs
  <1>2. /\ m \in Nat /\ m <= Len(s) /\ m <= k /\ (m < k => m = Len(s))
        /\ \A i \in 1..m : i \in 1..Len(s)
    BY <1>1
  <1>3. /\ p \in Seq(1..n) /\ Len(p) = m
        /\ \A i \in 1..m : p[i] = s[i]
    BY <1>1, <1>2 DEF Prefix
  <1>4. /\ q \in Seq(1..n) /\ Len(q) = Len(s) - m
        /\ \A i \in 1..(Len(s) - m) : q[i] = s[i + m] /\ i + m \in 1..Len(s)
    <2>1. q = SubSeq(s, m + 1, Len(s))
      <3>1. CASE m = k
        BY <3>1 DEF Suffix
      <3>2. CASE m < k
        <4>1. m = Len(s) /\ k + 1 > Len(s) /\ m + 1 > Len(s) /\ k + 1 \in Int /\ m + 1 \in Int
          BY <1>1, <1>2, <3>2
        <4>2. \A a \in Int : a > Len(s) => SubSeq(s, a, Len(s)) = <<>>
          BY <1>1
        <4>3. q = <<>> /\ SubSeq(s, m + 1, Len(s)) = <<>>
          BY <4>1, <4>2 DEF Suffix
        <4> QED BY <4>3
      <3> QED BY <1>2, <3>1, <3>2
    <2> HIDE DEF m, q
    <2> QED BY <1>1, <1>2, <2>1
  <1> HIDE DEF m, p, q
  <1>5. p \in Distinct(n) /\ ToSet(p) = {p[i] : i \in 1..m}
    <2>1. \A i, j \in 1..Len(p) : p[i] = p[j] => i = j
      BY <1>1, <1>2, <1>3
    <2> QED BY <1>3, <2>1, ToDistinct
  <1>6. q \in Distinct(n) /\ ToSet(q) = {q[i] : i \in 1..(Len(s) - m)}
    <2>1. ASSUME NEW i \in 1..Len(q), NEW j \in 1..Len(q), q[i] = q[j]
          PROVE  i = j
      <3>1. i + m = j + m
        BY <1>1, <1>4, <2>1
      <3> QED BY <1>2, <1>4, <3>1
    <2> QED BY <1>4, <2>1, ToDistinct
  <1>7. ASSUME NEW e
        PROVE  e \in ToSet(s) <=> e \in ToSet(p) \/ e \in ToSet(q)
    <2>1. ASSUME NEW i \in 1..Len(s)
          PROVE  s[i] \in ToSet(p) \/ s[i] \in ToSet(q)
      <3>1. CASE i <= m
        BY <1>2, <1>3, <1>5, <3>1
      <3>2. CASE ~(i <= m)
        <4>1. i - m \in 1..(Len(s) - m) /\ (i - m) + m = i
          BY <1>1, <1>2, <3>2
        <4> QED BY <1>4, <1>6, <4>1
      <3> QED BY <3>1, <3>2
    <2>2. ASSUME NEW i \in 1..m
          PROVE  p[i] \in ToSet(s)
      BY <1>1, <1>2, <1>3
    <2>3. ASSUME NEW i \in 1..(Len(s) - m)
          PROVE  q[i] \in ToSet(s)
      <3>1. i + m \in 1..Len(s)
        BY <1>1, <1>2
      <3> QED BY <1>1, <1>4, <3>1
    <2> QED BY <1>1, <1>5, <1>6, <2>1, <2>2, <2>3
  <1>8. ToSet(p) \cap ToSet(q) = {}
    <2>1. ASSUME NEW i \in 1..m, NEW j \in 1..(Len(s) - m)
          PROVE  p[i] # q[j]
      <3>1. j + m \in 1..Len(s) /\ i \in 1..Len(s) /\ i # j + m
        BY <1>1, <1>2
      <3> QED BY <1>1, <1>3, <1>4, <3>1
    <2> QED BY <1>5, <1>6, <2>1
  <1>9. Len(p) <= k /\ Len(q) <= Len(s)
    BY <1>1, <1>2, <1>3, <1>4
  <1>10. ToSet(s) = ToSet(p) \cup ToSet(q)
    BY <1>7
  <1> QED BY <1>5, <1>6, <1>8, <1>9, <1>10 DEF p, q

LEMMA Kept ==
  ASSUME NEW n \in Nat, NEW s \in Distinct(n), NEW S
  PROVE  /\ Only(s, S) \in Distinct(n) /\ Len(Only(s, S)) <= Len(s)
         /\ ToSet(Only(s, S)) = ToSet(s) \cap S
PROOF
  <1> DEFINE o == Only(s, S)
             At(k) == PlaceOf(s, S, k)
  <1>1. /\ s \in Seq(1..n) /\ Len(s) \in Nat
        /\ \A i, j \in 1..Len(s) : s[i] = s[j] => i = j
        /\ ToSet(s) = {s[i] : i \in 1..Len(s)}
    BY DistinctIs
  <1>2. /\ o \in Seq(1..n)
        /\ \A k \in 1..Len(o) : At(k) \in 1..Len(s) /\ o[k] = s[At(k)] /\ o[k] \in S
    BY <1>1, OnlyKeeps
  <1>3. /\ \A i \in 1..Len(s) : s[i] \in S => \E k \in 1..Len(o) : o[k] = s[i]
        /\ \A k, l \in 1..Len(o) : At(k) = At(l) => k = l
    BY <1>1, OnlyOnce
  <1>4. Len(o) <= Len(s)
    <2>1. 0 \in 0..Len(s) /\ \A i \in 1..0 : s[i] \notin S
      BY <1>1
    <2>2. Len(o) <= Len(s) - 0
      BY <1>1, <2>1, OnlyDrops
    <2> QED BY <1>1, <2>2
  <1> HIDE DEF o, At
  <1>5. \A k, l \in 1..Len(o) : o[k] = o[l] => k = l
    <2> SUFFICES ASSUME NEW k \in 1..Len(o), NEW l \in 1..Len(o), o[k] = o[l]
                 PROVE  k = l
      OBVIOUS
    <2>1. At(k) = At(l)
      BY <1>1, <1>2
    <2> QED BY <1>3, <2>1
  <1>6. o \in Distinct(n) /\ ToSet(o) = {o[k] : k \in 1..Len(o)}
    BY <1>2, <1>5, ToDistinct
  <1>7. ASSUME NEW e
        PROVE  e \in ToSet(o) <=> e \in ToSet(s) /\ e \in S
    <2>1. ASSUME NEW k \in 1..Len(o)
          PROVE  o[k] \in ToSet(s) /\ o[k] \in S
      BY <1>1, <1>2
    <2>2. ASSUME NEW i \in 1..Len(s), s[i] \in S
          PROVE  s[i] \in ToSet(o)
      BY <1>3, <1>6, <2>2
    <2> QED BY <1>1, <1>6, <2>1, <2>2
  <1> QED BY <1>4, <1>6, <1>7 DEF o

LEMMA Joined ==
  ASSUME NEW n \in Nat, NEW s \in Distinct(n), NEW t \in Distinct(n), ToSet(s) \cap ToSet(t) = {}
  PROVE  /\ s \o t \in Distinct(n) /\ Len(s \o t) = Len(s) + Len(t)
         /\ ToSet(s \o t) = ToSet(s) \cup ToSet(t)
PROOF
  <1> DEFINE u == s \o t
  <1>1. /\ s \in Seq(1..n) /\ Len(s) \in Nat
        /\ \A i, j \in 1..Len(s) : s[i] = s[j] => i = j
        /\ ToSet(s) = {s[i] : i \in 1..Len(s)}
    BY DistinctIs
  <1>2. /\ t \in Seq(1..n) /\ Len(t) \in Nat
        /\ \A i, j \in 1..Len(t) : t[i] = t[j] => i = j
        /\ ToSet(t) = {t[i] : i \in 1..Len(t)}
    BY DistinctIs
  <1>3. /\ u \in Seq(1..n) /\ Len(u) = Len(s) + Len(t)
        /\ \A i \in 1..Len(s) : u[i] = s[i]
        /\ \A i \in (Len(s) + 1)..Len(u) : u[i] = t[i - Len(s)]
    BY <1>1, <1>2
  <1> HIDE DEF u
  <1>4. ASSUME NEW i \in 1..Len(u)
        PROVE  \/ i \in 1..Len(s) /\ u[i] = s[i] /\ u[i] \in ToSet(s)
               \/ /\ i \notin 1..Len(s) /\ i - Len(s) \in 1..Len(t)
                  /\ u[i] = t[i - Len(s)] /\ u[i] \in ToSet(t)
    <2>1. CASE i <= Len(s)
      BY <1>1, <1>3, <2>1
    <2>2. CASE ~(i <= Len(s))
      <3>1. i \in (Len(s) + 1)..Len(u) /\ i \notin 1..Len(s) /\ i - Len(s) \in 1..Len(t)
        BY <1>1, <1>2, <1>3, <2>2
      <3> QED BY <1>2, <1>3, <3>1
    <2> QED BY <2>1, <2>2
  <1>5. \A i, j \in 1..Len(u) : u[i] = u[j] => i = j
    <2> SUFFICES ASSUME NEW i \in 1..Len(u), NEW j \in 1..Len(u), u[i] = u[j]
                 PROVE  i = j
      OBVIOUS
    <2>1. i \in 1..Len(s) <=> j \in 1..Len(s)
      BY <1>4
    <2>2. CASE i \in 1..Len(s)
      BY <1>1, <1>4, <2>1, <2>2
    <2>3. CASE i \notin 1..Len(s)
      <3>1. i - Len(s) = j - Len(s)
        BY <1>2, <1>4, <2>1, <2>3
      <3> QED BY <1>1, <1>3, <3>1
    <2> QED BY <2>2, <2>3
  <1>6. u \in Distinct(n) /\ ToSet(u) = {u[i] : i \in 1..Len(u)}
    BY <1>3, <1>5, ToDistinct
  <1>7. ASSUME NEW e
        PROVE  e \in ToSet(u) <=> e \in ToSet(s) \/ e \in ToSet(t)
    <2>1. e \in ToSet(u) => e \in ToSet(s) \/ e \in ToSet(t)
      BY <1>4, <1>6
    <2>2. ASSUME NEW i \in 1..Len(s)
          PROVE  s[i] \in ToSet(u)
      BY <1>1, <1>2, <1>3, <1>6
    <2>3. ASSUME NEW i \in 1..Len(t)
          PROVE  t[i] \in ToSet(u)
      <3>1. i + Len(s) \in (Len(s) + 1)..Len(u) /\ (i + Len(s)) - Len(s) = i /\ i + Len(s) \in 1..Len(u)
        BY <1>1, <1>2, <1>3
      <3> QED BY <1>3, <1>6, <3>1
    <2> QED BY <1>1, <1>2, <2>1, <2>2, <2>3
  <1> QED BY <1>3, <1>6, <1>7 DEF u

LEMMA Appended ==
  ASSUME NEW n \in Nat, NEW s \in Distinct(n)
  PROVE  /\ Append(s, n + 1) \in Distinct(n + 1) /\ Len(Append(s, n + 1)) = Len(s) + 1
         /\ ToSet(Append(s, n + 1)) = ToSet(s) \cup {n + 1}
PROOF
  <1> DEFINE t == <<n + 1>>
  <1>1. /\ t \in Seq(1..(n + 1)) /\ Len(t) = 1 /\ t[1] = n + 1
    OBVIOUS
  <1> HIDE DEF t
  <1>2. t \in Distinct(n + 1) /\ ToSet(t) = {n + 1}
    <2>1. \A i, j \in 1..Len(t) : t[i] = t[j] => i = j
      BY <1>1
    <2>2. t \in Distinct(n + 1) /\ ToSet(t) = {t[i] : i \in 1..Len(t)}
      BY <1>1, <2>1, ToDistinct
    <2> QED BY <1>1, <2>2
  <1>3. s \in Distinct(n + 1)
    BY MoreDistinct
  <1>4. ToSet(s) \cap ToSet(t) = {}
    <2>1. ToSet(s) \subseteq 1..n
      BY DistinctIs
    <2> QED BY <1>2, <2>1
  <1>5. Append(s, n + 1) = s \o t
    <2>1. s \in Seq(1..(n + 1))
      BY <1>3, DistinctIs
    <2> QED BY <1>1, <2>1 DEF t
  <1>6. n + 1 \in Nat
    OBVIOUS
  <1>7. /\ s \o t \in Distinct(n + 1) /\ Len(s \o t) = Len(s) + Len(t)
        /\ ToSet(s \o t) = ToSet(s) \cup ToSet(t)
    BY <1>2, <1>3, <1>4, <1>6, Joined
  <1> QED BY <1>1, <1>2, <1>5, <1>7

-----------------------------------------------------------------------------
(* Where an entry is *)

Reasons == DOMAIN NoLoss

Sent(e, fl) == \E f \in Flights : e \in ToSet(fl[f].batch)
GivenUp(e, lo) == \E r \in Reasons : e \in lo[r]

\* In one place only: in hand, which is a batch on its way from one place to another, in the
\* buffer, in flight, delivered, or given up.
InOnePlace(e, hand, buf, fl, ack, lo) ==
  /\ e \in ToSet(hand) \/ e \in ToSet(buf) \/ Sent(e, fl) \/ e \in ack \/ GivenUp(e, lo)
  /\ e \in ToSet(hand) => e \notin ToSet(buf) /\ ~Sent(e, fl) /\ e \notin ack /\ ~GivenUp(e, lo)
  /\ e \in ToSet(buf) => ~Sent(e, fl) /\ e \notin ack /\ ~GivenUp(e, lo)
  /\ Sent(e, fl) => e \notin ack /\ ~GivenUp(e, lo)
  /\ e \in ack => ~GivenUp(e, lo)
  /\ \A f, g \in Flights : e \in ToSet(fl[f].batch) /\ e \in ToSet(fl[g].batch) => f = g
  /\ \A r, q \in Reasons : e \in lo[r] /\ e \in lo[q] => r = q

\* The places of the entries 1..n.
Sound(n, hand, buf, fl, ack, lo) ==
  /\ hand \in Distinct(n) /\ buf \in Distinct(n)
  /\ fl = [f \in Flights |-> fl[f]]
  /\ \A f \in Flights : fl[f].batch \in Distinct(n) /\ (fl[f].gen = -1 => fl[f].batch = <<>>)
  /\ ack \subseteq 1..n
  /\ lo = [r \in Reasons |-> lo[r]]
  /\ \A r \in Reasons : lo[r] \subseteq 1..n
  /\ \A e \in 1..n : InOnePlace(e, hand, buf, fl, ack, lo)

SenderInv ==
  /\ sender \in Senders /\ recorded \in 0..MaxEntries /\ clock \in Nat
  /\ retries \in [Entries -> 0..MaxRetries]
  /\ circuit \in Breaker
  /\ Len(buffer) <= MaxBufferSize
  /\ Sound(recorded, <<>>, buffer, flight, acked, lost)

\* What is given up for each reason.
Loss(full, old, tired, room) == [full |-> full, old |-> old, retries |-> tired, room |-> room]
Plus(lo, more) == [r \in Reasons |-> lo[r] \cup more[r]]

LEMMA LossAt ==
  ASSUME NEW a, NEW b, NEW c, NEW d
  PROVE  /\ Reasons = {"full", "old", "retries", "room"}
         /\ Loss(a, b, c, d)["full"] = a /\ Loss(a, b, c, d)["old"] = b
         /\ Loss(a, b, c, d)["retries"] = c /\ Loss(a, b, c, d)["room"] = d
PROOF
  <1>1. Reasons = {"full", "old", "retries", "room"}
    BY DEF NoLoss, Reasons
  <1>2. /\ Loss(a, b, c, d)["full"] = a /\ Loss(a, b, c, d)["old"] = b
        /\ Loss(a, b, c, d)["retries"] = c /\ Loss(a, b, c, d)["room"] = d
    BY DEF Loss
  <1> QED BY <1>1, <1>2

LEMMA NoneLost == NoLoss = Loss({}, {}, {}, {})
PROOF
  BY DEF Loss, NoLoss

LEMMA LostAsFull ==
  ASSUME NEW x
  PROVE  [NoLoss EXCEPT !.full = x] = Loss(x, {}, {}, {})
PROOF
  BY DEF Loss, NoLoss

LEMMA LostAsOld ==
  ASSUME NEW a, NEW x
  PROVE  [Loss(a, {}, {}, {}) EXCEPT !.old = x] = Loss(a, x, {}, {})
PROOF
  BY DEF Loss

LEMMA LostAsPutBack ==
  ASSUME NEW a, NEW b, NEW x, NEW y
  PROVE  [Loss(a, b, {}, {}) EXCEPT !.retries = x, !.room = y] = Loss(a, b, x, y)
PROOF
  <1>1. [Loss(a, b, {}, {}) EXCEPT !.retries = x] = Loss(a, b, x, {})
    BY DEF Loss
  <1>2. [Loss(a, b, x, {}) EXCEPT !.room = y] = Loss(a, b, x, y)
    BY DEF Loss
  <1>3. [Loss(a, b, {}, {}) EXCEPT !.retries = x, !.room = y] = [Loss(a, b, x, {}) EXCEPT !.room = y]
    BY <1>1
  <1> QED BY <1>2, <1>3

LEMMA PlusIs ==
  ASSUME NEW lo, NEW more
  PROVE  /\ Plus(lo, more) = [r \in Reasons |-> Plus(lo, more)[r]]
         /\ \A r \in Reasons : Plus(lo, more)[r] = lo[r] \cup more[r]
PROOF
  BY DEF Plus

LEMMA LossesAdd ==
  ASSUME NEW lo, NEW a, NEW b, NEW c, NEW d
  PROVE  /\ Plus(Plus(lo, Loss(a, {}, {}, {})), Loss({}, b, {}, {})) = Plus(lo, Loss(a, b, {}, {}))
         /\ Plus(Plus(lo, Loss(a, b, {}, {})), Loss({}, {}, c, d)) = Plus(lo, Loss(a, b, c, d))
         /\ Plus(lo, Loss(a, b, c, d)) = [r \in Reasons |-> Plus(lo, Loss(a, b, c, d))[r]]
         /\ Plus(lo, Loss(a, b, c, d))["full"] = lo["full"] \cup a
         /\ Plus(lo, Loss(a, b, c, d))["old"] = lo["old"] \cup b
         /\ Plus(lo, Loss(a, b, c, d))["retries"] = lo["retries"] \cup c
         /\ Plus(lo, Loss(a, b, c, d))["room"] = lo["room"] \cup d
PROOF
  <1>1. \A p, q, s, t : /\ Plus(lo, Loss(p, q, s, t))["full"] = lo["full"] \cup p
                        /\ Plus(lo, Loss(p, q, s, t))["old"] = lo["old"] \cup q
                        /\ Plus(lo, Loss(p, q, s, t))["retries"] = lo["retries"] \cup s
                        /\ Plus(lo, Loss(p, q, s, t))["room"] = lo["room"] \cup t
    <2> TAKE p, q, s, t
    <2> DEFINE l == Loss(p, q, s, t)
    <2>1. Reasons = {"full", "old", "retries", "room"}
      BY LossAt
    <2>2. l["full"] = p /\ l["old"] = q /\ l["retries"] = s /\ l["room"] = t
      BY LossAt
    <2> HIDE DEF l
    <2>3. \A r \in Reasons : Plus(lo, l)[r] = lo[r] \cup l[r]
      BY DEF Plus
    <2>4. /\ Plus(lo, l)["full"] = lo["full"] \cup p /\ Plus(lo, l)["old"] = lo["old"] \cup q
          /\ Plus(lo, l)["retries"] = lo["retries"] \cup s /\ Plus(lo, l)["room"] = lo["room"] \cup t
      BY <2>1, <2>2, <2>3
    <2> QED BY <2>4 DEF l
  <1>2. Plus(Plus(lo, Loss(a, {}, {}, {})), Loss({}, b, {}, {})) = Plus(lo, Loss(a, b, {}, {}))
    <2> SUFFICES ASSUME NEW r \in Reasons
                 PROVE  Plus(Plus(lo, Loss(a, {}, {}, {})), Loss({}, b, {}, {}))[r]
                          = Plus(lo, Loss(a, b, {}, {}))[r]
      BY DEF Plus
    <2>1. r \in {"full", "old", "retries", "room"}
      BY LossAt
    <2>2. Loss(a, {}, {}, {})[r] \cup Loss({}, b, {}, {})[r] = Loss(a, b, {}, {})[r]
      BY <2>1 DEF Loss
    <2>3. (lo[r] \cup Loss(a, {}, {}, {})[r]) \cup Loss({}, b, {}, {})[r] = lo[r] \cup Loss(a, b, {}, {})[r]
      BY <2>2
    <2> QED BY <2>3 DEF Plus
  <1>3. Plus(Plus(lo, Loss(a, b, {}, {})), Loss({}, {}, c, d)) = Plus(lo, Loss(a, b, c, d))
    <2> SUFFICES ASSUME NEW r \in Reasons
                 PROVE  Plus(Plus(lo, Loss(a, b, {}, {})), Loss({}, {}, c, d))[r]
                          = Plus(lo, Loss(a, b, c, d))[r]
      BY DEF Plus
    <2>1. r \in {"full", "old", "retries", "room"}
      BY LossAt
    <2>2. Loss(a, b, {}, {})[r] \cup Loss({}, {}, c, d)[r] = Loss(a, b, c, d)[r]
      BY <2>1 DEF Loss
    <2>3. (lo[r] \cup Loss(a, b, {}, {})[r]) \cup Loss({}, {}, c, d)[r] = lo[r] \cup Loss(a, b, c, d)[r]
      BY <2>2
    <2> QED BY <2>3 DEF Plus
  <1>4. Plus(lo, Loss(a, b, c, d)) = [r \in Reasons |-> Plus(lo, Loss(a, b, c, d))[r]]
    BY DEF Plus
  <1> QED BY <1>1, <1>2, <1>3, <1>4

\* A new entry is taken into the buffer, or dropped.
LEMMA TakesOne ==
  ASSUME NEW n \in Nat, NEW buf, NEW fl, NEW ack, NEW lo, Sound(n, <<>>, buf, fl, ack, lo)
  PROVE  /\ Sound(n + 1, <<>>, Append(buf, n + 1), fl, ack, Plus(lo, Loss({}, {}, {}, {})))
         /\ Sound(n + 1, <<>>, buf, fl, ack, Plus(lo, Loss({n + 1}, {}, {}, {})))
PROOF
  <1> DEFINE m == n + 1
             more == Append(buf, n + 1)
             lo0 == Plus(lo, Loss({}, {}, {}, {}))
             lo1 == Plus(lo, Loss({m}, {}, {}, {}))
  <1>1. /\ m \in Nat /\ m \notin 1..n /\ 1..n \subseteq 1..m /\ 1..m = 1..n \cup {m}
    OBVIOUS
  <1>2. /\ buf \in Distinct(n) /\ buf \in Distinct(m) /\ ToSet(buf) \subseteq 1..n
        /\ <<>> \in Distinct(m) /\ ToSet(<<>>) = {}
        /\ more \in Distinct(m) /\ ToSet(more) = ToSet(buf) \cup {m}
    BY <1>1, MoreDistinct, NoneDistinct, Appended, DistinctIs DEF Sound
  <1>3. \A f \in Flights : /\ fl[f].batch \in Distinct(m) /\ ToSet(fl[f].batch) \subseteq 1..n
                           /\ fl[f].gen = -1 => fl[f].batch = <<>>
    BY MoreDistinct, DistinctIs DEF Sound
  <1>4. /\ \A r \in Reasons : lo0[r] = lo[r] /\ lo1[r] = IF r = "full" THEN lo[r] \cup {m} ELSE lo[r]
        /\ lo0 = [r \in Reasons |-> lo0[r]] /\ lo1 = [r \in Reasons |-> lo1[r]]
        /\ "full" \in Reasons
    <2>1. Reasons = {"full", "old", "retries", "room"}
      BY LossAt
    <2>2. \A r \in Reasons : /\ Loss({}, {}, {}, {})[r] = {}
                            /\ Loss({m}, {}, {}, {})[r] = IF r = "full" THEN {m} ELSE {}
      BY LossAt
    <2>3. \A r \in Reasons : lo0[r] = lo[r] /\ lo1[r] = IF r = "full" THEN lo[r] \cup {m} ELSE lo[r]
      BY <2>2 DEF Plus
    <2> QED BY <2>1, <2>3, PlusIs
  <1>5. /\ fl = [f \in Flights |-> fl[f]] /\ ack \subseteq 1..n
        /\ \A r \in Reasons : lo[r] \subseteq 1..n
        /\ \A e \in 1..n : InOnePlace(e, <<>>, buf, fl, ack, lo)
    BY DEF Sound
  <1> HIDE DEF m, more, lo0, lo1
  <1>6. ASSUME NEW e \in 1..m
        PROVE  InOnePlace(e, <<>>, more, fl, ack, lo0) /\ InOnePlace(e, <<>>, buf, fl, ack, lo1)
    <2>1. CASE e \in 1..n
      <3>1. InOnePlace(e, <<>>, buf, fl, ack, lo) /\ e # m
        BY <1>1, <1>5, <2>1
      <3>2. /\ e \in ToSet(more) <=> e \in ToSet(buf)
            /\ \A r \in Reasons : (e \in lo0[r] <=> e \in lo[r]) /\ (e \in lo1[r] <=> e \in lo[r])
        BY <1>2, <1>4, <3>1
      <3> QED BY <3>1, <3>2 DEF InOnePlace, Sent, GivenUp
    <2>2. CASE e = m
      <3>1. /\ e \notin ToSet(buf) /\ e \in ToSet(more) /\ e \notin ToSet(<<>>) /\ e \notin ack
            /\ \A f \in Flights : e \notin ToSet(fl[f].batch)
            /\ \A r \in Reasons : e \notin lo[r]
        BY <1>1, <1>2, <1>3, <1>5, <2>2
      <3>2. \A r \in Reasons : e \notin lo0[r] /\ (e \in lo1[r] <=> r = "full")
        BY <1>4, <2>2, <3>1
      <3> QED BY <1>4, <3>1, <3>2 DEF InOnePlace, Sent, GivenUp
    <2> QED BY <1>1, <2>1, <2>2
  <1>7. \A r \in Reasons : lo0[r] \subseteq 1..m /\ lo1[r] \subseteq 1..m
    BY <1>1, <1>4, <1>5
  <1>8. Sound(m, <<>>, more, fl, ack, lo0)
    BY <1>1, <1>2, <1>3, <1>4, <1>5, <1>6, <1>7 DEF Sound
  <1>9. Sound(m, <<>>, buf, fl, ack, lo1)
    BY <1>1, <1>2, <1>3, <1>4, <1>5, <1>6, <1>7 DEF Sound
  <1> QED BY <1>8, <1>9 DEF m, more, lo0, lo1

\* flush() takes the first of the young out of the buffer, and gives up the old ones.
LEMMA TakesBatch ==
  ASSUME NEW n \in Nat, n <= MaxEntries, NEW buf, NEW fl, NEW ack, NEW lo,
         Sound(n, <<>>, buf, fl, ack, lo), NEW k \in Nat, NEW old \in SUBSET Entries,
         NEW young, young = Only(buf, Entries \ old)
  PROVE  /\ Sound(n, Prefix(young, k), Suffix(young, k), fl, ack,
                  Plus(lo, Loss({}, ToSet(buf) \cap old, {}, {})))
         /\ Len(Suffix(young, k)) <= Len(buf)
PROOF
  <1> DEFINE batch == Prefix(young, k)
             rest == Suffix(young, k)
             gone == ToSet(buf) \cap old
             lost1 == Plus(lo, Loss({}, gone, {}, {}))
  <1>1. /\ buf \in Distinct(n) /\ Len(buf) \in Nat /\ ToSet(buf) \subseteq 1..n /\ ToSet(<<>>) = {}
        /\ fl = [f \in Flights |-> fl[f]] /\ ack \subseteq 1..n
        /\ \A f \in Flights : fl[f].batch \in Distinct(n) /\ (fl[f].gen = -1 => fl[f].batch = <<>>)
        /\ \A r \in Reasons : lo[r] \subseteq 1..n
        /\ \A e \in 1..n : InOnePlace(e, <<>>, buf, fl, ack, lo)
    BY DistinctIs, NoneDistinct DEF Sound
  <1>2. /\ young \in Distinct(n) /\ Len(young) <= Len(buf) /\ Len(young) \in Nat
        /\ ToSet(young) = ToSet(buf) \cap (Entries \ old)
    BY <1>1, Kept, DistinctIs
  <1>3. /\ batch \in Distinct(n) /\ rest \in Distinct(n) /\ Len(rest) <= Len(young)
        /\ ToSet(young) = ToSet(batch) \cup ToSet(rest) /\ ToSet(batch) \cap ToSet(rest) = {}
    <2>1. young \in Distinct(n)
      BY <1>2
    <2>2. batch \in Distinct(n) /\ rest \in Distinct(n) /\ Len(rest) <= Len(young)
      BY <2>1, Cut
    <2>3. ToSet(young) = ToSet(batch) \cup ToSet(rest)
      BY <2>1, Cut
    <2>4. ToSet(batch) \cap ToSet(rest) = {}
      BY <2>1, Cut
    <2> QED BY <2>2, <2>3, <2>4
  <1>4. Len(rest) <= Len(buf)
    <2>1. Len(rest) \in Nat
      BY <1>3, DistinctIs
    <2>2. Len(rest) <= Len(young)
      BY <1>3
    <2>3. Len(young) <= Len(buf) /\ Len(young) \in Nat /\ Len(buf) \in Nat
      BY <1>1, <1>2
    <2> HIDE DEF rest
    <2> QED BY <2>1, <2>2, <2>3
  <1>5. 1..n \subseteq Entries
    BY SenderAssumption DEF Entries
  <1>6. /\ \A r \in Reasons : lost1[r] = IF r = "old" THEN lo[r] \cup gone ELSE lo[r]
        /\ lost1 = [r \in Reasons |-> lost1[r]] /\ "old" \in Reasons
    <2>1. Reasons = {"full", "old", "retries", "room"}
      BY LossAt
    <2>2. \A r \in Reasons : Loss({}, gone, {}, {})[r] = IF r = "old" THEN gone ELSE {}
      BY LossAt
    <2>3. \A r \in Reasons : lost1[r] = IF r = "old" THEN lo[r] \cup gone ELSE lo[r]
      BY <2>2 DEF Plus
    <2> QED BY <2>1, <2>3, PlusIs
  <1>7. \A e \in ToSet(buf) : e \in ToSet(batch) \/ e \in ToSet(rest) \/ e \in gone
    BY <1>1, <1>2, <1>3, <1>5
  <1>8. /\ ToSet(batch) \subseteq ToSet(buf) /\ ToSet(rest) \subseteq ToSet(buf) /\ gone \subseteq ToSet(buf)
        /\ \A e \in gone : e \notin ToSet(batch) /\ e \notin ToSet(rest)
    BY <1>2, <1>3
  <1> HIDE DEF batch, rest, gone, lost1
  <1>9. ASSUME NEW e \in 1..n
        PROVE  InOnePlace(e, batch, rest, fl, ack, lost1)
    <2>1. InOnePlace(e, <<>>, buf, fl, ack, lo) /\ e \notin ToSet(<<>>)
      BY <1>1
    <2>2. GivenUp(e, lost1) <=> GivenUp(e, lo) \/ e \in gone
      BY <1>6 DEF GivenUp
    <2>3. \A r, q \in Reasons : e \in lost1[r] /\ e \in lost1[q] => r = q
      BY <1>6, <1>8, <2>1 DEF InOnePlace, GivenUp
    <2> QED BY <1>3, <1>7, <1>8, <2>1, <2>2, <2>3 DEF InOnePlace
  <1>10. \A r \in Reasons : lost1[r] \subseteq 1..n
    BY <1>1, <1>6, <1>8
  <1>11. Sound(n, batch, rest, fl, ack, lost1)
    BY <1>1, <1>3, <1>6, <1>9, <1>10 DEF Sound
  <1> QED BY <1>4, <1>11 DEF batch, rest, gone, lost1

\* The batch in hand goes back to the head of the buffer, as far as there is room and retries.
LEMMA PutsBack ==
  ASSUME NEW n \in Nat, n <= MaxEntries, NEW hand, NEW buf, NEW fl, NEW ack, NEW lo,
         Sound(n, hand, buf, fl, ack, lo), NEW k \in Nat, NEW spent \in SUBSET Entries,
         NEW again, again = Only(hand, Entries \ spent)
  PROVE  /\ Sound(n, <<>>, Prefix(again, k) \o buf, fl, ack,
                  Plus(lo, Loss({}, {}, ToSet(hand) \cap spent, ToSet(Suffix(again, k)))))
         /\ Len(Prefix(again, k) \o buf) <= k + Len(buf)
PROOF
  <1> DEFINE back == Prefix(again, k)
             over == Suffix(again, k)
             new == back \o buf
             tired == ToSet(hand) \cap spent
             lost1 == Plus(lo, Loss({}, {}, tired, ToSet(over)))
  <1>1. /\ hand \in Distinct(n) /\ ToSet(hand) \subseteq 1..n
        /\ buf \in Distinct(n) /\ Len(buf) \in Nat /\ <<>> \in Distinct(n) /\ ToSet(<<>>) = {}
        /\ fl = [f \in Flights |-> fl[f]] /\ ack \subseteq 1..n
        /\ \A f \in Flights : fl[f].batch \in Distinct(n) /\ (fl[f].gen = -1 => fl[f].batch = <<>>)
        /\ \A r \in Reasons : lo[r] \subseteq 1..n
        /\ \A e \in 1..n : InOnePlace(e, hand, buf, fl, ack, lo)
    BY DistinctIs, NoneDistinct DEF Sound
  <1>2. again \in Distinct(n) /\ ToSet(again) = ToSet(hand) \cap (Entries \ spent)
    BY <1>1, Kept
  <1>3. /\ back \in Distinct(n) /\ Len(back) <= k
        /\ ToSet(again) = ToSet(back) \cup ToSet(over) /\ ToSet(back) \cap ToSet(over) = {}
    <2>1. again \in Distinct(n)
      BY <1>2
    <2>2. back \in Distinct(n) /\ Len(back) <= k
      BY <2>1, Cut
    <2>3. ToSet(again) = ToSet(back) \cup ToSet(over)
      BY <2>1, Cut
    <2>4. ToSet(back) \cap ToSet(over) = {}
      BY <2>1, Cut
    <2> QED BY <2>2, <2>3, <2>4
  <1>4. ToSet(back) \cap ToSet(buf) = {}
    BY <1>1, <1>2, <1>3 DEF InOnePlace
  <1>5. /\ new \in Distinct(n) /\ Len(new) = Len(back) + Len(buf)
        /\ ToSet(new) = ToSet(back) \cup ToSet(buf)
    <2>1. back \in Distinct(n) /\ buf \in Distinct(n)
      BY <1>1, <1>3
    <2> HIDE DEF back
    <2> QED BY <1>4, <2>1, Joined
  <1>6. Len(new) <= k + Len(buf)
    <2>1. Len(back) \in Nat
      BY <1>3, DistinctIs
    <2> QED BY <1>1, <1>3, <1>5, <2>1
  <1>7. 1..n \subseteq Entries
    BY SenderAssumption DEF Entries
  <1>8. /\ \A r \in Reasons : lost1[r] = CASE r = "retries" -> lo[r] \cup tired
                                          [] r = "room" -> lo[r] \cup ToSet(over)
                                          [] r \in {"full", "old"} -> lo[r]
        /\ lost1 = [r \in Reasons |-> lost1[r]] /\ Reasons = {"full", "old", "retries", "room"}
    <2> HIDE DEF tired, over
    <2> DEFINE more == Loss({}, {}, tired, ToSet(over))
    <2>1. /\ Reasons = {"full", "old", "retries", "room"}
          /\ more["full"] = {} /\ more["old"] = {} /\ more["retries"] = tired /\ more["room"] = ToSet(over)
      BY LossAt
    <2>2. lost1 = [r \in Reasons |-> lost1[r]] /\ \A r \in Reasons : lost1[r] = lo[r] \cup more[r]
      BY PlusIs
    <2> HIDE DEF more, lost1
    <2> QED BY <2>1, <2>2
  <1>9. \A e \in ToSet(hand) : e \in ToSet(back) \/ e \in ToSet(over) \/ e \in tired
    BY <1>1, <1>2, <1>3, <1>7
  <1>10. /\ ToSet(back) \subseteq ToSet(hand) /\ ToSet(over) \subseteq ToSet(hand) /\ tired \subseteq ToSet(hand)
         /\ \A e \in tired : e \notin ToSet(back) /\ e \notin ToSet(over)
         /\ \A e \in ToSet(back) : e \notin ToSet(over)
    BY <1>2, <1>3
  <1> HIDE DEF back, over, new, tired, lost1
  <1>11. ASSUME NEW e \in 1..n
         PROVE  InOnePlace(e, <<>>, new, fl, ack, lost1)
    <2>1. InOnePlace(e, hand, buf, fl, ack, lo) /\ e \notin ToSet(<<>>)
      BY <1>1
    <2>2. /\ e \in lost1["retries"] <=> e \in lo["retries"] \/ e \in tired
          /\ e \in lost1["room"] <=> e \in lo["room"] \/ e \in ToSet(over)
          /\ e \in lost1["full"] <=> e \in lo["full"]
          /\ e \in lost1["old"] <=> e \in lo["old"]
      BY <1>8
    <2>3. GivenUp(e, lost1) <=> GivenUp(e, lo) \/ e \in tired \/ e \in ToSet(over)
      BY <1>8, <2>2 DEF GivenUp
    <2>4. \A r, q \in Reasons : e \in lost1[r] /\ e \in lost1[q] => r = q
      <3>1. e \in ToSet(hand) => \A r \in Reasons : e \notin lo[r]
        BY <2>1 DEF InOnePlace, GivenUp
      <3>2. \A r, q \in Reasons : e \in lo[r] /\ e \in lo[q] => r = q
        BY <2>1 DEF InOnePlace
      <3> QED BY <1>8, <1>10, <2>2, <3>1, <3>2
    <2>5. e \in ToSet(new) <=> e \in ToSet(buf) \/ e \in ToSet(back)
      BY <1>5
    <2> QED BY <1>9, <1>10, <2>1, <2>3, <2>4, <2>5 DEF InOnePlace
  <1>12. \A r \in Reasons : lost1[r] \subseteq 1..n
    BY <1>1, <1>8, <1>10
  <1>13. Sound(n, <<>>, new, fl, ack, lost1)
    BY <1>1, <1>5, <1>8, <1>11, <1>12 DEF Sound
  <1> QED BY <1>6, <1>13 DEF back, over, new, tired, lost1

\* A batch is sent by a flight that is free.
LEMMA Sends ==
  ASSUME NEW n \in Nat, NEW hand, NEW buf, NEW fl, NEW ack, NEW lo,
         Sound(n, hand, buf, fl, ack, lo), NEW f \in Flights, fl[f].gen = -1, NEW g \in Nat
  PROVE  Sound(n, <<>>, buf, [fl EXCEPT ![f] = [batch |-> hand, gen |-> g]], ack, lo)
PROOF
  <1> DEFINE new == [fl EXCEPT ![f] = [batch |-> hand, gen |-> g]]
  <1>1. /\ fl = [h \in Flights |-> fl[h]] /\ fl[f].batch = <<>>
        /\ hand \in Distinct(n)
        /\ \A h \in Flights : fl[h].batch \in Distinct(n) /\ (fl[h].gen = -1 => fl[h].batch = <<>>)
        /\ \A e \in 1..n : InOnePlace(e, hand, buf, fl, ack, lo)
    BY DEF Sound
  <1>2. /\ new = [h \in Flights |-> new[h]]
        /\ new[f].batch = hand /\ new[f].gen = g
        /\ \A h \in Flights : h # f => new[h] = fl[h]
    BY <1>1
  <1>3. <<>> \in Distinct(n) /\ ToSet(<<>>) = {} /\ g # -1
    BY NoneDistinct
  <1> HIDE DEF new
  <1>4. \A h \in Flights : new[h].batch \in Distinct(n) /\ (new[h].gen = -1 => new[h].batch = <<>>)
    BY <1>1, <1>2, <1>3
  <1>5. ASSUME NEW e \in 1..n
        PROVE  InOnePlace(e, <<>>, buf, new, ack, lo)
    <2>1. InOnePlace(e, hand, buf, fl, ack, lo)
      BY <1>1
    <2>2. /\ e \notin ToSet(fl[f].batch) /\ e \notin ToSet(<<>>)
          /\ e \in ToSet(new[f].batch) <=> e \in ToSet(hand)
          /\ \A h \in Flights : h # f => (e \in ToSet(new[h].batch) <=> e \in ToSet(fl[h].batch))
      BY <1>1, <1>2, <1>3
    <2>3. Sent(e, new) <=> Sent(e, fl) \/ e \in ToSet(hand)
      BY <2>2 DEF Sent
    <2>4. \A h, i \in Flights : e \in ToSet(new[h].batch) /\ e \in ToSet(new[i].batch) => h = i
      BY <2>1, <2>2 DEF InOnePlace, Sent
    <2> QED BY <2>1, <2>2, <2>3, <2>4 DEF InOnePlace
  <1>6. Sound(n, <<>>, buf, new, ack, lo)
    BY <1>2, <1>3, <1>4, <1>5 DEF Sound
  <1> QED BY <1>6 DEF new

\* A flight ends: its batch is in hand.
LEMMA Lands ==
  ASSUME NEW n \in Nat, NEW buf, NEW fl, NEW ack, NEW lo,
         Sound(n, <<>>, buf, fl, ack, lo), NEW f \in Flights
  PROVE  Sound(n, fl[f].batch, buf, [fl EXCEPT ![f] = Idle], ack, lo)
PROOF
  <1> DEFINE new == [fl EXCEPT ![f] = Idle]
             hand == fl[f].batch
  <1>1. /\ fl = [h \in Flights |-> fl[h]]
        /\ hand \in Distinct(n)
        /\ \A h \in Flights : fl[h].batch \in Distinct(n) /\ (fl[h].gen = -1 => fl[h].batch = <<>>)
        /\ \A e \in 1..n : InOnePlace(e, <<>>, buf, fl, ack, lo)
    BY DEF Sound
  <1>2. /\ new = [h \in Flights |-> new[h]]
        /\ new[f].batch = <<>>
        /\ \A h \in Flights : h # f => new[h] = fl[h]
    BY <1>1 DEF Idle
  <1>3. <<>> \in Distinct(n) /\ ToSet(<<>>) = {}
    BY NoneDistinct
  <1> HIDE DEF new
  <1>4. \A h \in Flights : new[h].batch \in Distinct(n) /\ (new[h].gen = -1 => new[h].batch = <<>>)
    BY <1>1, <1>2, <1>3
  <1>5. ASSUME NEW e \in 1..n
        PROVE  InOnePlace(e, hand, buf, new, ack, lo)
    <2>1. InOnePlace(e, <<>>, buf, fl, ack, lo)
      BY <1>1
    <2>2. /\ e \in ToSet(hand) <=> e \in ToSet(fl[f].batch)
          /\ e \notin ToSet(new[f].batch) /\ e \notin ToSet(<<>>)
          /\ \A h \in Flights : h # f => (e \in ToSet(new[h].batch) <=> e \in ToSet(fl[h].batch))
      BY <1>2, <1>3
    <2>3. Sent(e, fl) <=> Sent(e, new) \/ e \in ToSet(hand)
      BY <2>2 DEF Sent
    <2>4. e \in ToSet(hand) => ~Sent(e, new)
      BY <2>1, <2>2 DEF InOnePlace, Sent
    <2>5. \A h, i \in Flights : e \in ToSet(new[h].batch) /\ e \in ToSet(new[i].batch) => h = i
      BY <2>1, <2>2 DEF InOnePlace, Sent
    <2> QED BY <2>1, <2>2, <2>3, <2>4, <2>5 DEF InOnePlace
  <1>6. Sound(n, hand, buf, new, ack, lo)
    BY <1>1, <1>2, <1>3, <1>4, <1>5 DEF Sound
  <1> QED BY <1>6 DEF new

\* The entries of a batch that is answered are delivered.
LEMMA Delivers ==
  ASSUME NEW n \in Nat, NEW hand, NEW buf, NEW fl, NEW ack, NEW lo,
         Sound(n, hand, buf, fl, ack, lo)
  PROVE  Sound(n, <<>>, buf, fl, ack \cup ToSet(hand), lo)
PROOF
  <1>1. <<>> \in Distinct(n) /\ ToSet(<<>>) = {} /\ ToSet(hand) \subseteq 1..n
    BY NoneDistinct, DistinctIs DEF Sound
  <1>2. ASSUME NEW e \in 1..n, InOnePlace(e, hand, buf, fl, ack, lo)
        PROVE  InOnePlace(e, <<>>, buf, fl, ack \cup ToSet(hand), lo)
    <2>1. e \in ack \cup ToSet(hand) <=> e \in ack \/ e \in ToSet(hand)
      OBVIOUS
    <2> QED BY <1>1, <1>2, <2>1 DEF InOnePlace
  <1> QED BY <1>1, <1>2 DEF Sound

-----------------------------------------------------------------------------
(* The steps of a sender *)

LEMMA CircuitConfigIsValid == CircuitConfig \in ValidConfig
PROOF
  BY SenderAssumption DEF ValidConfig

LEMMA UncountedIsBreaker ==
  ASSUME NEW b \in Breaker
  PROVE  Uncounted(b) \in Breaker
PROOF
  <1>1. NoCalls \in Counters
    BY DEF NoCalls, Counters
  <1> QED BY <1>1, NewCounters DEF Uncounted

LEMMA CircuitAnswers ==
  ASSUME circuit \in Breaker, clock \in Nat, NEW b, b = SyncState(circuit, CircuitConfig, clock)
  PROVE  b \in Breaker /\ b.generation \in Nat /\ Uncounted(Admitted(b)) \in Breaker
PROOF
  <1>1. b \in Breaker
    BY TransitionCounts DEF SyncState, States
  <1>2. Admitted(b) \in Breaker
    BY AskCounts, CircuitConfigIsValid DEF Counts
  <1> QED BY <1>1, <1>2, UncountedIsBreaker DEF Breaker

LEMMA CircuitHears ==
  ASSUME circuit \in Breaker, clock \in Nat, NEW e \in Endings, NEW g
  PROVE  Uncounted(Settle(circuit, e, 0, g, CircuitConfig, clock)) \in Breaker
PROOF
  <1>1. Settle(circuit, e, 0, g, CircuitConfig, clock) \in Breaker
    BY SettleCounts, CircuitConfigIsValid DEF Counts
  <1> QED BY <1>1, UncountedIsBreaker

\* The batch in hand is put back, or given up.
LEMMA RequeueKeeps ==
  ASSUME NEW n \in Nat, n <= MaxEntries, NEW hand, NEW buf, NEW fl, NEW F, NEW O,
         Sound(n, hand, buf, fl, acked, Plus(lost, Loss(F, O, {}, {}))),
         Len(buf) <= MaxBufferSize, retries \in [Entries -> 0..MaxRetries],
         Requeue(hand, buf, Loss(F, O, {}, {}))
  PROVE  /\ Sound(n, <<>>, buffer', fl, acked, lost')
         /\ Len(buffer') <= MaxBufferSize /\ retries' \in [Entries -> 0..MaxRetries]
PROOF
  <1> DEFINE again == Only(hand, Entries \ Spent)
             room == MaxBufferSize - Len(buf)
             tired == ToSet(hand) \cap Spent
             over == ToSet(Suffix(again, room))
  <1>1. /\ buffer' = Prefix(again, room) \o buf
        /\ retries' = [e \in Entries |-> IF e \in ToSet(hand) \ Spent THEN retries[e] + 1 ELSE retries[e]]
        /\ Lose([Loss(F, O, {}, {}) EXCEPT !.retries = tired, !.room = over])
    BY DEF Requeue
  <1>2. Len(buf) \in Nat
    BY DistinctIs DEF Sound
  <1>3. room \in Nat /\ room + Len(buf) = MaxBufferSize
    BY <1>2, SenderAssumption
  <1>4. Spent \in SUBSET Entries
    BY DEF Spent
  <1>5. lost' = Plus(lost, Loss(F, O, tired, over))
    <2> HIDE DEF tired, over
    <2>1. [Loss(F, O, {}, {}) EXCEPT !.retries = tired, !.room = over] = Loss(F, O, tired, over)
      <3>1. \A x, y : [Loss(F, O, {}, {}) EXCEPT !.retries = x, !.room = y] = Loss(F, O, x, y)
        BY LostAsPutBack
      <3> QED BY <3>1
    <2>2. Lose(Loss(F, O, tired, over))
      BY <1>1, <2>1
    <2> QED BY <2>2 DEF Lose, Plus, Reasons
  <1>6. lost' = Plus(Plus(lost, Loss(F, O, {}, {})), Loss({}, {}, tired, over))
    BY <1>5, LossesAdd
  <1> HIDE DEF room
  <1>7. /\ Sound(n, <<>>, buffer', fl, acked, lost')
        /\ Len(buffer') <= room + Len(buf)
    BY <1>1, <1>3, <1>4, <1>6, PutsBack
  <1>8. retries' \in [Entries -> 0..MaxRetries]
    <2>1. ASSUME NEW e \in Entries
          PROVE  (IF e \in ToSet(hand) \ Spent THEN retries[e] + 1 ELSE retries[e]) \in 0..MaxRetries
      <3>1. retries[e] \in 0..MaxRetries /\ MaxRetries \in Nat
        BY SenderAssumption
      <3>2. e \notin Spent => retries[e] < MaxRetries
        BY <3>1 DEF Spent
      <3> QED BY <3>1, <3>2
    <2> QED BY <1>1, <2>1
  <1> QED BY <1>3, <1>7, <1>8

\* A flush sends a batch, or puts it back when the circuit is open.
LEMMA FlushKeeps ==
  ASSUME NEW n \in Nat, n <= MaxEntries, NEW buf, NEW F,
         Sound(n, <<>>, buf, flight, acked, Plus(lost, Loss(F, {}, {}, {}))),
         Len(buf) <= MaxBufferSize, retries \in [Entries -> 0..MaxRetries],
         circuit \in Breaker, clock \in Nat, Flush(buf, Loss(F, {}, {}, {}))
  PROVE  /\ Sound(n, <<>>, buffer', flight', acked, lost')
         /\ Len(buffer') <= MaxBufferSize /\ retries' \in [Entries -> 0..MaxRetries]
         /\ circuit' \in Breaker
PROOF
  <1> DEFINE young == Only(buf, Entries \ Aged)
             batch == Prefix(young, BatchSize)
             rest == Suffix(young, BatchSize)
             old == ToSet(buf) \cap Aged
             b == SyncState(circuit, CircuitConfig, clock)
             lo == Plus(lost, Loss(F, old, {}, {}))
  <1>1. BatchSize \in Nat /\ MaxBufferSize \in Nat /\ Aged \in SUBSET Entries
    BY SenderAssumption DEF Aged
  <1>2. b \in Breaker /\ b.generation \in Nat /\ Uncounted(Admitted(b)) \in Breaker
    BY CircuitAnswers
  <1>3. /\ Sound(n, batch, rest, flight, acked, Plus(Plus(lost, Loss(F, {}, {}, {})), Loss({}, old, {}, {})))
        /\ Len(rest) <= Len(buf)
    BY <1>1, TakesBatch
  <1>4. Sound(n, batch, rest, flight, acked, lo)
    BY <1>3, LossesAdd
  <1>5. Len(rest) <= MaxBufferSize
    <2>1. Len(rest) \in Nat
      BY <1>4, DistinctIs DEF Sound
    <2>2. Len(buf) \in Nat
      BY DistinctIs DEF Sound
    <2>3. Len(rest) <= Len(buf)
      BY <1>3
    <2> HIDE DEF rest
    <2> QED BY <1>1, <2>1, <2>2, <2>3
  <1>6. [Loss(F, {}, {}, {}) EXCEPT !.old = old] = Loss(F, old, {}, {})
    BY LostAsOld, Zenon
  <1>7. CASE Permitted(b, CircuitConfig)
    <2>1. PICK f \in Flights :
            /\ ~Waits(f)
            /\ flight' = [flight EXCEPT ![f] = [batch |-> batch, gen |-> b.generation]]
            /\ circuit' = Uncounted(Admitted(b)) /\ buffer' = rest
            /\ Lose([Loss(F, {}, {}, {}) EXCEPT !.old = old]) /\ UNCHANGED retries
      BY <1>7 DEF Flush
    <2>2. lost' = lo
      BY <1>6, <2>1 DEF Lose, Plus, Reasons
    <2>3. flight[f].gen = -1
      BY <2>1 DEF Waits
    <2> HIDE DEF batch, rest, lo, b
    <2>4. Sound(n, <<>>, rest, flight', acked, lo)
      BY <1>2, <1>4, <2>1, <2>3, Sends
    <2> QED BY <1>2, <1>5, <2>1, <2>2, <2>4
  <1>8. CASE ~Permitted(b, CircuitConfig)
    <2>1. /\ circuit' = b /\ UNCHANGED flight
          /\ Requeue(batch, rest, [Loss(F, {}, {}, {}) EXCEPT !.old = old])
      BY <1>8 DEF Flush
    <2>2. Requeue(batch, rest, Loss(F, old, {}, {}))
      BY <1>6, <2>1
    <2> HIDE DEF batch, rest, b
    <2>3. /\ Sound(n, <<>>, buffer', flight, acked, lost')
          /\ Len(buffer') <= MaxBufferSize /\ retries' \in [Entries -> 0..MaxRetries]
      BY <1>4, <1>5, <2>2, RequeueKeeps
    <2> QED BY <1>2, <2>1, <2>3
  <1> QED BY <1>7, <1>8

LEMMA NothingLost ==
  ASSUME NEW n \in Nat, NEW hand, NEW buf, NEW fl, NEW ack, Sound(n, hand, buf, fl, ack, lost)
  PROVE  Plus(lost, Loss({}, {}, {}, {})) = lost
PROOF
  <1> DEFINE more == Loss({}, {}, {}, {})
  <1>1. \A r \in Reasons : more[r] = {}
    BY LossAt
  <1>2. lost = [r \in Reasons |-> lost[r]]
    BY DEF Sound
  <1> HIDE DEF more
  <1>3. Plus(lost, more) = lost
    BY <1>1, <1>2 DEF Plus
  <1> QED BY <1>3 DEF more

LEMMA SenderStarts == SenderInit => SenderInv
PROOF
  <1> SUFFICES ASSUME SenderInit
               PROVE  SenderInv
    OBVIOUS
  <1>1. circuit \in Breaker
    BY DEF SenderInit, NewBreaker, NoCalls, Breaker, Counters, States, Outcomes, NoTime
  <1>2. retries \in [Entries -> 0..MaxRetries]
    BY SenderAssumption DEF SenderInit
  <1>3. <<>> \in Distinct(0) /\ Len(<<>>) = 0
    BY NoneDistinct
  <1>4. Sound(0, <<>>, <<>>, flight, {}, lost)
    <2>1. flight = [f \in Flights |-> flight[f]] /\ \A f \in Flights : flight[f].batch = <<>>
      BY DEF SenderInit, Idle
    <2>2. lost = [r \in Reasons |-> lost[r]] /\ \A r \in Reasons : lost[r] = {}
      BY DEF SenderInit, Reasons, NoLoss
    <2>3. \A e : e \notin 1..0
      OBVIOUS
    <2> QED BY <1>3, <2>1, <2>2, <2>3 DEF Sound
  <1> QED BY <1>1, <1>2, <1>3, <1>4, SenderAssumption DEF SenderInit, SenderInv

\* What the steps of a sender leave alone, and where they take the entries.
Kind == sender \in Senders /\ recorded \in 0..MaxEntries /\ clock \in Nat

Contents ==
  /\ retries \in [Entries -> 0..MaxRetries] /\ circuit \in Breaker
  /\ Len(buffer) <= MaxBufferSize
  /\ Sound(recorded, <<>>, buffer, flight, acked, lost)

\* An entry that is recorded may still find the buffer full.
LEMMA RecordedSound ==
  ASSUME Kind, Contents, Recorded
  PROVE  \E F : /\ recorded' \in Nat /\ recorded' <= MaxEntries
                /\ Dropped = Loss(F, {}, {}, {})
                /\ Sound(recorded', <<>>, Taken, flight, acked, Plus(lost, Loss(F, {}, {}, {})))
                /\ Len(Taken) <= MaxBufferSize
PROOF
  <1>1. /\ recorded \in Nat /\ recorded < MaxEntries /\ MaxEntries \in Nat /\ MaxBufferSize \in Nat
        /\ recorded' = recorded + 1 /\ NextEntry = recorded + 1
    BY SenderAssumption DEF Kind, Recorded, NextEntry
  <1>2. recorded' \in Nat /\ recorded' <= MaxEntries
    BY <1>1
  <1>3. /\ buffer \in Distinct(recorded) /\ Len(buffer) \in Nat /\ Len(buffer) <= MaxBufferSize
    BY <1>1, DistinctIs DEF Contents, Sound
  <1>4. /\ Sound(recorded + 1, <<>>, Append(buffer, recorded + 1), flight, acked, Plus(lost, Loss({}, {}, {}, {})))
        /\ Sound(recorded + 1, <<>>, buffer, flight, acked, Plus(lost, Loss({recorded + 1}, {}, {}, {})))
    BY <1>1, TakesOne DEF Contents
  <1>5. CASE Full
    <2>1. Dropped = Loss({recorded + 1}, {}, {}, {}) /\ Taken = buffer
      BY <1>1, <1>5, NoneLost, LostAsFull DEF Dropped, Taken
    <2> QED BY <1>1, <1>2, <1>3, <1>4, <2>1
  <1>6. CASE ~Full
    <2>1. Dropped = Loss({}, {}, {}, {}) /\ Taken = Append(buffer, recorded + 1)
      BY <1>1, <1>6, NoneLost, LostAsFull DEF Dropped, Taken
    <2>2. Len(Append(buffer, recorded + 1)) = Len(buffer) + 1
      BY <1>1, <1>3, Appended
    <2>3. Len(buffer) + 1 <= MaxBufferSize
      BY <1>1, <1>3, <1>6 DEF Full
    <2> QED BY <1>1, <1>2, <1>4, <2>1, <2>2, <2>3
  <1> QED BY <1>5, <1>6

LEMMA SenderSteps == SenderInv /\ [SenderNext]_senderVars => SenderInv'
PROOF
  <1> SUFFICES ASSUME Kind, Contents, [SenderNext]_senderVars
               PROVE  Kind' /\ Contents'
    BY DEF SenderInv, Kind, Contents
  <1>0. /\ recorded \in Nat /\ recorded <= MaxEntries /\ MaxEntries \in Nat
        /\ Plus(lost, Loss({}, {}, {}, {})) = lost /\ NoLoss = Loss({}, {}, {}, {})
    <2>1. recorded \in Nat /\ recorded <= MaxEntries /\ MaxEntries \in Nat
      BY SenderAssumption DEF Kind
    <2>2. Plus(lost, Loss({}, {}, {}, {})) = lost
      BY <2>1, NothingLost DEF Contents
    <2> QED BY <2>1, <2>2, NoneLost
  <1>1. CASE Log
    <2>1. /\ Recorded /\ UNCHANGED <<sender, clock, closed, acked>>
          /\ \/ Len(Taken) >= BatchSize /\ Flush(Taken, Dropped)
             \/ /\ Len(Taken) < BatchSize
                /\ buffer' = Taken /\ Lose(Dropped)
                /\ UNCHANGED <<retries, flight, circuit>>
      BY <1>1 DEF Log
    <2>2. PICK F : /\ recorded' \in Nat /\ recorded' <= MaxEntries
                   /\ Dropped = Loss(F, {}, {}, {})
                   /\ Sound(recorded', <<>>, Taken, flight, acked, Plus(lost, Loss(F, {}, {}, {})))
                   /\ Len(Taken) <= MaxBufferSize
      BY <2>1, RecordedSound
    <2>3. Kind'
      BY <1>0, <2>1, <2>2 DEF Kind
    <2>4. CASE Flush(Taken, Dropped)
      <3>1. Flush(Taken, Loss(F, {}, {}, {}))
        BY <2>2, <2>4
      <3>2. /\ Sound(recorded', <<>>, buffer', flight', acked, lost')
            /\ Len(buffer') <= MaxBufferSize /\ retries' \in [Entries -> 0..MaxRetries]
            /\ circuit' \in Breaker
        BY <2>2, <3>1, FlushKeeps DEF Contents, Kind
      <3> QED BY <2>1, <2>3, <3>2 DEF Contents
    <2>5. CASE /\ buffer' = Taken /\ Lose(Dropped)
               /\ UNCHANGED <<retries, flight, circuit>>
      <3>1. lost' = Plus(lost, Loss(F, {}, {}, {}))
        BY <2>2, <2>5 DEF Lose, Plus, Reasons
      <3> QED BY <2>1, <2>2, <2>3, <2>5, <3>1 DEF Contents
    <2> QED BY <2>1, <2>4, <2>5
  <1>2. CASE RecordMetric
    <2>1. /\ Recorded /\ buffer' = Taken /\ Lose(Dropped)
          /\ UNCHANGED <<sender, retries, flight, circuit, clock, closed, acked>>
      BY <1>2 DEF RecordMetric
    <2>2. PICK F : /\ recorded' \in Nat /\ recorded' <= MaxEntries
                   /\ Dropped = Loss(F, {}, {}, {})
                   /\ Sound(recorded', <<>>, Taken, flight, acked, Plus(lost, Loss(F, {}, {}, {})))
                   /\ Len(Taken) <= MaxBufferSize
      BY <2>1, RecordedSound
    <2>3. lost' = Plus(lost, Loss(F, {}, {}, {}))
      BY <2>1, <2>2 DEF Lose, Plus, Reasons
    <2> QED BY <1>0, <2>1, <2>2, <2>3 DEF Kind, Contents
  <1>3. ASSUME Flush(buffer, NoLoss), UNCHANGED <<sender, recorded, clock, acked>>
        PROVE  Kind' /\ Contents'
    <2>1. /\ Sound(recorded, <<>>, buffer', flight', acked, lost')
          /\ Len(buffer') <= MaxBufferSize /\ retries' \in [Entries -> 0..MaxRetries]
          /\ circuit' \in Breaker
      <3>1. Flush(buffer, Loss({}, {}, {}, {}))
        BY <1>0, <1>3
      <3>2. Sound(recorded, <<>>, buffer, flight, acked, Plus(lost, Loss({}, {}, {}, {})))
        BY <1>0 DEF Contents
      <3> QED BY <1>0, <3>1, <3>2, FlushKeeps DEF Contents, Kind
    <2> QED BY <1>3, <2>1 DEF Kind, Contents
  <1>4. CASE TimerFlush
    BY <1>3, <1>4 DEF TimerFlush
  <1>5. CASE Close
    <2>1. CASE buffer = <<>>
      BY <1>5, <2>1 DEF Close, Kind, Contents
    <2>2. CASE buffer # <<>>
      BY <1>3, <1>5, <2>2 DEF Close
    <2> QED BY <2>1, <2>2
  <1>6. CASE ClockTick
    BY <1>6 DEF ClockTick, Kind, Contents
  <1>7. ASSUME NEW f \in Flights, Answered(f) \/ Fails(f)
        PROVE  Kind' /\ Contents'
    <2>1. Sound(recorded, flight[f].batch, buffer, [flight EXCEPT ![f] = Idle], acked, lost)
      BY <1>0, Lands DEF Contents
    <2>2. \A g, e \in Endings : Uncounted(Settle(circuit, e, 0, g, CircuitConfig, clock)) \in Breaker
      BY CircuitHears DEF Kind, Contents
    <2>3. circuit' \in Breaker
      <3>1. PICK e \in Endings : circuit' = Uncounted(Settle(circuit, e, 0, flight[f].gen, CircuitConfig, clock))
        BY <1>7 DEF Answered, Fails, Endings
      <3> QED BY <3>1, CircuitHears DEF Kind, Contents
    <2>4. CASE Answered(f)
      <3>1. Sound(recorded, <<>>, buffer, [flight EXCEPT ![f] = Idle], acked \cup ToSet(flight[f].batch), lost)
        BY <1>0, <2>1, Delivers
      <3> QED BY <2>3, <2>4, <3>1 DEF Answered, Kind, Contents
    <2>5. CASE Fails(f)
      <3>1. Requeue(flight[f].batch, buffer, Loss({}, {}, {}, {}))
        BY <1>0, <2>5 DEF Fails
      <3>2. /\ Sound(recorded, <<>>, buffer', [flight EXCEPT ![f] = Idle], acked, lost')
            /\ Len(buffer') <= MaxBufferSize /\ retries' \in [Entries -> 0..MaxRetries]
        BY <1>0, <2>1, <3>1, RequeueKeeps DEF Contents
      <3> QED BY <2>3, <2>5, <3>2 DEF Fails, Kind, Contents
    <2> QED BY <1>7, <2>4, <2>5
  <1>8. CASE UNCHANGED senderVars
    BY <1>8 DEF senderVars, Kind, Contents
  <1> QED BY <1>1, <1>2, <1>4, <1>5, <1>6, <1>7, <1>8 DEF SenderNext

\* Where the entries of a buffer are: each that was recorded is in the buffer, on its way,
\* delivered or given up, and nowhere else (winston-http.transport.ts:124-175,
\* metrics.service.ts:95-160).
THEOREM SenderInvariance == SenderSpec => []SenderInv
PROOF
  BY SenderStarts, SenderSteps, PTL DEF SenderSpec

\* However many flushes overlap, fail and put their batches back, and whatever the sizes, the
\* buffer keeps its bound and every entry is in one place and there once
\* (winston-http.transport.ts:124-175, metrics.service.ts:95-160).
THEOREM EntriesAreAccounted == SenderSpec => []EntriesAccounted
PROOF
  <1>1. SenderInv => EntriesAccounted
    <2> SUFFICES ASSUME SenderInv
                 PROVE  EntriesAccounted
      OBVIOUS
    <2>1. recorded \in Nat /\ Sound(recorded, <<>>, buffer, flight, acked, lost)
      BY SenderAssumption DEF SenderInv
    <2>2. /\ buffer \in Distinct(recorded) /\ ToSet(buffer) \subseteq 1..recorded
          /\ ToSet(<<>>) = {} /\ acked \subseteq 1..recorded
      BY <2>1, DistinctIs, NoneDistinct DEF Sound
    <2>3. SenderTypeOK
      BY <2>2 DEF SenderInv, SenderTypeOK
    <2>4. IsInjective(buffer)
      BY <2>2 DEF Distinct
    <2>5. DOMAIN lost = Reasons
      BY <2>1 DEF Sound
    <2>6. ASSUME NEW e \in 1..recorded
          PROVE  1 = (IF e \in ToSet(buffer) THEN 1 ELSE 0) + Cardinality(Carrying(e))
                     + (IF e \in acked THEN 1 ELSE 0) + Cardinality(LostFor(e))
      <3>1. InOnePlace(e, <<>>, buffer, flight, acked, lost) /\ e \notin ToSet(<<>>)
        BY <2>1, <2>2 DEF Sound
      <3>2. Cardinality(Carrying(e)) = IF Sent(e, flight) THEN 1 ELSE 0
        <4>1. CASE Sent(e, flight)
          <5>1. PICK f \in Flights : e \in ToSet(flight[f].batch)
            BY <4>1 DEF Sent
          <5>2. Carrying(e) = {f}
            BY <3>1, <5>1 DEF Carrying, InOnePlace
          <5> QED BY <4>1, <5>2, FS_Singleton
        <4>2. CASE ~Sent(e, flight)
          <5>1. Carrying(e) = {}
            BY <4>2 DEF Carrying, Sent
          <5> QED BY <4>2, <5>1, FS_EmptySet
        <4> QED BY <4>1, <4>2
      <3>3. Cardinality(LostFor(e)) = IF GivenUp(e, lost) THEN 1 ELSE 0
        <4>1. CASE GivenUp(e, lost)
          <5>1. PICK r \in Reasons : e \in lost[r]
            BY <4>1 DEF GivenUp
          <5>2. LostFor(e) = {r}
            BY <2>5, <3>1, <5>1 DEF LostFor, InOnePlace
          <5> QED BY <4>1, <5>2, FS_Singleton
        <4>2. CASE ~GivenUp(e, lost)
          <5>1. LostFor(e) = {}
            BY <2>5, <4>2 DEF LostFor, GivenUp
          <5> QED BY <4>2, <5>1, FS_EmptySet
        <4> QED BY <4>1, <4>2
      <3> QED BY <3>1, <3>2, <3>3 DEF InOnePlace
    <2> QED BY <2>3, <2>4, <2>6 DEF SenderInv, EntriesAccounted
  <1> QED BY <1>1, SenderInvariance, PTL
=============================================================================

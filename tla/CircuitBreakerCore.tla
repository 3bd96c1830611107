--------------------------- MODULE CircuitBreakerCore ---------------------------
(***************************************************************************)
(* The synchronous part of class CircuitBreaker: its mutable fields as one *)
(* record `b', its configuration as a record `c', and one operator per     *)
(* private or duck-typed method, taking the clock as an argument.  Nothing *)
(* here waits: JavaScript runs each of these methods to completion.        *)
(***************************************************************************)
EXTENDS Integers, Sequences, FiniteSets

States   == {"CLOSED", "OPEN", "HALF_OPEN"}
Outcomes == {"success", "failure", "slow"}    \* CallOutcome

NoTime == -1                                  \* openedAt = null

Config ==
  [failureThreshold: Nat, slowCallThreshold: Nat, slowCallDurationMs: Nat,
   minimumCalls: Nat, slidingWindowSize: Nat, halfOpenMaxCalls: Nat,
   openTimeoutMs: Nat]

ValidateConfig(c) ==
  /\ c.failureThreshold \in 0..100
  /\ c.slowCallThreshold \in 0..100
  /\ c.slidingWindowSize >= 1
  /\ c.minimumCalls >= 1
  /\ c.minimumCalls <= c.slidingWindowSize
  /\ c.halfOpenMaxCalls >= 1
  /\ c.openTimeoutMs >= 1
  /\ c.slowCallDurationMs >= 1

\* What getMetrics() reports of the calls so far.
Counters ==
  [totalCalls: Nat, successfulCalls: Nat, failedCalls: Nat, slowCalls: Nat,
   notPermittedCalls: Nat]

Breaker ==
  [state: States, window: Seq(Outcomes), openedAt: Nat \cup {NoTime},
   halfOpenCalls: Nat, halfOpenSuccesses: Nat, generation: Nat,
   counters: Counters]

NoCalls ==
  [totalCalls |-> 0, successfulCalls |-> 0, failedCalls |-> 0, slowCalls |-> 0,
   notPermittedCalls |-> 0]

NewBreaker ==
  [state |-> "CLOSED", window |-> <<>>, openedAt |-> NoTime,
   halfOpenCalls |-> 0, halfOpenSuccesses |-> 0, generation |-> 0,
   counters |-> NoCalls]

-----------------------------------------------------------------------------

(* The counters *)

CountAdmission(b) ==
  [b EXCEPT !.counters = [b.counters EXCEPT !.totalCalls = @ + 1]]

CountRejection(b) ==
  [b EXCEPT !.counters = [b.counters EXCEPT !.notPermittedCalls = @ + 1]]

CountFailure(b) ==
  [b EXCEPT !.counters = [b.counters EXCEPT !.failedCalls = @ + 1]]

CountSuccess(b, isSlow) ==
  [b EXCEPT !.counters =
     [b.counters EXCEPT !.successfulCalls = @ + 1,
                        !.slowCalls = IF isSlow THEN @ + 1 ELSE @]]

-----------------------------------------------------------------------------
(* State transitions, the window and the outcomes *)

\* Operators named Mut... are deliberate mistakes.  No specification uses them:
\* each stands beside the operator it would replace to show that a property
\* notices.

\* Mistake: the outcomes of calls started before an opening stay current.
MutTransitionToSameGeneration(b, next, now) ==
  [state |-> next,
   openedAt |-> IF next = "OPEN" THEN now ELSE b.openedAt,
   window |-> IF next = "OPEN" THEN b.window ELSE <<>>,
   halfOpenCalls |-> 0,
   halfOpenSuccesses |-> 0,
   generation |-> IF next = "OPEN" THEN b.generation ELSE b.generation + 1,
   counters |-> b.counters]

\* Mistake: a reopening keeps the time of the first opening.
MutTransitionToFirstOpening(b, next, now) ==
  [state |-> next,
   openedAt |-> CASE next = "OPEN" /\ b.openedAt = NoTime -> now
                  [] next = "CLOSED" -> NoTime
                  [] OTHER           -> b.openedAt,
   window |-> IF next = "OPEN" THEN b.window ELSE <<>>,
   halfOpenCalls |-> 0,
   halfOpenSuccesses |-> 0,
   generation |-> b.generation + 1,
   counters |-> b.counters]

\* onStateChange is observational (its exceptions are swallowed); a callback
\* that calls back into the breaker is not modelled.
TransitionTo(b, next, now) ==
  [state |-> next,
   openedAt |-> CASE next = "OPEN"      -> now
                  [] next = "HALF_OPEN" -> b.openedAt
                  [] next = "CLOSED"    -> NoTime,
   window |-> IF next = "OPEN" THEN b.window ELSE <<>>,
   halfOpenCalls |-> 0,
   halfOpenSuccesses |-> 0,
   generation |-> b.generation + 1,
   counters |-> b.counters]

TimedOut(b, c, now) ==
  /\ b.state = "OPEN"
  /\ b.openedAt # NoTime
  /\ now - b.openedAt >= c.openTimeoutMs

SyncState(b, c, now) ==
  IF TimedOut(b, c, now) THEN TransitionTo(b, "HALF_OPEN", now) ELSE b

\* The answer of canAttempt() once it has called syncState().
Permitted(b, c) ==
  \/ b.state = "CLOSED"
  \/ b.state = "HALF_OPEN" /\ b.halfOpenCalls < c.halfOpenMaxCalls

\* execute() between canAttempt() and its task.
Admitted(b) ==
  CountAdmission(IF b.state = "HALF_OPEN"
                 THEN [b EXCEPT !.halfOpenCalls = @ + 1]
                 ELSE b)

Occurrences(w, o) == Cardinality({i \in DOMAIN w : w[i] = o})

\* evaluateThresholds(): a rate is compared with a whole percentage.  The code
\* divides in floating point; for windows of at most 20 calls the comparison
\* is the exact one.
Tripped(w, c) ==
  LET failures == Occurrences(w, "failure")
      slow     == Occurrences(w, "slow")
  IN /\ Len(w) >= c.minimumCalls
     /\ \/ /\ failures > 0
           /\ 100 * failures >= c.failureThreshold * Len(w)
        \/ /\ slow > 0
           /\ c.slowCallThreshold < 100
           /\ 100 * slow >= c.slowCallThreshold * Len(w)

\* The window after one more outcome: at most one old outcome is dropped.
Slide(w, o, c) ==
  Append(IF Len(w) >= c.slidingWindowSize THEN Tail(w) ELSE w, o)

\* Mistake: the thresholds are evaluated before the new outcome is pushed.
MutRecordEvaluatesFirst(b, o, c, now) ==
  LET r == [b EXCEPT !.window = Slide(b.window, o, c)]
  IN IF r.state = "CLOSED" /\ Tripped(b.window, c)
     THEN TransitionTo(r, "OPEN", now)
     ELSE r

Record(b, o, c, now) ==
  LET r == [b EXCEPT !.window = Slide(b.window, o, c)]
  IN IF r.state = "CLOSED" /\ Tripped(r.window, c)
     THEN TransitionTo(r, "OPEN", now)
     ELSE r

\* Mistake: one success too many is asked of the cohort.
MutPassProbeOneMore(b, c, now) ==
  LET p == [b EXCEPT !.halfOpenSuccesses = @ + 1]
  IN IF b.state # "HALF_OPEN" THEN b
     ELSE IF p.halfOpenSuccesses > c.halfOpenMaxCalls
          THEN TransitionTo(p, "CLOSED", now)
          ELSE p

\* The HALF_OPEN tail shared by onSuccess() and the business branch of onError().
PassProbe(b, c, now) ==
  LET p == [b EXCEPT !.halfOpenSuccesses = @ + 1]
  IN IF b.state # "HALF_OPEN" THEN b
     ELSE IF p.halfOpenSuccesses >= c.halfOpenMaxCalls
          THEN TransitionTo(p, "CLOSED", now)
          ELSE p

\* Mistake: a success counts for whatever state the breaker is in by now.
MutOnSuccessStale(b, duration, gen, c, now) ==
  LET isSlow  == duration >= c.slowCallDurationMs
      counted == CountSuccess(b, isSlow)
  IN PassProbe(Record(counted, IF isSlow THEN "slow" ELSE "success", c, now), c, now)

OnSuccess(b, duration, gen, c, now) ==
  LET isSlow  == duration >= c.slowCallDurationMs
      counted == CountSuccess(b, isSlow)
  IN IF gen # b.generation THEN counted
     ELSE PassProbe(Record(counted, IF isSlow THEN "slow" ELSE "success", c, now),
                    c, now)

OnInfrastructureError(b, gen, c, now) ==
  LET counted == CountFailure(b)
      failed  == Record(counted, "failure", c, now)
  IN IF gen # b.generation THEN counted
     ELSE IF failed.state = "HALF_OPEN" THEN TransitionTo(failed, "OPEN", now)
     ELSE failed

OnBusinessError(b, gen, c, now) ==
  LET counted == CountSuccess(b, FALSE)
  IN IF gen # b.generation THEN counted
     ELSE PassProbe(Record(counted, "success", c, now), c, now)

\* How a task ends: it resolves, or rejects with an error that classify()
\* calls infrastructure (or fails to classify), or with a business error.
Endings == {"ok", "infra", "business"}

Settle(b, ending, duration, gen, c, now) ==
  CASE ending = "ok"       -> OnSuccess(b, duration, gen, c, now)
    [] ending = "infra"    -> OnInfrastructureError(b, gen, c, now)
    [] ending = "business" -> OnBusinessError(b, gen, c, now)

\* reset(): the counters restart, the generation does not.
Reset(b, now) == [TransitionTo(b, "CLOSED", now) EXCEPT !.counters = NoCalls]
=============================================================================

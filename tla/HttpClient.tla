------------------------------- MODULE HttpClient -------------------------------
(***************************************************************************)
(* One HttpClient of the http-client package: requests that pass the       *)
(* pipeline of steps, ask the circuit breaker, call axios and retry, while *)
(* the application cancels by key.  The breaker is CircuitBreakerCore; its *)
(* mutex, which nobody holds over an await of the network, is one step.    *)
(***************************************************************************)
EXTENDS CircuitBreakerCore

CONSTANTS Requests, Keys, NoKey,
          Attempts,              \* retry.attempts
          BreakerConfig,
          MaxCancels, MaxTime    \* bounds

ASSUME ClientAssumption ==
  /\ NoKey \notin Keys /\ Attempts \in Nat
  /\ BreakerConfig \in Config /\ ValidateConfig(BreakerConfig)
  /\ MaxCancels \in Nat /\ MaxTime \in Nat

VARIABLES pc, key, attempt,
          held,        \* the cancel token a request gave to axios
          ending,      \* how its last attempt ended, then the type of its Result
          gen,         \* the breaker's generation at admission
          tokens,      \* CancelManager: the token under each key
          cancelled,   \* the tokens that were cancelled
          issued,      \* how many tokens there were
          metrics, breaker, now,
          asked,       \* the requests in flight when their key was cancelled
          late,        \* those of them that axios had answered already when it first was
          crowded,     \* the requests that shared a key while in flight
          astray,      \* the requests that left the pipeline without their key
          cancels

requestVars == <<pc, key, attempt, held, ending, gen>>
tokenVars == <<tokens, cancelled, issued>>
history == <<asked, late, crowded, astray, cancels>>
vars == <<requestVars, tokenVars, metrics, breaker, now, history>>

NoToken == 0
Metrics == {"requests", "success", "failed", "cancelled", "circuitOpen", "retried"}

Init ==
  /\ pc = [r \in Requests |-> "idle"]
  /\ key \in [Requests -> Keys \cup {NoKey}]
  /\ attempt = [r \in Requests |-> 0]
  /\ held = [r \in Requests |-> NoToken]
  /\ ending = [r \in Requests |-> "none"]
  /\ gen = [r \in Requests |-> 0]
  /\ tokens = [k \in Keys |-> NoToken]
  /\ cancelled = {} /\ issued = 0
  /\ metrics = [m \in Metrics |-> 0]
  /\ breaker = NewBreaker /\ now = 0
  /\ asked = {} /\ late = {} /\ crowded = {} /\ astray = {} /\ cancels = 0

Active == {"pipeline", "calling", "sleeping"}
InFlight(k) == {r \in Requests : key[r] = k /\ pc[r] \in Active \cup {"answered"}}

Count(m) == metrics' = [metrics EXCEPT ![m] = @ + 1]

Ends(r, result) ==
  /\ pc' = [pc EXCEPT ![r] = "done"]
  /\ ending' = [ending EXCEPT ![r] = result]

-----------------------------------------------------------------------------
(* The CancelManager *)

GetOrCreate(k) ==
  IF tokens[k] # NoToken
  THEN UNCHANGED <<tokens, issued>>
  ELSE /\ issued' = issued + 1
       /\ tokens' = [tokens EXCEPT ![k] = issued + 1]

Delete(k) == tokens' = IF k = NoKey THEN tokens ELSE [tokens EXCEPT ![k] = NoToken]

\* The caller asks to cancel requests in flight: also one that axios has answered and whose
\* report is awaited, which still has its key.
Asks(requests) ==
  /\ asked' = asked \cup requests
  /\ late' = late \cup {r \in requests \ asked : pc[r] = "answered"}

\* Cancelling a key that is not registered counts, too.
CancelRequest(k) ==
  /\ cancels < MaxCancels
  /\ cancels' = cancels + 1
  /\ cancelled' = cancelled \cup ({tokens[k]} \ {NoToken})
  /\ Delete(k)
  /\ Count("cancelled")
  /\ Asks(InFlight(k))
  /\ UNCHANGED <<requestVars, issued, breaker, now, crowded, astray>>

CancelAll ==
  /\ cancels < MaxCancels
  /\ cancels' = cancels + 1
  /\ LET registered == {tokens[k] : k \in Keys} \ {NoToken}
     IN  /\ cancelled' = cancelled \cup registered
         /\ metrics' = [metrics EXCEPT !["cancelled"] = @ + Cardinality(registered)]
  /\ tokens' = [k \in Keys |-> NoToken]
  /\ Asks(UNION {InFlight(k) : k \in Keys})
  /\ UNCHANGED <<requestVars, issued, breaker, now, crowded, astray>>

-----------------------------------------------------------------------------
(* execute() *)

\* The token is there before the first await: a request can be cancelled at once.
Execute(r) ==
  /\ pc[r] = "idle"
  /\ pc' = [pc EXCEPT ![r] = "pipeline"]
  /\ Count("requests")
  /\ IF key[r] = NoKey THEN UNCHANGED <<tokens, issued>> ELSE GetOrCreate(key[r])
  /\ crowded' = IF key[r] # NoKey /\ InFlight(key[r]) # {}
                THEN crowded \cup {r} \cup InFlight(key[r]) ELSE crowded
  /\ UNCHANGED <<key, attempt, held, ending, gen, cancelled, breaker, now, asked, late, astray, cancels>>

\* A step of the pipeline fails or throws: the token stays behind.
PipelineFails(r) ==
  /\ pc[r] = "pipeline"
  /\ Ends(r, "step")
  /\ Count("failed")
  /\ astray' = astray \cup {r}
  /\ UNCHANGED <<key, attempt, held, gen, tokenVars, breaker, now, asked, late, crowded, cancels>>

\* Mistake: the key is registered again after the pipeline, cancelled or not.
MutBailOut(r) == FALSE

BailOut(r) == key[r] # NoKey /\ tokens[key[r]] = NoToken

PipelineCancelled(r) ==
  /\ pc[r] = "pipeline"
  /\ BailOut(r)
  /\ Ends(r, "cancelled")
  /\ Count("failed")
  /\ UNCHANGED <<key, attempt, held, gen, tokenVars, breaker, now, history>>

\* A step may hand on a context without the key: it is forgotten, its token is not.
DropKey(r) ==
  /\ pc[r] = "pipeline"
  /\ key[r] # NoKey
  /\ key' = [key EXCEPT ![r] = NoKey]
  /\ astray' = astray \cup {r}
  /\ UNCHANGED <<pc, attempt, held, ending, gen, tokenVars, metrics, breaker, now, asked, late, crowded, cancels>>

\* The breaker is asked once, before the first attempt.
PipelinePasses(r) ==
  /\ pc[r] = "pipeline"
  /\ ~BailOut(r)
  /\ held' = [held EXCEPT ![r] = IF key[r] = NoKey THEN NoToken ELSE tokens[key[r]]]
  /\ LET b == SyncState(breaker, BreakerConfig, now)
     IN  IF Permitted(b, BreakerConfig)
         THEN /\ breaker' = Admitted(b)
              /\ gen' = [gen EXCEPT ![r] = b.generation]
              /\ pc' = [pc EXCEPT ![r] = "calling"]
              /\ UNCHANGED <<ending, metrics, tokens>>
         ELSE /\ breaker' = CountRejection(b)
              /\ Ends(r, "circuit-open")
              /\ Count("circuitOpen")
              /\ Delete(key[r])
              /\ UNCHANGED gen
  /\ UNCHANGED <<key, attempt, cancelled, issued, now, history>>

\* What axios may answer, by the type of normalizeError(): "transient" is a 5xx, a network
\* error or a timeout, "refused" any other status.
Answers(r) == IF held[r] \in cancelled THEN {"cancelled"} ELSE {"success", "transient", "refused"}

\* withRetry(): only transient errors are retried, inside the breaker's call.
Retries(r, answer) == answer = "transient" /\ attempt[r] < Attempts

\* Mistake: the breaker is inside the loop and hears of every attempt.
MutCallEnds(r) ==
  /\ pc[r] = "calling"
  /\ \E answer \in Answers(r) :
       IF Retries(r, answer)
       THEN /\ pc' = [pc EXCEPT ![r] = "sleeping"]
            /\ breaker' = Settle(breaker, "infra", 0, gen[r], BreakerConfig, now)
            /\ Count("retried")
            /\ UNCHANGED ending
       ELSE /\ pc' = [pc EXCEPT ![r] = "answered"]
            /\ ending' = [ending EXCEPT ![r] = answer]
            /\ UNCHANGED <<metrics, breaker>>
  /\ UNCHANGED <<key, attempt, held, gen, tokenVars, now, history>>

CallEnds(r) ==
  /\ pc[r] = "calling"
  /\ \E answer \in Answers(r) :
       IF Retries(r, answer)
       THEN /\ pc' = [pc EXCEPT ![r] = "sleeping"]
            /\ Count("retried")
            /\ UNCHANGED ending
       ELSE /\ pc' = [pc EXCEPT ![r] = "answered"]
            /\ ending' = [ending EXCEPT ![r] = answer]
            /\ UNCHANGED metrics
  /\ UNCHANGED <<key, attempt, held, gen, tokenVars, breaker, now, history>>

WakeUp(r) ==
  /\ pc[r] = "sleeping"
  /\ pc' = [pc EXCEPT ![r] = "calling"]
  /\ attempt' = [attempt EXCEPT ![r] = @ + 1]
  /\ UNCHANGED <<key, held, ending, gen, tokenVars, metrics, breaker, now, history>>

\* isAxiosServerError(): a cancelled call has no response and counts as a failure.
BreakerEnding(answer) ==
  CASE answer = "success" -> "ok" [] answer = "refused" -> "business" [] OTHER -> "infra"

\* Mistake: a request that fails keeps its key.
MutReport(r) ==
  /\ pc[r] = "answered"
  /\ breaker' = Settle(breaker, BreakerEnding(ending[r]), 0, gen[r], BreakerConfig, now)
  /\ Count(IF ending[r] = "success" THEN "success" ELSE "failed")
  /\ IF ending[r] = "success" THEN Delete(key[r]) ELSE UNCHANGED tokens
  /\ pc' = [pc EXCEPT ![r] = "done"]
  /\ UNCHANGED <<key, attempt, held, ending, gen, cancelled, issued, now, history>>

\* The breaker hears of the request, then the key is free again.
Report(r) ==
  /\ pc[r] = "answered"
  /\ breaker' = Settle(breaker, BreakerEnding(ending[r]), 0, gen[r], BreakerConfig, now)
  /\ Count(IF ending[r] = "success" THEN "success" ELSE "failed")
  /\ Delete(key[r])
  /\ pc' = [pc EXCEPT ![r] = "done"]
  /\ UNCHANGED <<key, attempt, held, ending, gen, cancelled, issued, now, history>>

Tick ==
  /\ now < MaxTime
  /\ now' = now + 1
  /\ UNCHANGED <<requestVars, tokenVars, metrics, breaker, history>>

RequestStep(r) ==
  \/ Execute(r) \/ DropKey(r) \/ PipelineFails(r) \/ PipelineCancelled(r) \/ PipelinePasses(r)
  \/ CallEnds(r) \/ WakeUp(r) \/ Report(r)

Next ==
  \/ \E r \in Requests : RequestStep(r)
  \/ \E k \in Keys : CancelRequest(k)
  \/ CancelAll
  \/ Tick

Spec == Init /\ [][Next]_vars

-----------------------------------------------------------------------------
(* Properties *)

Done(result) == {r \in Requests : pc[r] = "done" /\ ending[r] = result}
Flying == {r \in Requests : pc[r] \in Active \cup {"answered"}}
Asking == {r \in Requests : pc[r] \in {"calling", "sleeping", "answered"}}
Retried == {x \in Requests \X (1..Attempts) : x[2] <= attempt[x[1]]}    \* the attempts after the first

TypeOK ==
  /\ pc \in [Requests -> Active \cup {"idle", "answered", "done"}]
  /\ key \in [Requests -> Keys \cup {NoKey}]
  /\ attempt \in [Requests -> 0..Attempts]
  /\ held \in [Requests -> 0..issued]
  /\ tokens \in [Keys -> 0..issued]
  /\ cancelled \subseteq 1..issued
  /\ breaker \in Breaker

\* getMetrics(): every request is in flight or counted once, as what its Result says;
\* every retry is counted; and the breaker has heard exactly once, never once an attempt,
\* of each request that it let through (http-client.ts:173).
EachCountedOnce ==
  /\ metrics["requests"] = Cardinality({r \in Requests : pc[r] # "idle"})
  /\ metrics["success"] = Cardinality(Done("success"))
  /\ metrics["circuitOpen"] = Cardinality(Done("circuit-open"))
  /\ metrics["requests"] = Cardinality(Flying) + metrics["success"]
                           + metrics["failed"] + metrics["circuitOpen"]
  /\ metrics["retried"] = Cardinality(Retried) + Cardinality({r \in Requests : pc[r] = "sleeping"})
  /\ LET heard == breaker.counters.successfulCalls + breaker.counters.failedCalls
     IN  breaker.counters.totalCalls - heard = Cardinality(Asking)

\* A request that had its key to itself is cancelled only if somebody asked for it before axios
\* answered, and never succeeds once somebody did: in the pipeline, on the network or asleep
\* between two attempts (http-client.ts:145-199).  Who asks later, while the breaker is told,
\* cancels nothing (late), and nothing is said of requests that share a key (crowded).
CancelledAsAsked ==
  \A r \in Requests : pc[r] = "done" /\ r \notin crowded \cup astray =>
    /\ ending[r] = "cancelled" => r \in asked \ late
    /\ r \in asked \ late => ending[r] # "success"

\* What "cancel by key at any time" (README.md:181) says.  The code breaks it: until the breaker
\* has heard of the answer the key is registered (http-client.ts:188-195), so cancelRequest()
\* takes it and counts a cancellation, and the request succeeds.
CancelledAtAnyTime ==
  \A r \in Requests : pc[r] = "done" /\ r \in asked \ (crowded \cup astray) => ending[r] # "success"

\* The map of tokens does not grow: a key is registered only while a request with it is in
\* flight, or after the pipeline lost one.
TokensReleased ==
  /\ TypeOK
  /\ \A k \in Keys : tokens[k] # NoToken => InFlight(k) # {} \/ astray # {}
=============================================================================

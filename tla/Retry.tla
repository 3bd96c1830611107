---------------------------------- MODULE Retry ----------------------------------
(***************************************************************************)
(* The executions of one RetryEngine of the retry package: RetryExecutor's *)
(* attempt loop, its TimeoutManager, the sliding-window budget and the     *)
(* result cache the executions share, and the circuit breaker and bulkhead *)
(* they go through, which are known by the answers the executor waits for. *)
(* Time is what fires: an attempt's or the global timer may fire whenever  *)
(* it is set.  The executions fit into one window of the budget.           *)
(***************************************************************************)
EXTENDS Integers, FiniteSets

CONSTANTS Runs,
          MaxAttempts,
          MinRequests, RatioPct, \* the budget's minRequestCount and 100 * maxRetryRatio
          HasFallback,
          CustomConditions,      \* are retryIf and abortIf the caller's?
          Keyed,                 \* do the executions share an idempotency key?
          MaxFaults              \* bound on the failures of the idempotency store

ASSUME ConstantAssumption ==
  /\ MaxAttempts \in Nat \ {0}
  /\ MinRequests \in Nat \ {0} /\ RatioPct \in 0..100
  /\ HasFallback \in BOOLEAN /\ CustomConditions \in BOOLEAN /\ Keyed \in BOOLEAN
  /\ MaxFaults \in Nat

VARIABLES pc,        \* where each execution is
          attempt,   \* the attempt it is at
          timedOut,  \* the executions whose global timeout fired
          calls, retries,      \* the budget's
          cached,    \* is there a result under the key?
          started,   \* how many tasks each execution started
          verdicts,  \* of each one's present attempt: what the breaker was told
          faulted,   \* and could its result not be stored?
          faults

shared  == <<calls, retries, cached>>
history == <<started, faulted, faults>>
vars == <<pc, attempt, timedOut, shared, verdicts, history>>

\* "threw": execute() rejects.
Settled == {"ok", "failed", "threw"}

TypeOK ==
  /\ pc \in [Runs -> {"idle", "lookup", "ready", "queued", "executing", "storing",
                      "sleeping", "falling"} \cup Settled]
  /\ attempt \in [Runs -> 1..MaxAttempts]
  /\ timedOut \subseteq Runs
  /\ calls \in Nat /\ retries \in Nat
  /\ cached \in BOOLEAN
  /\ verdicts \in [Runs -> SUBSET {"success", "error"}]
  /\ started \in [Runs -> 0..MaxAttempts]
  /\ faulted \subseteq Runs
  /\ faults \in 0..MaxFaults

Init ==
  /\ pc = [r \in Runs |-> "idle"]
  /\ attempt = [r \in Runs |-> 1]
  /\ timedOut = {} /\ faulted = {}
  /\ calls = 0 /\ retries = 0
  /\ cached = FALSE
  /\ verdicts = [r \in Runs |-> {}]
  /\ started = [r \in Runs |-> 0]
  /\ faults = 0

Goes(r, where) == pc' = [pc EXCEPT ![r] = where]

-----------------------------------------------------------------------------
(* The budget *)

\* Mistake: the minimum is exempt, too.
MutExempt == calls =< MinRequests

\* tryConsume(): a retry that is let through below the minimum is not recorded.
Exempt == calls < MinRequests

Consumes == ~Exempt /\ retries * 100 < RatioPct * calls

-----------------------------------------------------------------------------
(* What ends an attempt *)

\* The default conditions follow the classifier: "transient" errors (429, 5xx,
\* network, timeouts) are retried, "permanent" ones (all others) abort.
Aborts(e)  == IF CustomConditions THEN BOOLEAN ELSE {e = "permanent"}
Retries(e) == IF CustomConditions THEN BOOLEAN ELSE {e = "transient"}

\* Exhausted: the fallback is asked, if there is one.
GiveUp(r) == Goes(r, IF HasFallback THEN "falling" ELSE "failed")

\* The breaker hears of transient errors only.
Tell(r, e) ==
  verdicts' = [verdicts EXCEPT ![r] = IF e = "transient" THEN @ \cup {"error"} ELSE @]

\* The catch of the attempt loop: the hooks and conditions it awaits share no state.
Failed(r, e) ==
  /\ Tell(r, e)
  /\ \E abort \in Aborts(e), retry \in Retries(e) :
       \/ abort /\ Goes(r, "failed") /\ UNCHANGED retries
       \/ /\ ~abort
          /\ ~retry \/ attempt[r] = MaxAttempts \/ ~(Exempt \/ Consumes)
          /\ GiveUp(r)
          /\ UNCHANGED retries
       \/ /\ ~abort /\ retry /\ attempt[r] < MaxAttempts
          /\ Exempt \/ Consumes
          /\ retries' = IF Exempt THEN retries ELSE retries + 1
          /\ Goes(r, "sleeping")

-----------------------------------------------------------------------------
(* The attempt loop *)

Start(r) ==
  /\ pc[r] = "idle"
  /\ IF Keyed
       THEN Goes(r, "lookup") /\ UNCHANGED calls
       ELSE Goes(r, "ready") /\ calls' = calls + 1
  /\ UNCHANGED <<attempt, timedOut, retries, cached, verdicts, history>>

\* A failure of getResult() is not caught.
Lookup(r) ==
  /\ pc[r] = "lookup"
  /\ \/ cached /\ Goes(r, "ok") /\ UNCHANGED calls
     \/ ~cached /\ Goes(r, "ready") /\ calls' = calls + 1
     \/ MaxFaults > 0 /\ Goes(r, "threw") /\ UNCHANGED calls
  /\ UNCHANGED <<attempt, timedOut, retries, cached, verdicts, history>>

StartTask(r) ==
  /\ started' = [started EXCEPT ![r] = @ + 1]
  /\ Goes(r, "executing")

\* checkGlobalTimeout(): no fallback.
Overdue(r) ==
  /\ pc[r] = "ready" /\ r \in timedOut
  /\ Goes(r, "failed")
  /\ UNCHANGED <<attempt, timedOut, shared, verdicts, history>>

\* canAttempt() says no: no fallback, no budget and no retryIf.
CircuitOpen(r) ==
  /\ pc[r] = "ready" /\ r \notin timedOut
  /\ \E abort \in Aborts("transient") :
       Goes(r, IF attempt[r] = MaxAttempts \/ abort THEN "failed" ELSE "sleeping")
  /\ UNCHANGED <<attempt, timedOut, shared, verdicts, history>>

\* bulkhead.execute(): the task starts, waits for a permit, or is refused.  The
\* permits and the queue are also other clients'.
Execute(r) ==
  /\ pc[r] = "ready" /\ r \notin timedOut
  /\ \/ /\ StartTask(r)
        /\ UNCHANGED <<verdicts, retries>>
     \/ /\ Goes(r, "queued")
        /\ UNCHANGED <<started, verdicts, retries>>
     \/ /\ Failed(r, "permanent")   \* normalizeError() knows no bulkhead error
        /\ UNCHANGED started
  /\ UNCHANGED <<attempt, timedOut, calls, cached, faulted, faults>>

\* Mistake: the task starts whatever happened while it waited for its permit.
MutAdmit(r) ==
  /\ pc[r] = "queued"
  /\ StartTask(r) /\ UNCHANGED <<verdicts, retries>>
  /\ UNCHANGED <<attempt, timedOut, calls, cached, faulted, faults>>

\* A permit is handed on: executeWithAttemptTimeout() looks at the global timer first.
Admit(r) ==
  /\ pc[r] = "queued"
  /\ IF r \in timedOut
       THEN Failed(r, "transient") /\ UNCHANGED started
       ELSE StartTask(r) /\ UNCHANGED <<verdicts, retries>>
  /\ UNCHANGED <<attempt, timedOut, calls, cached, faulted, faults>>

\* The bulkhead's own queue timeout.
QueueTimeout(r) ==
  /\ pc[r] = "queued"
  /\ Failed(r, "permanent")
  /\ UNCHANGED <<attempt, timedOut, calls, cached, started, faulted, faults>>

TaskSucceeds(r) ==
  /\ pc[r] = "executing"
  /\ verdicts' = [verdicts EXCEPT ![r] = @ \cup {"success"}]
  /\ Goes(r, IF Keyed THEN "storing" ELSE "ok")
  /\ UNCHANGED <<attempt, timedOut, shared, history>>

TaskFails(r) ==
  /\ pc[r] = "executing"
  /\ \E e \in {"transient", "permanent"} : Failed(r, e)
  /\ UNCHANGED <<attempt, timedOut, calls, cached, history>>

\* The wait for the task is given up.  A task that ignores its signal goes on, but
\* no one listens to it any more.
AttemptTimeout(r) ==
  /\ pc[r] = "executing"
  /\ Failed(r, "transient")
  /\ UNCHANGED <<attempt, timedOut, calls, cached, history>>

\* Mistake: a success that is being stored is given up, too.
MutGlobalTimeoutDrops(r) ==
  /\ pc[r] \notin {"idle"} \cup Settled
  /\ r \notin timedOut
  /\ timedOut' = timedOut \cup {r}
  /\ IF pc[r] \in {"executing", "storing"}
       THEN Failed(r, "transient")
       ELSE UNCHANGED <<pc, verdicts, retries>>
  /\ UNCHANGED <<attempt, calls, cached, history>>

\* Mistake: the global abort is not forwarded to the attempt.
MutGlobalTimeoutWaits(r) ==
  /\ pc[r] \notin {"idle"} \cup Settled
  /\ r \notin timedOut
  /\ timedOut' = timedOut \cup {r}
  /\ UNCHANGED <<pc, attempt, calls, retries, cached, verdicts, history>>

\* globalTimeoutMs is over: an attempt under way is given up, all else goes on.
GlobalTimeout(r) ==
  /\ pc[r] \notin {"idle"} \cup Settled
  /\ r \notin timedOut
  /\ timedOut' = timedOut \cup {r}
  /\ IF pc[r] = "executing"
       THEN Failed(r, "transient")
       ELSE UNCHANGED <<pc, verdicts, retries>>
  /\ UNCHANGED <<attempt, calls, cached, history>>

\* storeResult(), inside the try: if it fails, so does the attempt.
StoreResult(r) ==
  /\ pc[r] = "storing"
  /\ cached' = TRUE
  /\ Goes(r, "ok")
  /\ UNCHANGED <<attempt, timedOut, calls, retries, verdicts, history>>

StoreFails(r) ==
  /\ pc[r] = "storing"
  /\ faults < MaxFaults
  /\ faults' = faults + 1
  /\ faulted' = faulted \cup {r}
  /\ \E e \in {"transient", "permanent"} : Failed(r, e)
  /\ UNCHANGED <<attempt, timedOut, calls, cached, started>>

Wake(r) ==
  /\ pc[r] = "sleeping"
  /\ attempt' = [attempt EXCEPT ![r] = @ + 1]
  /\ verdicts' = [verdicts EXCEPT ![r] = {}]
  /\ faulted' = faulted \ {r}
  /\ Goes(r, "ready")
  /\ UNCHANGED <<timedOut, shared, started, faults>>

Fallback(r) ==
  /\ pc[r] = "falling"
  /\ \E end \in {"ok", "threw"} : Goes(r, end)
  /\ UNCHANGED <<attempt, timedOut, shared, verdicts, history>>

Proceed(r) ==
  \/ Lookup(r) \/ Overdue(r) \/ CircuitOpen(r) \/ Execute(r) \/ Admit(r) \/ QueueTimeout(r)
  \/ StoreResult(r) \/ StoreFails(r) \/ Wake(r) \/ Fallback(r)

Next ==
  \/ \E r \in Runs :
       \/ Start(r) \/ Proceed(r)
       \/ TaskSucceeds(r) \/ TaskFails(r) \/ AttemptTimeout(r) \/ GlobalTimeout(r)

Spec == Init /\ [][Next]_vars

\* What is ready runs, sleeps end, the store, the bulkhead and the fallback answer,
\* and the global timer fires.  Nothing is assumed of the tasks.
FairSpec ==
  Spec /\ \A r \in Runs : WF_vars(Proceed(r)) /\ WF_vars(GlobalTimeout(r))

-----------------------------------------------------------------------------
(* Properties *)

CeilDiv(n, d) == (n + d - 1) \div d

\* The tasks that were not their execution's last: as many as were started again.
RetriedStarts == {task \in Runs \X (1..MaxAttempts) : task[2] < started[task[1]]}

\* The retries of all executions together, those below minRequestCount included,
\* which the budget does not record, stay within what those can add to the ratio
\* ("prevents retry storms").
RetriesBounded ==
  Cardinality(RetriedStarts)
    =< (MinRequests - 1) * (MaxAttempts - 1) + CeilDiv(RatioPct * calls, 100)

\* Once its global timeout fired no execution starts a task again, not even one
\* that waits in the bulkhead, sleeps, or is about to be retried.
NothingAfterGlobal ==
  [][\A r \in Runs : r \in timedOut => started'[r] = started[r]]_vars

\* The breaker is told of an attempt at most once, unless its result could not be
\* stored: then a success is reported as a failure, too.
OneVerdict ==
  \A r \in Runs : verdicts[r] = {"success", "error"} => r \in faulted

\* An execution with a global timeout ends, even if its tasks never do.
RunsSettle == \A r \in Runs : pc[r] # "idle" ~> pc[r] \in Settled
=============================================================================

----------------------------- MODULE CircuitBreaker -----------------------------
(***************************************************************************)
(* One CircuitBreaker shared by concurrent callers of execute().  Each     *)
(* call takes the breaker's AsyncMutex twice: once to be admitted, once to *)
(* report how its task ended.  Between an acquire() and the critical       *)
(* section behind it other microtasks run: other calls, the timers behind  *)
(* the tasks, and the methods that do not take the mutex (getState,        *)
(* getMetrics, updateConfig, reset, and the duck-typed canAttempt /        *)
(* onSuccess / onError of the retry package).                              *)
(***************************************************************************)
EXTENDS CircuitBreakerCore

CONSTANTS Calls,        \* invocations of execute()
          DirectCalls,  \* attempts of a client that uses the duck-typed methods
          Configs,      \* the configurations updateConfig() may be asked for
          InitConfig,
          MaxTime,      \* bound on the clock
          MaxResets     \* bound on the calls of reset()

ASSUME ConfigAssumption ==
  /\ InitConfig \in Config
  /\ ValidateConfig(InitConfig)
  /\ Configs \subseteq Config

ASSUME BoundAssumption ==
  /\ MaxTime \in Nat
  /\ MaxResets \in Nat
  /\ Calls \cap DirectCalls = {}

VARIABLES breaker,      \* the fields of the CircuitBreaker
          config,
          now,          \* Date.now()
          locked,       \* AsyncMutex.locked
          queue,        \* AsyncMutex.queue: the calls whose resolvers wait
          pc,           \* where each call is in execute()
          gen,          \* its local `generation'; of a direct attempt, which
                        \* keeps none, the generation it was let in under
          start,        \* its local `startTime'
          ending,       \* how its task ended
          resets        \* how often reset() ran

callVars == <<gen, start, ending>>
vars == <<breaker, config, now, locked, queue, pc, callVars, resets>>

NoGen == -1
All   == Calls \cup DirectCalls

\* "idle", then waiting for or holding the mutex to be admitted, then running
\* the task, then waiting for or holding the mutex to report, then settled.
PCs == {"idle", "enterWait", "entering", "running", "exitWait", "exiting",
        "direct", "done", "rejected"}

Granted == [enterWait |-> "entering", exitWait |-> "exiting"]

Waiting(c)  == pc[c] \in {"enterWait", "exitWait"}
Holding(c)  == pc[c] \in {"entering", "exiting"}
InFlight(c) == pc[c] \in {"running", "exitWait", "exiting"}

TypeOK ==
  /\ breaker \in Breaker
  /\ config \in Config /\ ValidateConfig(config)
  /\ now \in Nat
  /\ locked \in BOOLEAN
  /\ queue \in Seq(Calls)
  /\ pc \in [All -> PCs]
  /\ gen \in [All -> Nat \cup {NoGen}]
  /\ start \in [All -> Nat]
  /\ ending \in [Calls -> Endings \cup {"none"}]
  /\ resets \in Nat

Init ==
  /\ breaker = NewBreaker
  /\ config = InitConfig
  /\ now = 0
  /\ locked = FALSE
  /\ queue = <<>>
  /\ pc = [c \in All |-> "idle"]
  /\ gen = [c \in All |-> NoGen]
  /\ start = [c \in All |-> 0]
  /\ ending = [c \in Calls |-> "none"]
  /\ resets = 0

-----------------------------------------------------------------------------
(* AsyncMutex *)

\* acquire(): the continuation runs later even when the mutex was free.
Acquire(c, wait) ==
  IF locked
  THEN /\ queue' = Append(queue, c)
       /\ pc' = [pc EXCEPT ![c] = wait]
       /\ UNCHANGED locked
  ELSE /\ locked' = TRUE
       /\ pc' = [pc EXCEPT ![c] = Granted[wait]]
       /\ UNCHANGED queue

\* Mistake: the waiters are left for the next release().
MutReleaseNoHandOff(c, next) ==
  /\ locked' = FALSE
  /\ pc' = [pc EXCEPT ![c] = next]
  /\ UNCHANGED queue

\* release() by c, which goes on to `next': the lock is handed to the oldest
\* waiter without being opened.
Release(c, next) ==
  IF queue # <<>>
  THEN /\ queue' = Tail(queue)
       /\ pc' = [pc EXCEPT ![c] = next,
                           ![Head(queue)] = Granted[pc[Head(queue)]]]
       /\ UNCHANGED locked
  ELSE /\ locked' = FALSE
       /\ pc' = [pc EXCEPT ![c] = next]
       /\ UNCHANGED queue

-----------------------------------------------------------------------------
(* execute() *)

Enter(c) ==
  /\ pc[c] = "idle"
  /\ Acquire(c, "enterWait")
  /\ UNCHANGED <<breaker, config, now, callVars, resets>>

Reject(c) ==
  LET b == SyncState(breaker, config, now) IN
  /\ pc[c] = "entering"
  /\ ~Permitted(b, config)
  /\ breaker' = CountRejection(b)
  /\ Release(c, "rejected")
  /\ UNCHANGED <<config, now, callVars, resets>>

\* The admitted call releases the mutex, reads the clock and starts its task
\* without yielding in between.
Admit(c) ==
  LET b == SyncState(breaker, config, now) IN
  /\ pc[c] = "entering"
  /\ Permitted(b, config)
  /\ breaker' = Admitted(b)
  /\ gen' = [gen EXCEPT ![c] = b.generation]
  /\ start' = [start EXCEPT ![c] = now]
  /\ Release(c, "running")
  /\ UNCHANGED <<config, now, ending, resets>>

\* The task settles; its error, if any, is classified before the acquire().
TaskSettles(c, e) ==
  /\ pc[c] = "running"
  /\ ending' = [ending EXCEPT ![c] = e]
  /\ Acquire(c, "exitWait")
  /\ UNCHANGED <<breaker, config, now, gen, start, resets>>

Report(c) ==
  /\ pc[c] = "exiting"
  /\ breaker' = Settle(breaker, ending[c], now - start[c], gen[c], config, now)
  /\ Release(c, "done")
  /\ UNCHANGED <<config, now, callVars, resets>>

-----------------------------------------------------------------------------
(* Methods that do not take the mutex *)

\* retry's attempt loop: canAttempt(), the task, then onSuccess / onError
\* without a generation, or no report for an error it does not call transient.
DirectAttempt(d) ==
  LET b == SyncState(breaker, config, now) IN
  /\ pc[d] = "idle"
  /\ breaker' = b
  /\ IF Permitted(b, config)
     THEN /\ pc' = [pc EXCEPT ![d] = "direct"]
          /\ start' = [start EXCEPT ![d] = now]
          /\ gen' = [gen EXCEPT ![d] = b.generation]
     ELSE /\ pc' = [pc EXCEPT ![d] = "rejected"]
          /\ UNCHANGED <<start, gen>>
  /\ UNCHANGED <<config, now, locked, queue, ending, resets>>

DirectReport(d, e) ==
  /\ pc[d] = "direct"
  /\ breaker' = Settle(breaker, e, now - start[d], breaker.generation, config, now)
  /\ pc' = [pc EXCEPT ![d] = "done"]
  /\ UNCHANGED <<config, now, locked, queue, callVars, resets>>

DirectNoReport(d) ==
  /\ pc[d] = "direct"
  /\ pc' = [pc EXCEPT ![d] = "done"]
  /\ UNCHANGED <<breaker, config, now, locked, queue, callVars, resets>>

\* getState() and getMetrics() are reads that first call syncState().
Observe ==
  /\ breaker' = SyncState(breaker, config, now)
  /\ UNCHANGED <<config, now, locked, queue, pc, callVars, resets>>

UpdateConfig(k) ==
  /\ ValidateConfig(k)
  /\ config' = k
  /\ UNCHANGED <<breaker, now, locked, queue, pc, callVars, resets>>

ResetBreaker ==
  /\ resets < MaxResets
  /\ resets' = resets + 1
  /\ breaker' = Reset(breaker, now)
  /\ UNCHANGED <<config, now, locked, queue, pc, callVars>>

Tick ==
  /\ now < MaxTime
  /\ now' = now + 1
  /\ UNCHANGED <<breaker, config, locked, queue, pc, callVars, resets>>

-----------------------------------------------------------------------------

ExecuteStep(c) ==
  \/ Enter(c)
  \/ Reject(c)
  \/ Admit(c)
  \/ \E e \in Endings : TaskSettles(c, e)
  \/ Report(c)

DirectStep(d) ==
  \/ DirectAttempt(d)
  \/ \E e \in Endings : DirectReport(d, e)
  \/ DirectNoReport(d)

Next ==
  \/ \E c \in Calls : ExecuteStep(c)
  \/ \E d \in DirectCalls : DirectStep(d)
  \/ Observe
  \/ \E k \in Configs : UpdateConfig(k)
  \/ ResetBreaker
  \/ Tick

Spec == Init /\ [][Next]_vars

\* The microtask that continues a call behind its acquire() runs once queued.
\* Nothing is assumed of the tasks.
FairSpec ==
  Spec /\ \A c \in Calls : WF_vars(Reject(c) \/ Admit(c) \/ Report(c))

-----------------------------------------------------------------------------
(* Safety *)

\* The mutex is locked exactly when one call is between its acquire() and its
\* release(), and the queue holds each waiting call once: AsyncMutex loses no
\* wake-up and admits nobody twice.
MutexOK ==
  /\ locked <=> \E c \in Calls : Holding(c)
  /\ \A c, d \in Calls : Holding(c) /\ Holding(d) => c = d
  /\ \A c \in Calls : Waiting(c) <=> \E i \in DOMAIN queue : queue[i] = c
  /\ \A i, j \in DOMAIN queue : queue[i] = queue[j] => i = j
  /\ queue # <<>> => locked

CurrentCalls == {c \in Calls : InFlight(c) /\ gen[c] = breaker.generation}

\* Every probe slot taken in HALF_OPEN is either a call of this cohort still in
\* flight or one that passed, and outside HALF_OPEN no slot is taken: execute()
\* neither leaks a slot nor counts an outcome of an older generation.
ProbeAccounting ==
  IF breaker.state = "HALF_OPEN"
  THEN breaker.halfOpenCalls = breaker.halfOpenSuccesses + Cardinality(CurrentCalls)
  ELSE breaker.halfOpenCalls = 0 /\ breaker.halfOpenSuccesses = 0

\* No call in flight carries the generation of an OPEN breaker, so nothing that
\* was started earlier can reopen it, close it or extend its timeout.
OpenIsQuiet == breaker.state = "OPEN" => CurrentCalls = {}

\* At most halfOpenMaxCalls tasks run at once as probes of a HALF_OPEN breaker.
ProbesBounded ==
  breaker.state = "HALF_OPEN" =>
    Cardinality({c \in All : /\ pc[c] \in {"running", "exitWait", "exiting", "direct"}
                             /\ gen[c] = breaker.generation})
      <= config.halfOpenMaxCalls

\* With one configuration, a HALF_OPEN breaker whose probes have all reported
\* has a slot left: it cannot reject callers for ever with nobody able to
\* decide its fate.
HalfOpenNotWedged ==
  breaker.state = "HALF_OPEN" /\ CurrentCalls = {} => Permitted(breaker, config)

\* With one configuration, a CLOSED breaker never sits on a window that trips a
\* threshold, whatever the order in which outcomes arrived.
ClosedIsHealthy == breaker.state = "CLOSED" => ~Tripped(breaker.window, config)

-----------------------------------------------------------------------------
(* Action properties *)

Cohort == {c \in Calls : gen[c] = breaker.generation}

\* HALF_OPEN closes only when a full cohort of halfOpenMaxCalls probes of this
\* very generation has reported, none of them with an infrastructure error; it
\* reopens only because one of them did.
HalfOpenVerdictIsTheCohorts ==
  [][ breaker.state = "HALF_OPEN" /\ breaker'.state # "HALF_OPEN" /\ resets' = resets
      => IF breaker'.state = "CLOSED"
         THEN /\ Cardinality(Cohort) = config.halfOpenMaxCalls
              /\ \A c \in Cohort : pc'[c] = "done" /\ ending[c] # "infra"
         ELSE \E c \in Cohort : pc'[c] = "done" /\ ending[c] = "infra" ]_vars

-----------------------------------------------------------------------------
(* Liveness *)

\* A call that asks for admission is admitted or rejected, however long the
\* tasks of the other calls take: the mutex is never held across a task ...
AdmissionDecided ==
  \A c \in Calls : pc[c] \in {"enterWait", "entering"} ~> pc[c] \in {"rejected", "running"}

\* ... and provided every task settles, every execute() does.
CallsSettle ==
  /\ AdmissionDecided
  /\ (\A c \in Calls : WF_vars(\E e \in Endings : TaskSettles(c, e)))
     => \A c \in Calls : pc[c] # "idle" ~> pc[c] \in {"rejected", "done"}

-----------------------------------------------------------------------------
(* Refinement *)

\* The breaker as its callers see it.  Only execute() is covered: the probes of
\* a direct client take no slot.
Contract ==
  INSTANCE BreakerContract
  WITH Callers <- Calls,
       phase   <- breaker.state,
       since   <- breaker.openedAt,
       probes  <- IF breaker.state = "HALF_OPEN" THEN CurrentCalls ELSE {},
       passed  <- breaker.halfOpenSuccesses,
       limits  <- [cohort |-> config.halfOpenMaxCalls, timeout |-> config.openTimeoutMs],
       clock   <- now,
       resets  <- resets

\* Every step of the concurrent breaker (any interleaving of execute() calls,
\* unlocked reads, reset() and updateConfig()) is a step of the contract.
ImplementsContract == Contract!Spec

=============================================================================

------------------------------- MODULE Bulkhead --------------------------------
(***************************************************************************)
(* Class Bulkhead: at most maxConcurrentCalls tasks run, at most           *)
(* maxQueueSize calls wait, each no longer than queueTimeoutMs.  A call    *)
(* takes one of three paths: it runs at once (runTask), it is queued and   *)
(* started later by whoever releases a permit (processQueue), or, when the *)
(* queue is full and rejectWhenFull is off, it polls (waitAndRetry).       *)
(* A queued call settles one microtask before it gives its permit back; a  *)
(* call that runs at once gives it back before it settles.                 *)
(***************************************************************************)
EXTENDS Integers, FiniteSets, SequencesExt

CONSTANTS Calls,
          SyncThrowers,  \* calls whose task throws before it returns a promise
          Configs,       \* the configurations updateConfig() may be asked for
          InitConfig,
          MaxTime,       \* bound on the clock
          MaxResets      \* bound on the calls of resetMetrics()

Config ==
  [maxConcurrentCalls: Nat, maxQueueSize: Nat, queueTimeoutMs: Nat,
   rejectWhenFull: BOOLEAN]

ASSUME ConfigAssumption ==
  InitConfig \in Config /\ Configs \subseteq Config

ASSUME BoundAssumption ==
  MaxTime \in Nat /\ MaxResets \in Nat /\ SyncThrowers \subseteq Calls

VARIABLES config,
          now,          \* Date.now()
          activeCalls,
          queue,        \* the waiting calls, oldest first
          pc,           \* where each call is
          queuedAt,     \* when it called execute()
          timer,        \* when its queue timer is due
          attempt,      \* its round in waitAndRetry()
          counts,       \* the counters of getMetrics()
          resets        \* how often resetMetrics() ran

callVars == <<queuedAt, timer, attempt>>
vars == <<config, now, activeCalls, queue, pc, callVars, counts, resets>>

NoTimer    == -1
maxRetries == 3

\* "running" by runTask(), "started" by processQueue(), "settling" between the
\* settling of a started call and the release of its permit.  The task of a
\* "lost" call threw inside processQueue().
PCs == {"idle", "running", "queued", "sleeping", "started", "settling", "lost",
        "done", "rejected", "timedOut"}

Counts == [totalCalls: Nat, successfulCalls: Nat, failedCalls: Nat,
           rejectedCalls: Nat, timedOutCalls: Nat]

NoCounts == [totalCalls |-> 0, successfulCalls |-> 0, failedCalls |-> 0,
             rejectedCalls |-> 0, timedOutCalls |-> 0]

TypeOK ==
  /\ config \in Config
  /\ now \in Nat
  /\ activeCalls \in Nat
  /\ queue \in Seq(Calls)
  /\ pc \in [Calls -> PCs]
  /\ queuedAt \in [Calls -> Nat]
  /\ timer \in [Calls -> Nat \cup {NoTimer}]
  /\ attempt \in [Calls -> 0..maxRetries]
  /\ counts \in Counts
  /\ resets \in Nat

Init ==
  /\ config = InitConfig
  /\ now = 0
  /\ activeCalls = 0
  /\ queue = <<>>
  /\ pc = [c \in Calls |-> "idle"]
  /\ queuedAt = [c \in Calls |-> 0]
  /\ timer = [c \in Calls |-> NoTimer]
  /\ attempt = [c \in Calls |-> 0]
  /\ counts = NoCounts
  /\ resets = 0

HasPermit == activeCalls < config.maxConcurrentCalls

-----------------------------------------------------------------------------
(* execute() *)

Call(c) ==
  /\ pc[c] = "idle"
  /\ now + config.queueTimeoutMs <= MaxTime    \* its timer falls within the bound
  /\ queuedAt' = [queuedAt EXCEPT ![c] = now]

\* There is a permit: runTask().
ExecuteNow(c) ==
  /\ Call(c)
  /\ HasPermit
  /\ activeCalls' = activeCalls + 1
  /\ pc' = [pc EXCEPT ![c] = "running"]
  /\ counts' = [counts EXCEPT !.totalCalls = @ + 1]
  /\ UNCHANGED <<config, now, queue, timer, attempt, resets>>

\* Neither a permit nor room in the queue: reject, or poll.
ExecuteFull(c) ==
  /\ Call(c)
  /\ ~HasPermit
  /\ Len(queue) >= config.maxQueueSize
  /\ IF config.rejectWhenFull
     THEN /\ pc' = [pc EXCEPT ![c] = "rejected"]
          /\ counts' = [counts EXCEPT !.totalCalls = @ + 1, !.rejectedCalls = @ + 1]
          /\ UNCHANGED attempt
     ELSE /\ pc' = [pc EXCEPT ![c] = "sleeping"]
          /\ attempt' = [attempt EXCEPT ![c] = 1]
          /\ counts' = [counts EXCEPT !.totalCalls = @ + 1]
  /\ UNCHANGED <<config, now, activeCalls, queue, timer, resets>>

\* Mutant: no timer is armed.
MutExecuteQueued(c) ==
  /\ Call(c)
  /\ ~HasPermit
  /\ Len(queue) < config.maxQueueSize
  /\ queue' = Append(queue, c)
  /\ pc' = [pc EXCEPT ![c] = "queued"]
  /\ counts' = [counts EXCEPT !.totalCalls = @ + 1]
  /\ UNCHANGED <<config, now, activeCalls, timer, attempt, resets>>

\* Enqueue and arm the timer.  The processQueue() behind it finds no permit.
ExecuteQueued(c) ==
  /\ Call(c)
  /\ ~HasPermit
  /\ Len(queue) < config.maxQueueSize
  /\ queue' = Append(queue, c)
  /\ timer' = [timer EXCEPT ![c] = now + config.queueTimeoutMs]
  /\ pc' = [pc EXCEPT ![c] = "queued"]
  /\ counts' = [counts EXCEPT !.totalCalls = @ + 1]
  /\ UNCHANGED <<config, now, activeCalls, attempt, resets>>

-----------------------------------------------------------------------------
(* processQueue() *)

\* Mutant: the loop trusts the timers.
MutInTime(c) == TRUE

InTime(c) == now - queuedAt[c] <= config.queueTimeoutMs

\* How many of the first n calls of the queue the loop would start.
StartedOf(n) == Cardinality({i \in 1..n : InTime(queue[i])})

\* Mutant: `if' in the place of `while'.
MutShifted(free) == IF free <= 0 \/ queue = <<>> THEN 0 ELSE 1

\* How many calls the loop shifts off the queue when `free' permits are left: it
\* stops at the last permit, at the end of the queue, or when a task throws.
Shifted(free) ==
  IF free <= 0 THEN 0
  ELSE Min({n \in 0..Len(queue) :
              \/ n = Len(queue)
              \/ StartedOf(n) = free
              \/ n > 0 /\ queue[n] \in SyncThrowers /\ InTime(queue[n])})

\* Where a call is when the loop has shifted these calls and started those.
After(shifted, begun, d) ==
  IF d \in begun THEN IF d \in SyncThrowers THEN "lost" ELSE "started"
  ELSE IF d \in shifted THEN "timedOut" ELSE pc[d]

\* Mutant: activeCalls++ comes before the test of the waiting time.
MutReleasePermitCountsFirst(c, next, cs) ==
  LET active  == activeCalls - 1
      n       == Shifted(config.maxConcurrentCalls - active)
      shifted == {queue[i] : i \in 1..n}
      begun   == {d \in shifted : InTime(d)}
  IN /\ activeCalls' = active + Cardinality(shifted)
     /\ queue' = SubSeq(queue, n + 1, Len(queue))
     /\ pc' = [d \in Calls |-> IF d = c THEN next ELSE After(shifted, begun, d)]
     /\ timer' = [d \in Calls |-> IF d \in shifted THEN NoTimer ELSE timer[d]]
     /\ counts' = [cs EXCEPT !.timedOutCalls = @ + Cardinality(shifted \ begun)]

\* processQueue() by call c, which gives its permit back and goes on to `next':
\* calls that waited too long are timed out, the others start.
ReleasePermit(c, next, cs) ==
  LET active  == activeCalls - 1
      n       == Shifted(config.maxConcurrentCalls - active)
      shifted == {queue[i] : i \in 1..n}
      begun   == {d \in shifted : InTime(d)}
  IN /\ activeCalls' = active + Cardinality(begun)
     /\ queue' = SubSeq(queue, n + 1, Len(queue))
     /\ pc' = [d \in Calls |-> IF d = c THEN next ELSE After(shifted, begun, d)]
     /\ timer' = [d \in Calls |-> IF d \in shifted THEN NoTimer ELSE timer[d]]
     /\ counts' = [cs EXCEPT !.timedOutCalls = @ + Cardinality(shifted \ begun)]

-----------------------------------------------------------------------------
(* How calls end *)

Counted(ok) ==
  IF ok THEN [counts EXCEPT !.successfulCalls = @ + 1]
        ELSE [counts EXCEPT !.failedCalls = @ + 1]

\* runTask(): the finally block releases the permit before the caller is told.
\* (If a task throws in processQueue() there, the caller is told that error.)
TaskSettles(c, ok) ==
  /\ pc[c] = "running"
  /\ ok => c \notin SyncThrowers
  /\ ReleasePermit(c, "done", Counted(ok))
  /\ UNCHANGED <<config, now, queuedAt, attempt, resets>>

\* A task started by processQueue(): then() or catch() tells the caller ...
StartedSettles(c, ok) ==
  /\ pc[c] = "started"
  /\ pc' = [pc EXCEPT ![c] = "settling"]
  /\ counts' = Counted(ok)
  /\ UNCHANGED <<config, now, activeCalls, queue, callVars, resets>>

\* ... and finally(), microtasks later, releases the permit.
StartedReleases(c) ==
  /\ pc[c] = "settling"
  /\ ReleasePermit(c, "done", counts)
  /\ UNCHANGED <<config, now, queuedAt, attempt, resets>>

\* The queue timer: a call no longer in the queue is left alone.
TimerFires(c) ==
  /\ timer[c] # NoTimer
  /\ now >= timer[c]
  /\ timer' = [timer EXCEPT ![c] = NoTimer]
  /\ IF c \in ToSet(queue)
     THEN /\ \E i \in DOMAIN queue : queue[i] = c /\ queue' = RemoveAt(queue, i)
          /\ pc' = [pc EXCEPT ![c] = "timedOut"]
          /\ counts' = [counts EXCEPT !.timedOutCalls = @ + 1]
     ELSE UNCHANGED <<queue, pc, counts>>
  /\ UNCHANGED <<config, now, activeCalls, queuedAt, attempt, resets>>

\* waitAndRetry() after a delay (of any length): the last delay is followed by a
\* rejection, not by another look.
Wakes(c) ==
  /\ pc[c] = "sleeping"
  /\ IF attempt[c] = maxRetries
     THEN /\ pc' = [pc EXCEPT ![c] = "rejected"]
          /\ counts' = [counts EXCEPT !.rejectedCalls = @ + 1]
          /\ UNCHANGED <<activeCalls, attempt>>
     ELSE /\ attempt' = [attempt EXCEPT ![c] = @ + 1]
          /\ IF HasPermit
             THEN /\ activeCalls' = activeCalls + 1
                  /\ pc' = [pc EXCEPT ![c] = "running"]
             ELSE UNCHANGED <<activeCalls, pc>>
          /\ UNCHANGED counts
  /\ UNCHANGED <<config, now, queue, queuedAt, timer, resets>>

-----------------------------------------------------------------------------

\* updateConfig() does not look at the queue.
UpdateConfig(k) ==
  /\ config' = k
  /\ UNCHANGED <<now, activeCalls, queue, pc, callVars, counts, resets>>

ResetMetrics ==
  /\ resets < MaxResets
  /\ resets' = resets + 1
  /\ counts' = NoCounts
  /\ UNCHANGED <<config, now, activeCalls, queue, pc, callVars>>

Tick ==
  /\ now < MaxTime
  /\ now' = now + 1
  /\ UNCHANGED <<config, activeCalls, queue, pc, callVars, counts, resets>>

CallStep(c) ==
  \/ ExecuteNow(c) \/ ExecuteFull(c) \/ ExecuteQueued(c)
  \/ \E ok \in BOOLEAN : TaskSettles(c, ok) \/ StartedSettles(c, ok)
  \/ StartedReleases(c)
  \/ TimerFires(c)
  \/ Wakes(c)

Next ==
  \/ \E c \in Calls : CallStep(c)
  \/ \E k \in Configs : UpdateConfig(k)
  \/ ResetMetrics
  \/ Tick

Spec == Init /\ [][Next]_vars

\* Time passes, timers fire and microtasks run.  Nothing is assumed of tasks.
FairSpec ==
  /\ Spec
  /\ WF_vars(Tick)
  /\ \A c \in Calls : WF_vars(TimerFires(c)) /\ WF_vars(Wakes(c)) /\ WF_vars(StartedReleases(c))

-----------------------------------------------------------------------------
(* Safety *)

Holders == {c \in Calls : pc[c] \in {"running", "started", "settling"}}

\* activeCalls is the number of calls that hold a permit: none is leaked, none
\* is given back twice, whichever of the three paths a call took.
PermitsAccounted == activeCalls = Cardinality(Holders)

\* The queue holds each waiting call once, and a call has an armed timer exactly
\* while it waits: a timer never rejects a call that already runs.
QueueConsistent ==
  /\ ToSet(queue) = {c \in Calls : pc[c] = "queued"}
  /\ IsInjective(queue)
  /\ \A c \in Calls : pc[c] = "queued" <=> timer[c] # NoTimer

\* Every call counted in totalCalls has one outcome counted, or is still waiting,
\* polling or running; a resetMetrics() forgets calls, not outcomes to come.
CallsAccounted ==
  LET outcomes == counts.successfulCalls + counts.failedCalls
                  + counts.rejectedCalls + counts.timedOutCalls
      pending  == Cardinality({c \in Calls :
                    pc[c] \in {"running", "queued", "sleeping", "started", "lost"}})
  IN IF resets = 0 THEN counts.totalCalls = outcomes + pending
                   ELSE counts.totalCalls <= outcomes + pending

\* The books agree: permits, queue, timers and counters, whatever path each call took.
Accounted == TypeOK /\ PermitsAccounted /\ QueueConsistent /\ CallsAccounted

\* A call waits only while every permit is in use.  (updateConfig() with a larger
\* limit hands out nothing until a permit is given back.)
WorkConserving == queue # <<>> => ~HasPermit

-----------------------------------------------------------------------------
(* Action properties *)

\* Calls leave the queue to run in the order they entered it, and never after
\* their time in the queue is over.
StartsInOrder ==
  [][ \A i \in DOMAIN queue :
        pc'[queue[i]] = "started" =>
          /\ now <= queuedAt[queue[i]] + config.queueTimeoutMs
          /\ \A j \in 1..(i - 1) : pc'[queue[j]] # "queued" ]_vars

\* A permit given back is handed to a waiting call in the same step: afterwards
\* nobody waits next to a free permit.
ReleaseHandsOver ==
  [][ (\E c \in Holders : c \notin Holders') => WorkConserving' ]_vars

-----------------------------------------------------------------------------
(* Liveness *)

\* A call leaves the queue whatever the running tasks do ...
QueueLeft == \A c \in Calls : pc[c] = "queued" ~> pc[c] # "queued"

\* ... and if tasks settle, so does every execute().
CallsSettle ==
  /\ QueueLeft
  /\ (\A c \in Calls : WF_vars(\E ok \in BOOLEAN : TaskSettles(c, ok) \/ StartedSettles(c, ok)))
     => \A c \in Calls : pc[c] # "idle" ~> pc[c] \in {"done", "rejected", "timedOut"}
=============================================================================

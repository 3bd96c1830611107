------------------------------- MODULE RateLimiter -------------------------------
(***************************************************************************)
(* One key of a RateLimiter of the rate-limiter package.  With the memory  *)
(* store a consume() reads, waits a microtask, and writes back; with Redis *)
(* it is one script, and a failure of Redis may send it on to a memory     *)
(* store, if the limiter has one.  What a store drops when its time to     *)
(* live is over is part of the model: it decides what an algorithm sees.   *)
(***************************************************************************)
EXTENDS RateAlgorithms

CONSTANTS Kinds,        \* the stores that may be configured
          InUse,        \* the algorithms that may be configured
          Weights,
          Concurrency,  \* how many callers may interleave
          MaxTime, MaxRequests, MaxFaults, MaxResets, MaxEvictions    \* bounds

ASSUME ConstantAssumption ==
  /\ Limit \in Nat \ {0} /\ Window \in Nat \ {0} /\ TokenTicks \in Nat \ {0}
  /\ InitialTokens \in Nat /\ Concurrency \in Nat \ {0}
  /\ Kinds \subseteq {"memory", "redis", "redis+memory"}
  /\ InUse \subseteq Algorithms
  /\ Weights # {} /\ Weights \subseteq 1..Limit   \* the classes refuse a larger weight for ever
  /\ MaxTime \in Nat /\ MaxRequests \in Nat /\ MaxFaults \in Nat /\ MaxResets \in Nat
  /\ MaxEvictions \in Nat
  \* the ticks are fine enough for every resetAt of the sliding counter
  /\ \A w \in Weights, p \in 1..Limit : (Window * (Limit - w)) % p = 0

VARIABLES kind, algorithm,
          callers,         \* how many of them do: a property of the application
          now,
          memory, redis,   \* what each store holds under the key
          waiting,         \* the consume() between read and write, in the order they read
          granted,         \* of each store: the weight it had allowed by each time
          evicted,         \* how often the memory store dropped the key for others
          asked, faults, resets

bounds == <<asked, faults, resets, evicted>>
setup == <<kind, algorithm, callers>>
vars == <<setup, now, memory, redis, waiting, granted, bounds>>

Nothing == [until |-> -1]

None == [t \in 0..MaxTime |-> 0]

TypeOK ==
  /\ kind \in Kinds /\ algorithm \in InUse /\ callers \in 1..Concurrency
  /\ now \in 0..MaxTime
  /\ memory = Nothing \/ (memory.until \in Nat /\ DOMAIN memory = {"until", "state"})
  /\ redis = Nothing \/ (redis.until \in Nat /\ DOMAIN redis = {"until", "state"})
  /\ Len(waiting) =< callers
  /\ \A s \in {"memory", "redis"} : granted[s] \in [0..MaxTime -> Nat]
  /\ asked \in 0..MaxRequests /\ faults \in 0..MaxFaults /\ resets \in 0..MaxResets
  /\ evicted \in 0..MaxEvictions

Init ==
  /\ kind \in Kinds /\ algorithm \in InUse /\ callers \in 1..Concurrency
  /\ now = 0
  /\ memory = Nothing /\ redis = Nothing
  /\ waiting = <<>>
  /\ granted = [s \in {"memory", "redis"} |-> None]
  /\ asked = 0 /\ faults = 0 /\ resets = 0 /\ evicted = 0

Grant(store, w, allowed) ==
  granted' = IF allowed
             THEN [granted EXCEPT ![store] =
                     [t \in 0..MaxTime |-> granted[store][t] + IF t < now THEN 0 ELSE w]]
             ELSE granted

Longer(a, b) == IF a > b THEN a ELSE b

-----------------------------------------------------------------------------
(* A store of each kind *)

\* calculateTtl(), and the test now > expiresAt of MemoryStore.get().
Kept(v) == [state |-> v.state, until |-> now + Longer(v.resetAt - now, 1)]

\* The script's EX, in Redis, where the last tick of a key is the one before.
KeptInRedis(v) == [state |-> v.state, until |-> now + Longer(v.resetAt - now, 1) - 1]

Live(entry) == entry # Nothing /\ now <= entry.until

MemoryState == IF Live(memory) THEN memory.state ELSE InitialState(algorithm, now)
RedisState  == IF Live(redis) THEN redis.state ELSE LuaInitialState(algorithm, now)

-----------------------------------------------------------------------------
(* consume() *)

Asks ==
  /\ asked < MaxRequests
  /\ asked' = asked + 1

\* pessimisticConsume(): the state is read before the await.
ReadMemory(w) ==
  /\ Len(waiting) < callers
  /\ waiting' = Append(waiting, [weight |-> w, state |-> MemoryState])
  /\ memory' = IF Live(memory) THEN memory ELSE Nothing

ConsumeFromMemory(w) ==
  /\ kind = "memory"
  /\ Asks
  /\ ReadMemory(w)
  /\ UNCHANGED <<setup, now, redis, granted, faults, resets, evicted>>

\* Mistake: the state is written back before it is consumed from.
MutWriteBack ==
  /\ waiting # <<>>
  /\ LET w == Head(waiting).weight
         v == Consume(algorithm, Head(waiting).state, w, now)
     IN  /\ memory' = Kept([v EXCEPT !.state = Head(waiting).state])
         /\ Grant("memory", w, v.allowed)
  /\ waiting' = Tail(waiting)
  /\ UNCHANGED <<setup, now, redis, bounds>>

\* ... and written back behind it, whatever was written in between.
WriteBack ==
  /\ waiting # <<>>
  /\ LET w == Head(waiting).weight
         v == Consume(algorithm, Head(waiting).state, w, now)
     IN  /\ memory' = Kept(v)
         /\ Grant("memory", w, v.allowed)
  /\ waiting' = Tail(waiting)
  /\ UNCHANGED <<setup, now, redis, bounds>>

\* EVALSHA, or EVAL if Redis has lost the script: read, consumed and written in one step.
Script(w) == LuaConsume(algorithm, RedisState, w, now)

\* atomicConsume()
ConsumeFromRedis(w) ==
  /\ kind # "memory"
  /\ Asks
  /\ redis' = KeptInRedis(Script(w))
  /\ Grant("redis", w, Script(w).allowed)
  /\ UNCHANGED <<setup, now, memory, waiting, faults, resets, evicted>>

\* Redis fails, or its breaker is open, or only the answer is lost: the caller gets
\* an error, or the verdict of the fallback store.
RedisFails(w) ==
  /\ kind # "memory"
  /\ faults < MaxFaults
  /\ faults' = faults + 1
  /\ Asks
  /\ redis' \in {redis, KeptInRedis(Script(w))}
  /\ IF kind = "redis+memory" THEN ReadMemory(w) ELSE UNCHANGED <<waiting, memory>>
  /\ UNCHANGED <<setup, now, granted, resets, evicted>>

\* reset(), resetAll(): the store of the limiter, not its fallback.
Reset ==
  /\ resets < MaxResets
  /\ resets' = resets + 1
  /\ IF kind = "memory"
     THEN memory' = Nothing /\ granted' = [granted EXCEPT !["memory"] = None] /\ UNCHANGED redis
     ELSE redis' = Nothing /\ granted' = [granted EXCEPT !["redis"] = None] /\ UNCHANGED memory
  /\ UNCHANGED <<setup, now, waiting, asked, faults, evicted>>

\* MemoryStore.set() of another key, in a store that was built with a maxSize: the key that was
\* written first goes, whether its time is over or not.  (The fallback has no maxSize.)
Evict ==
  /\ kind = "memory" /\ memory # Nothing
  /\ evicted < MaxEvictions
  /\ evicted' = evicted + 1
  /\ memory' = Nothing
  /\ UNCHANGED <<setup, now, redis, waiting, granted, asked, faults, resets>>

\* The microtasks of the memory store run before the clock moves on.
Tick ==
  /\ now < MaxTime
  /\ waiting = <<>>
  /\ now' = now + 1
  /\ UNCHANGED <<setup, memory, redis, waiting, granted, bounds>>

Next ==
  \/ \E w \in Weights : ConsumeFromMemory(w) \/ ConsumeFromRedis(w) \/ RedisFails(w)
  \/ WriteBack
  \/ Reset
  \/ Evict
  \/ Tick

Spec == Init /\ [][Next]_vars

-----------------------------------------------------------------------------
(* Properties *)

Allowed(s, from, to) == granted[s][to] - (IF from = 0 THEN 0 ELSE granted[s][from - 1])

Windows(a, b) == 1 + (b \div Window) - (a \div Window)

\* What a limiter promises of any interval from a to b ...
Promised(a, b) ==
  CASE algorithm = "token-bucket" -> Limit + (b - a) \div TokenTicks
    [] algorithm = "sliding-window-log" -> Limit * (1 + (b - a) \div Window)
    [] algorithm \in {"fixed-window", "sliding-window-counter"} -> Limit * Windows(a, b)

\* "Allowed requests in any windowMs span", "max burst": no interval sees more than it may, of
\* a limiter that is used by one caller at a time.  The code does not keep it: the in-memory
\* bucket, and the log in either store, are dropped at resetAt, with the debt that is left and
\* the timestamps that are younger.
Exact == \A s \in {"memory", "redis"}, a, b \in 0..MaxTime : a <= b => Allowed(s, a, b) <= Promised(a, b)

\* Interleaving callers empty every count of the memory store but that of the fixed window: one
\* that is refused writes back what it read, and with it undoes what others consumed meanwhile.
Undone(s) == s = "memory" /\ callers > 1 /\ algorithm # "fixed-window"

Heaviest == CHOOSE w \in Weights : \A v \in Weights : v <= w

\* What one count may stand for.  The script asks for room before it looks at the weight, and
\* may exceed the limit by all but one of the heaviest.  Callers that interleave over the memory
\* store read the same count, and the lightest of them writes last.
Bound(s) == IF s = "redis" THEN Limit + (Heaviest - 1) ELSE Limit * ((callers - 1) * Heaviest + 1)

Lost(s) == IF s = "memory" THEN evicted ELSE 0

\* What the code keeps to in the interval from a to b.  A window has one count, and one more each
\* time it is evicted.  A log is dropped before its younger timestamps are over, so that a span
\* of one window may meet two of them, but not the oldest timestamp of the first.
Allowance(s, a, b) ==
  CASE algorithm \in {"fixed-window", "sliding-window-counter"} -> (Windows(a, b) + Lost(s)) * Bound(s)
    [] algorithm = "sliding-window-log" -> (2 + Lost(s)) * Bound(s) - 1
    [] algorithm = "token-bucket" -> (1 + Lost(s)) * Limit + (b - a) \div TokenTicks

\* The intervals up to b it is kept in: of a log those no longer than a window, and of a bucket
\* in memory the single points of time.
Spans(s, b) ==
  CASE algorithm = "sliding-window-log" -> {a \in 0..b : b - a < Window}
    [] algorithm = "token-bucket" /\ s = "memory" -> {b}
    [] OTHER -> 0..b

\* With weights, failures of Redis, resets and evictions, however many requests there are, each
\* store allows no more than its Allowance up to now: the fixed window in either store, the
\* counter, the log and the bucket in Redis, and in memory when callers do not interleave.
WithinLimit ==
  \A s \in {"memory", "redis"} : ~Undone(s) =>
    \A a \in Spans(s, now) : Allowed(s, a, now) <= Allowance(s, a, now)

\* A caller that was refused and comes again at the resetAt it was told, with
\* nothing consumed in between, is allowed.  (Not by the sliding counter, whose
\* window is over then, but not the weight of what it has counted.)
Refused(w) == ~Consume(algorithm, MemoryState, w, now).allowed

RetryAfterHonest ==
  kind = "memory" /\ waiting = <<>> /\ algorithm # "sliding-window-counter" =>
    \A w \in Weights : Refused(w) =>
      LET v == Consume(algorithm, MemoryState, w, now)
          s == IF v.resetAt <= Kept(v).until THEN v.state ELSE InitialState(algorithm, v.resetAt)
      IN  v.resetAt > now /\ Consume(algorithm, s, w, v.resetAt).allowed
=============================================================================

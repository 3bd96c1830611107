# A TLA+ verification of backendkit-monorepo

The repository is a set of thirteen TypeScript packages for resilient Node.js services. This project
models the packages that keep state shared by concurrent callers (circuit breaker, bulkhead, saga with its stores and groups of steps,
idempotency, retry, rate limiter, http client, the buffered log and metric senders, the auto-learning tuner), model-checks them
with TLC, and proves the safety of the circuit breaker, bulkhead, saga (engine, steps and stores), idempotency, retry, rate limiter,
http client, senders and tuner with TLAPS, for every value of the constants.

JavaScript runs one piece of code at a time: a method runs to its next `await` without interruption,
and between two awaits any other call, timer or callback may run. So an action of these modules is what
one call does between two awaits, and the interleavings of actions are the program's schedules.

## 1. Inventory

Paths are under `src/packages/`. "Hard" names the behaviours a unit test hardly reaches.

| Package | State it keeps | Operations | Hard | What makes it correct |
|---|---|---|---|---|
| circuit-breaker | state, outcome window, probe slots, generation, counters; an async mutex | `execute`, `getState`, `getMetrics`, `updateConfig`, `reset`, duck-typed `canAttempt`/`onSuccess`/`onError` | tasks that outlive the state they started in; unlocked methods between two microtasks; reconfiguration; hand-off of the mutex | no lost wake-up; no leaked probe slot; only probes of the current cohort decide; OPEN lasts its time-out |
| bulkhead | active count, FIFO queue with timers, counters | `execute`, `updateConfig`, `resetMetrics` | timer against start of the same call; release against arrival; tasks that throw | permits equal running tasks; each queued call ends once; order; nobody waits beside a free permit |
| saga | one stored record per saga (status, step statuses, index, version, token, deadline) with its indexes, a lock with a time to live, the slots of a step bulkhead | `run`, `pause`, `resume`, `signal`, `expireWait`, the recovery scans | crashes between saves; copies loaded before the lock; pause and signal against a running execution; failing compensations; saves of several commands; handlers that outlive their time-out | one execution at a time; the stored record is true to its position and left in the middle by nothing but a crash; no step skipped; complete, ordered compensation; a read misses nothing that stands still and names nothing without reason; slots equal running attempts |
| retry | per run: attempt loop, timeouts; shared: retry budget, idempotency results, a breaker and a bulkhead of others | `RetryExecutor.run`, `SlidingWindowBudgetImpl.tryConsume`, `TimeoutManager` | attempt timeout against completion; budget at its minimum count; result store that fails | attempts bounded; a success is reported once; retries stay in the budget |
| rate-limiter | per key: window counts, log or token bucket, in memory or Redis | `consume`, `check`, `reset`, `resetAll` | read-await-write races; window boundaries; weights; expiry of the state; eviction for other keys; fallback store | where a store keeps a bound at all, it is known; a refusal names an honest time |
| idempotency | per key: pending or completed record with expiry | `intercept`; store `get`, `setIfAbsent`, `complete`, `delete` | expiry during the handler; failing `complete`; successor's record deleted | one effect per key and lifetime; a replay is the first answer |
| http-client | metrics, cancel tokens per key, its own breaker and pipeline | `get`...`delete`, `cancelRequest`, `cancelAll` | shared cancel keys; cancel during the pre-request pipeline; retry inside the breaker | every request is counted once, by client and breaker; a request is cancelled exactly if it was asked before its answer came; no token is left behind |
| observability | log buffer with retry counts, metric maps; a breaker of its own | `log`, `flush`, `close`, metrics | overlapping flushes; buffer at its limit; open breaker | the buffer keeps its bound; an entry is in one place once, or dropped for a stated reason; the buffer empties |
| auto-learning | patterns, aggregates, current configuration, last change | `runOnce`, `tune`, `reset`, `start`/`stop` | failing saves; cycles that overlap `stop`; listeners that reconfigure breakers and bulkheads | configuration within its limits; stored, current and announced configurations agree |
| pipeline | none between runs | `pipe`, `run` | failing steps, conditions and hooks in both modes | executed steps and failures account for every entry |
| result | none | combinators, `retry`, `withTimeout` | none kept between calls | algebraic laws |
| request-scanner | none | rule matching over a request | pure data | - |
| console-animations | terminal frames | `start`, `stop` | cosmetic | - |

### How they interact

* retry calls a breaker through `canAttempt()`, `onSuccess()`, `onError()` without the mutex and without a
  generation, and runs its attempts inside a bulkhead's `execute()`.
* http-client and the log transport wrap their calls in a breaker's `execute()`; http-client's retry loop runs
  inside it, so the breaker sees one outcome per chain of attempts.
* auto-learning changes the configuration of running breakers and bulkheads (`updateConfig()`), which
  read it at their next step.
* saga's engine works on a store and a lock provider that several processes share; its recovery engine is one more
  caller of the engine. Breaker, bulkhead, http-client, pipeline and observability can be plugged into steps.
* The NestJS wrappers (guards, interceptors, decorators, modules) and the registries hold named instances
  and delegate to them.

## 2. The modules

| Module | Models | Uses |
|---|---|---|
| `CircuitBreakerCore` | the synchronous methods of `CircuitBreaker`, as operators from a record of its fields to the next | - |
| `CircuitBreaker` | `execute()`, the `AsyncMutex`, the unlocked methods, direct clients, the clock | `CircuitBreakerCore` |
| `BreakerContract` | what the breaker promises, without window, mutex, generation or counters | - |
| `CircuitBreakerProofs` | theorems about `CircuitBreaker` | `CircuitBreaker`, `TLAPS` |
| `Bulkhead` | `Bulkhead` | - |
| `Saga` | one saga: engine, instance, state machine, compensation, store, lock, recovery | - |
| `SagaSteps` | the inside of a parallel group: `ParallelExecutor`, `StepRunner`, `retryMiddleware`, `SagaBulkhead` | - |
| `SagaProofs` | theorems about `Saga` and `SagaSteps` | `Saga`, `SagaSteps`, `TLAPS` |
| `SagaStores` | `InMemoryStore`, `SqlAdapter` and `RedisAdapter`, command by command | `StoreContract` |
| `SagaReads` | the reads of these stores, command by command between the commands of the writers | `SagaStores` |
| `SagaStoresProofs` | theorems about `SagaStores` and `SagaReads` | `SagaReads`, `TLAPS` |
| `StoreContract` | what the saga stores promise: a state is replaced only by its next version | - |
| `Idempotency` | the requests with one key through `IdempotencyInterceptor`, the in-memory and the Redis store, expiry | - |
| `Retry` | the executions of one `RetryEngine`: attempt loop, timeouts, budget, result cache | - |
| `RetryProofs` | theorems about `Retry` | `Retry`, `TLAPS` |
| `Filters` | `Array.prototype.filter()`, by rank | - |
| `FilterProofs` | lemmas: induction over numbers, and `Only` of `Filters` | `Filters`, `TLAPS` |
| `RateAlgorithms` | the four algorithms and the four branches of the Lua script, as operators | `Filters` |
| `RateLimiter` | one key of a `RateLimiter` over memory, Redis, or Redis with a fallback | `RateAlgorithms` |
| `KeyedRecordsProofs` | theorems about `RateLimiter` and `Idempotency`, the packages that keep a record under a key | `RateLimiter`, `Idempotency`, `FilterProofs` |
| `HttpClient` | `HttpClient` with its `CancelManager`, retries and breaker | `CircuitBreakerCore` |
| `BufferedSender` | `WinstonHttpTransport` and `MetricsService` with their breakers | `CircuitBreakerCore`, `Filters` |
| `HttpProofs` | theorems about `HttpClient` and `BufferedSender`, which call endpoints through a breaker | `HttpClient`, `BufferedSender`, `FilterProofs` |
| `Tuner` | `FeedbackLoop`, `AnomalyDetector`, `ConfigTuner`, the storages of the configuration | - |
| `TuningProofs` | theorems about `Bulkhead` and the `Tuner` whose listeners switch its configuration | `Bulkhead`, `Tuner`, `FilterProofs` |
| `MC*` | the instances of the runs: configurations, symmetry sets | the module |

Operators named `Mut...` are deliberate mistakes that stand beside the operator they would replace. No
specification uses them; they document which property notices which mistake (PROJECT.json, "mutants").

### CircuitBreaker

`breaker` is the record of the object's fields; `window` holds outcomes, `openedAt` is a time or `NoTime`,
`counters` are what `getMetrics()` reports. `locked` and `queue` are the fields of `AsyncMutex`. `pc[c]` is where
call `c` stands in `execute()`:

    idle --Enter--> (enterWait) entering --Admit--> running --TaskSettles--> (exitWait) exiting --Report--> done
                                        \--Reject--> rejected

`entering` and `exiting` hold the mutex; the two waiting places are left when another call's `Release` hands
it over. `gen[c]` is the local `generation`. `Admit` is the whole first critical section, the release, and the
start of the task, since the code does not yield between them. `Observe` is `getState()`/`getMetrics()`, reads that first
move an OPEN breaker whose time is up to HALF_OPEN. `DirectAttempt`, `DirectReport` and `DirectNoReport` are an attempt
of the retry package, which asks `canAttempt()` and reports without a generation, or not at all.
Times are ticks of a bounded clock; only the comparisons with `openTimeoutMs` and `slowCallDurationMs` matter.
Rates are compared as fractions, without division: for windows of at most 20 outcomes that is what the code's
floating point comparison gives.

### Bulkhead

`pc[c]` tells the three paths apart: `running` (started by its own `execute()` or after polling), `queued` then `started`
(by `processQueue()` of whoever gave a permit back), `sleeping` (polling in `waitAndRetry()`). A queued call
settles one microtask before its permit is returned (`settling`), a running one returns it first; both
release through `ReleasePermit`, which is `activeCalls--` and the whole loop of `processQueue()`: entries whose time is
up are timed out and the loop goes on, entries in time are started until the permits are used up. `SyncThrowers` are calls
whose task throws before it returns a promise; one that is started by the loop ends it and is `lost` (none in the run, see section 4).
`TimerFires` may come any time after it is due, as Node's timers may. A sleep of a polling
caller may last any time. A task of `runTask()` that throws at once is given a pause here that the
code does not have; the steps it takes are the same.

### Saga

`store` is the saved record, `inst[c]` the private copy of the state that operation `c` works on, `lock` when the lock
expires. An operation loads (`Load`, or `Run` which creates), takes the lock or answers (`Acquire`), enters by its
kind (`EnterRunning`, `EnterSignal`, `EnterExpire`), then runs the loop: `StartStep`, and one of `StepSucceeds`,
`StepWaits`, `StepThrows`; after the last step `Complete`; after a failure `StepFailed`, `StartCompensation`,
`Compensate` for each executed step, `EndCompensation`; at last `Unlock`. Each of these actions ends at the code's
next `await` that others can tell apart, and saves where the code calls `persistAndPublish()`. `Persist` has both
increments of `version` that the code makes. `Crash` ends a process between any two of them and leaves
record and lock as they are. `CheckedStore` says whether `save()` refuses a state whose version is not the
successor of the stored one, as the bundled in-memory, Redis and SQL stores do. A parallel
group (`Groups`) is one step that has no compensation, as in the code; its inside is `SagaSteps`. `todo[c]` is what is left of the
list `CompensationRunner` walks from its end, kept as a set: `NextToUndo` is its last step.

### Idempotency

`record` is what the configured store holds under the key: who claimed it (`by`), its status, and how much of its time is
`left` (the code keeps `expiresAt` and compares it with the clock; the difference is all that matters, so
there is no clock). A request goes

    new --Get--> claiming --SetIfAbsent--> running --HandlerSucceeds--> ok
                     \                        \--HandlerFails--> error
                      \--> replay | busy

and with Redis stops at every command: `lostRace` is between `SET NX` and the `GET` behind it (`LookAgain`), `completing` and
`writing` are before the `GET` and the `SETEX` of `complete()` (`ReadToComplete`, `WriteCompleted`), `deleting` is before `DEL`
(`Delete`). In memory the store's methods run to their end within the step of the request. A command of Redis may fail, whether
or not it was performed (`StoreFails`, `Effect`); what follows is the interceptor's: the error goes to the client, after a
`delete()` if it was `complete()` that failed. `Crash` ends a process: in memory that is all of it, with Redis one request.
`TtlOutlasts` says that time does not take a record whose request is still at work, which the
package leaves to the choice of `ttlSeconds`. The runs set it; of the theorems only two need it.

### Retry

`pc[r]` is where an execution waits: `lookup` for the cached result, `ready` before an attempt, `queued` in the bulkhead, `executing`
its task, `storing` its result, `sleeping` between attempts, `falling` for the fallback. `Failed` is the `catch` of the loop,
with the same order of tests as the code: breaker told, `abortIf`, `retryIf`, attempts, budget, sleep. The conditions of a caller may answer anything; the
defaults follow the classifier. The breaker and the bulkhead are the answers the executor waits for: they are shared with others,
so any answer may come at any time. (How attempts disturb a breaker is in `CircuitBreaker`, whose direct client is an attempt.)
There is no clock: a timer that is set may fire, in any order with the end of the task, with admission from the
queue and with the store. The executions fall into one window of the budget; a later window would forget
calls and retries alike, and `RetriesBounded` is a promise per window. A task that was given up is not followed further, since nobody listens to it.

### SagaStores

A call of a store is a list of commands, `todo[c]`; `Save` and `Delete` make the list from the state they
read first (`SqlPlan`, `RedisPlan`, `RemovalPlan`: each command is an `await`), `Command` performs the next one, and the store in memory
needs none. `records` is the `Map`, the table or the keys `saga:state:*`; `tokens` the token index; `all`, `byStatus`, `byType` the
sets of Redis. `CutOff` ends a call between any two commands, for a crash or an error that is answered;
`Expire` is the time to live of a Redis state, which its indexes do not have.
`Deployments` pairs a store with whether its callers hold the saga's lock, as `executeWithLifecycle()` does.
The histories `torn` and `orphaned` name the sagas whose last save was cut off and whose state went before its indexes.

### SagaReads

A reader asks for a status, a type, both, a token, or everything (`Queries`; the model has one type). In memory and in SQL the answer is
of one moment (`ReadAtOnce`). The Redis store reads an index (`ReadIndex`), with both a type and a status a second one (`Narrow`), and
then the state of each saga in `left`, one command each, in any order (`Load`); the writers go on in between (`Write` is a step of
`SagaStores`), and `found` has what was there, compared with nothing. `ReadFails` is a command that fails. The histories of a read say
which sagas nobody has written since it began (`steady`), which were there all the time (`kept`), and which were what it asks for at some
moment (`matched`): a read of several commands has no one moment to be judged by.

### SagaSteps

`work[s]` is where the handler of step `s` is (`queued`, `running`, `backoff`, `over`), `answer[s]` what `StepRunner.execute()`
answered for it, and `group` what `ParallelExecutor.execute()` answered. `TimesOut` changes the answer only: the handler never hears of
it and goes on, in the queue, in its attempts and in its slot of the bulkhead. `Attempt` is `SagaBulkhead.execute()` up to its first
`await`, `AttemptEnds` gives the slot to the next in the queue (`ProcessQueue`) and lets the `retryMiddleware` decide.

### RateAlgorithms, RateLimiter

An algorithm is an operator from a state, a weight and a time to a verdict: allowed, `resetAt`, the next state. Times are ticks;
a bucket counts in parts of a token, the sliding counter in parts of a request, so that nothing is rounded. The `Lua...`
operators are the script's branches, which differ. In `RateLimiter`, `ConsumeFromMemory` is `pessimisticConsume()` up to its `await`
(the state it read is in `waiting`), `WriteBack` the rest: everything that others wrote in between is overwritten. `ConsumeFromRedis` is one
step, as the script is. `RedisFails` is a failing or refused command whose effect may have
happened, with the verdict of the fallback or an error. `Kept` is `calculateTtl()`: a state lives until its `resetAt`.
`Evict` is what writes of other keys do to this one in a `MemoryStore` with a `maxSize`: the key goes, whether its time is over or not, also between a read and its write.
`callers` says how many callers interleave. `granted` is a history: the weight each store had allowed by each time, so that what it
allowed in an interval (`Allowed`) is a difference.

`WithinLimit` bounds that difference by `Allowance`, for the intervals `Spans` up to now. One count may stand for `Bound`: the limit, plus what the script's
early test lets through, or times what interleaving callers may have been given for one count. A window has one count, and one more for each
eviction (`Lost`). The intervals it is stated for:

| | Redis | memory, callers in turn | memory, interleaving callers |
|---|---|---|---|
| fixed window | any interval | any interval | any interval |
| sliding counter | any interval | any interval | - |
| sliding log | a span of one window | a span of one window | - |
| token bucket | any interval | one instant | - |

A log that is dropped with its younger timestamps lets a span of one window meet two of them, so that its allowance is nearly twice its limit.
`Undone` is the dashes: there the code keeps no bound (section 4). Longer intervals of a log or a bucket in memory are not bounded either, by `WithinLimit`. `Exact` is what the package promises of any interval (`Promised`), for callers in turn and without weights.

### HttpClient

    idle --Execute--> pipeline --PipelinePasses--> calling --CallEnds--> answered --Report--> done
                         |                          ^ | (retry)
                         |                   WakeUp | v
                         |                         sleeping
                         +--PipelineFails | PipelineCancelled--> done

`tokens` is the map of the `CancelManager`, `held[r]` the token that request `r` gave to axios, `cancelled` the tokens that were
cancelled. Axios may answer a call in any way its token allows (`Answers`). The breaker is `CircuitBreakerCore`, asked once per request
(`PipelinePasses`) and told once (`Report`). A pipeline step may fail or hand on a context that has lost the key (`DropKey`).
Histories: `asked` (in flight when the key was cancelled: `Asks`), `late` (axios had answered by then, the key was not deleted yet), `crowded` (shared a key), `astray` (left the pipeline without its key).

### BufferedSender

`buffer` holds entry numbers in order, `flight[f]` the batch of a flush that waits for its answer, `retries` the counts of
`retryCounts`. `Flush` is the synchronous part of `flush()`: age filter, `splice`, the breaker's admission; `Answered` and `Fails` are
its end, and a refusal of the breaker takes the same `Requeue`. Both filters of `flush()` are `Only`, by what is not `Aged` and not `Spent`. `sender` chooses one of the two classes, which differ in
`Log` (flushes when a batch is full) and `RecordMetric`. `acked` and `lost` (by reason) are histories.

### Tuner

The requests in the time window are an input (`traffic`, which `Shift` exchanges); `Aggregate`, `Severe`, `ErrorAnomaly` and `ComputeNext` are
the code's arithmetic on them, in whole numbers: rates in hundredths of a percent, smoothing in tenths and rounded.
`Cycle` is one `runOnce()`. `current` is what the tuner has, `durable` what the file or Redis has, `heard` what the listeners were last
called with. Saving to a file may throw, before the listeners are called; saving to Redis is not waited for (`Saved`). `Restart` constructs everything anew from what is stored.

## 3. The runs

| Run | Instance | Shows |
|---|---|---|
| `breaker_safety` | 4 calls, window 2, 2 probes, 1 reset, time 0..2, no reconfiguration | a HALF_OPEN breaker can always be decided, a CLOSED one has no tripped window, verdicts are the cohort's, refinement of `BreakerContract` |
| `breaker_shared` | 2 calls and a direct client, 3 configurations (one invalid), time 0..2, fair microtasks | nothing current is in flight while OPEN; admission is decided whatever tasks do; calls settle if tasks do |
| `bulkhead_calls` | 3 calls, 2 configurations (1 permit with a queue of 2, 2 permits with polling), 1 resetMetrics, time 0..2, fair timers | permits, queue, timers and counters agree; limits, order, hand-over; the queue is left; calls settle |
| `saga_safety` | 4 steps of which the second is a group, 3 operations of resume, signal, expireWait, pause, 1 crash, a store that takes every save | one execution; the record is true to its position, and only a crash leaves it in the middle; nothing skipped; compensation complete and in order |
| `saga_stores` | 2 clients, 1 reader, 1 saga, 2 statuses, 2 tokens, versions up to 3, 1 cut-off or expiry; memory and SQL without the lock, SQL and Redis with it | an answered save is written; a read misses nothing that stands still and names nothing without reason; refinement of `StoreContract` |
| `saga_steps` | 4 steps with a time-out, 1 slot, queue of 2, 2 attempts, fair timers only | slots are accounted for; only late work goes on behind the group; the group answers though handlers hang |
| `idempotency_safety` | 3 requests, either store, time to live 2, 1 failing command, 1 crash, fair handlers and clock | in memory one handler at a time and no success repeated; claims owned and never for ever; replays genuine |
| `retry_runs` | 2 executions of 3 attempts with one key, budget of 30% after 2 calls, fallback, callers' conditions, 1 failing store, fair global timers | retries bounded, one verdict per attempt, nothing after the global timeout, every execution ends though tasks hang |
| `rate_limits` | limit 2 in a window of 4, weights 1 and 2, time 0..6, 5 requests, 1 fault, 1 reset, 1 eviction, 1 or 2 callers, every algorithm and store | no more than its `Allowance` in the intervals each algorithm and store keeps it for; who is refused by the memory store and comes again at `resetAt` is allowed (the counter excepted) |
| `http_client` | 3 requests with one key or none, 1 retry each, 1 cancellation, time 0..1 | metrics and breaker account for each request once; cancelled exactly if asked before the answer; no token left behind |
| `log_sender` | 4 entries, batches of 2, buffer of 3, 1 retry, 2 overlapping flushes, either class | the buffer keeps its bound, every entry is in one place; the buffer empties though every post fails |
| `tuner_cycles` | 7 windows of traffic, 2 changes of it, 1 fault, 1 stop, reset or restart, the three storages | limits; stored, current and announced configuration agree; the time-out settles; the loop comes to rest |

**Bounds.** Four calls make a full cohort, a straggler of the generation before it and a newcomer, or
a running call, a full queue and a poller. Windows of 1 to 3 outcomes cover "not enough calls", "full" and "sliding", and every
order of endings. In the breaker's safety run the clock goes a tick past the longest time-out that starts at 0, so every time-out is met
early, exactly and late, and two generations of opening fit in. Three requests are a holder, one that lost the race to
it and a newcomer; one fault and one crash fall anywhere. Two executions of three attempts have retries on both sides of the budget's
minimum and of its ratio. In the saga, four steps are a first, a group, one behind it and a last; three operations are an execution, one that
takes over and one that still holds a stale copy. Two clients of a store are a writer and one that
comes between its commands, and a reader meets both; three versions are one that follows, one that repeats and one that is skipped. Four steps on one slot fill the bulkhead and its queue
and leave one to be turned away. Seven ticks are a rate window, the boundary behind it and most of the next, so that a span of one window lies across it; two callers read one state, and five requests of
weight 2 are more than any allowance of one window. Four entries overflow a buffer of
three while two batches are on their way. The traffics of the tuner are one for each branch: all fast, an outlier among
twenty and among four, a fast request among slow ones, an endpoint that is down, one error in twenty-five, too few.

Deadlock is checked in `saga_stores` and `saga_steps`, where calls come for ever or the end is an action. In the other runs every call ends, the bounded
clock stops, and nothing is left to do.

**Symmetry** is used in `breaker_safety` (calls), `saga_safety` (callers), `http_client` (requests) and `saga_stores` (clients, statuses, tokens), which check no liveness.

**Fairness.** The event loop runs every queued microtask: weak fairness of a call's steps behind a granted mutex
(`CircuitBreaker!FairSpec`). Timers fire after they are due and time passes: weak fairness of `Tick`, `TimerFires`,
`Wakes`, `StartedReleases` (`Bulkhead!FairSpec`). Requests that wait for a store get its answer, handlers end, and time passes
(`Idempotency!FairSpec`). In `Retry!FairSpec` the executor's own waits end (store, bulkhead with its queue time-out, sleep, fallback) and the global timer
fires. `SagaSteps!FairSpec` has the code's own steps and its timers, and no handler need ever end. `BufferedSender!FairSpec` has the interval timer and the time-out
that axios puts on a post. `Tuner!FairTuner` has the interval timer, the end of the cooldown, and Nest starting the
loop. Nothing is assumed of the tasks of breaker, bulkhead and retry; where a property needs them
to settle, it says so in its own premise. `Saga` has no liveness property: nothing in the code makes
recovery happen.

## 4. Where code and documents disagree

PROJECT.json lists them under "findings", with the lines of both sides. The modules keep the statements that
the code does not meet, so that each can be tried: run the instance with the change in the second column.

| Statement | Fails in | Shows |
|---|---|---|
| `HalfOpenNotWedged` (`CircuitBreaker`) | `breaker_safety` with `Configs <- Shrinking` | `halfOpenMaxCalls` lowered in HALF_OPEN leaves a breaker that nobody can decide |
| `ProbesBounded` (`CircuitBreaker`) | `breaker_shared` | clients of `canAttempt()` take no probe slot |
| `Accounted` (`Bulkhead`) | `bulkhead_calls` with `SyncThrowers = {c2}` | a queued task that throws at once keeps its permit |
| `RecordFollows` (`Saga`) | `saga_safety` with `CheckedStore = TRUE` | two version increments per save: a bundled store refuses all but the first |
| `CrashedGoesOn` (`Saga`) | `saga_safety` | `resume()` refuses what a crash leaves as RUNNING or COMPENSATING |
| `WaitsAreFound` (`Saga`) | `saga_safety` | a crash in `expireWait()` leaves a wait without token and deadline |
| `CompletedIsWhole` (`Saga`) | `saga_safety` with `Operations <- Recovery`, `Groups <- NoGroups` | a recovery that loaded before the lock was free completes a compensated saga |
| `FailedIsUndone` (`Saga`) | `saga_safety` | the members of a group are never compensated |
| `SingleFlight` (`Idempotency`) | `idempotency_safety` with `Stores = {"redis"}`, no faults or crashes | two handlers at once behind a lost `SET NX` |
| `ErrorDidNothing` (`Idempotency`) | `idempotency_safety` | a failing `complete()` answers an error for work that was done |
| `Exact` (`RateLimiter`) | `rate_limits` with one caller, weight 1, no faults, resets or evictions, and `Kinds = {"memory"}`, `InUse = {"token-bucket"}`, `InitialTokens = 2`, or either store and `InUse = {"sliding-window-log"}` | the state is dropped at `resetAt`, with what is younger |
| `WithinLimit` (`RateLimiter`) without `~ Undone(s)` | `rate_limits` with `Kinds = {"memory"}`, `InUse` one of the counter, the log and the bucket, `MaxTime = 0`, `MaxRequests = 30`, no faults, resets or evictions | callers that interleave undo each other's consumption, without end |
| `WithinLimit` (`RateLimiter`) with `Lost(s) == 0` | `rate_limits` | an eviction for another key gives a fresh limit |
| `CancelledAtAnyTime` (`HttpClient`) | `http_client` | a cancel while the breaker hears of the answer is counted and cancels nothing |
| `ShutdownFlushes` (`BufferedSender`) | `log_sender` | `close()` sends one batch |
| `ImplementsContract` (`SagaStores`) | `saga_stores` with `Deployments` the one pair `<<"redis", FALSE>>` | a state replaces one it was not computed from |
| `AnswersMatch` (`SagaReads`) | `saga_stores` | the Redis store answers a read with states that are not what was asked for |

## 5. The proofs

`CircuitBreakerProofs` proves, for any sets of calls and configurations:

* `TypeCorrectness`, `MutualExclusion`, `OpenQuiet` from the inductive invariant `CoreInv`, which adds two facts to the
  three properties: a call about to report knows how its task ended (`EndingKnown`), and no call is of a future
  generation (`GenerationsPast`). The latter makes `OpenIsQuiet` inductive: a breaker that opens enters a generation
  nobody can have.
* `ProbesAccounted` from `CohortInv`, `CoreInv` and the accounting itself, if `execute()` is the only entry. Each step is
  shown to be one of four kinds as the cohort sees it: an admission, a report, no effect (`LeavesCohort`), a move to HALF_OPEN, or a
  close by hand; the cardinalities follow from that.
* `NeverWedged` from `UndecidedInv`: a HALF_OPEN breaker has fewer successes than `halfOpenMaxCalls`, if no
  reconfiguration changes that number. Without that premise the property is false (section 4).
* `ClosedStaysHealthy` from `HealthInv`: whatever is pushed into a CLOSED window is looked at in the same step, also when it comes from a call
  admitted before or from a direct client. Premise: reconfigurations keep the thresholds (`SameThresholds`), since `updateConfig()` does not look
  at the window again.
* `VerdictOfTheCohort`, the action property, from `VerdictInv`: those admitted in this generation are as many as the slots taken, and whoever of them is
  done has passed. A step that leaves HALF_OPEN is a `Report` of one of them, or a `reset()`. Premises: `execute()` is the only entry, `Calls` is
  finite, and no reconfiguration changes `halfOpenMaxCalls`.
* `Refinement`: the initial states and the steps of the breaker, `reset()` and `updateConfig()` included, are those of
  `BreakerContract` or stutter, under the same premise on entries.

The lemmas on the synchronous core (`RecordFacts`, `PassProbeFacts`, `SettleFacts`...) are stated over `Decides(b)`, the five fields that
decide who is admitted: the counters and the window's contents drop out of everything after them.
Assumed are only the constants' assumptions of `CircuitBreaker` and, where stated, that `Calls` is finite and there
are no direct clients.

`KeyedRecordsProofs` proves of the rate limiter, from the assumption on its constants alone:

* `LimitsHold` (`WithinLimit`) from `LimiterInv`, for any limit, window and weights, any number of callers, requests, failures, resets and evictions: for the algorithms,
  stores and intervals of the table in section 2, no others. The invariant speaks of every start `a` of an interval at once, and of what was allowed from there to now less what
  the evictions account for (`Excess`), since an eviction costs one count and the code cannot make up for it.
  Of a window's count: what the earlier windows do not account for either (`Over`) is at most what the count in memory says, times `Factor`: callers that interleave
  read one count and write it back once, so each of the `callers` may have been given the heaviest weight for it. A request in the middle of
  `pessimisticConsume()` will write the count it read: the `i`-th that waits may hide what those behind it were given, and they are at most
  `callers - i` (`MemoryCounts`). The script counts exactly, but lets the last one in by the room before it (`RedisCounts`).
  Of a log (`MemoryLog`, `RedisLog`): what was allowed in a span of at most a window is the last entries of the log, if the log reaches back to its start, and else at
  most one entry less than a full log more (`Covers`), because a log is dropped only when its oldest entry is over. That filtering a log by age
  keeps an end of it is `OnlyEnds` of `FilterProofs`.
  A bucket in Redis never has more than it can hold and has earned since: what it gave in an interval and what is in
  it are together at most its size and the time (`RedisLevel`), also when its key expires, since it is full by then. In memory it may be dropped before,
  but not in the tick in which it was written, so that only what it gave in one instant is bounded (`MemoryBurst`).
* `LimiterTypesHold`, the type invariant, on the way.
* `AnswersHold` (`RetryAfterHonest`), from the types of what the store holds alone: a refused request that comes back at `resetAt` finds a new window, one entry less in the log,
  or enough in the bucket. The log is where this is work: it has room at `resetAt` because its oldest entries are over then, as many as
  the request is heavy (`RanksFollow`, `OnlyDrops`).

The lemmas on numbers (`AllNumbers`, `Times`, `Quotient`...) stand for the library's induction theorems, which these provers cannot
instantiate: a set of numbers that has 0 and every successor has them all, by its least missing element (`WFMin`).

It proves of the idempotency package, for any number of requests, failures and crashes and any time to live:

* `EveryClaimOwned` from `Claims`, which says where a claimant can be, and `EveryReplayGenuine` from `Responses`, which also says of
  each place in the interceptor whether the handler has succeeded. Both hold of both stores, and of records that expire too early.
* `OneHandlerInMemory` and `NoSuccessRepeated` from `InMemory`: a running request owns the record, and the record outlasts
  every answered success. Premise: `TtlOutlasts`.

`RetryProofs` proves, for any number of executions and attempts, any budget and any answers: `TypeCorrectness` (attempts and tasks started stay within `MaxAttempts`),
`OneVerdictPerAttempt` and `GlobalTimeoutFinal` from `RetryInv`. Types alone are not inductive: `Wake` may count on because an
execution sleeps only before an attempt that is left (`Attempts`), and an error may be reported because nothing was before (`Verdicts`).
`RetriesStayBounded` (`RetriesBounded`) from `BudgetInv`: the retries that are started, or on their way to a start, are those the budget
recorded and those it let through below its minimum, at most `MaxAttempts - 1` of each of the executions that make up that minimum. Nothing need be
finite: the executions that have begun are finitely many because each was counted.

Of the bulkhead, `TuningProofs` proves, for any calls, any configurations it is switched between and any polling, queueing and late timers:

* `BulkheadInvariance`: permits, queue, timers and counters agree, if the permit of a task that threw inside `processQueue()` is counted
  as held (`Holding`), which it is, for good. `BooksAgree` is the run's `Accounted`; its premise is that no task throws there. Without it the
  property is false (section 4). Nothing is assumed finite: that those who hold a permit, and those who are pending, are finitely many is
  part of the invariant, since they came one by one.
* `OrderKept` and `PermitsHandedOver`, the action properties, from that invariant and `StepKinds`: a step gives a permit back, or takes nobody's
  permit and starts nobody who waits. What `processQueue()` does is said once, in `ShiftedFacts` and `ReleaseFacts`: its loop stops at the
  end of the queue, at the last permit, or at a task that throws. The last case is what the premise of `PermitsHandedOver` excludes.

Of the tuner it proves `ChangesAlwaysReach` (`ChangesReachEverybody` of `tuner_cycles`), for any traffic, limits, smoothing, storages and faults, from `TunerInvariance`,
which says of what is stored and of what was announced that it is within the limits too, since the next process may load the one. Most of the work is that
`computeNext()` stays there (`NextWithinLimits`): a window of enough requests has a p95 (`RankedIs`: of the durations that enough requests are not above
there is a least one), a slowest endpoint (`Highest`), and a step of the smoothing does not go past its target (`Part`, for each
tenth). The step for retries stays within 1..5 whatever the error rate is, so that the mean over the endpoints, a fold, need not be known.

`SagaProofs` proves every property of `saga_safety`, for any number of callers, steps, groups and crashes, any operations and a store with or
without the version check:

* `TypesHold`, `NothingEverSkipped`, `CompensationAlwaysComplete`, `OrderAlwaysKept` and the first half of `RecordAlwaysSound` (`PositionSound`) from `SagaInvariance`.
  `Resumable` says what a record
  tells of the steps, given which were performed and how compensations went. The properties ask it of the store; the invariant asks it of
  every caller's own copy too, for any of them may be saved next, and of a caller in the middle of its compensations that the steps it has left and
  those it has tried are together the ones it owes (`Undoing`). Both histories only grow, so that a caller's step disturbs nobody else's copy,
  however old that copy is (`CallerStays`): these theorems need no lock.
* The second half of `RecordAlwaysSound` (`NothingStranded`) from `StrandInv`, which adds the status an execution has in hand at each of its places (`HandsOK`): whoever dies leaves
  a status the scan looks for, the wait of an `expireWait()`, or a record at rest. It says where
  a record may be left, not that it is recovered: `CrashedGoesOn` and `WaitsAreFound` say that, and are false (section 4). Premise, in the
  property itself: the store takes every save.
* `OneAtATime` from `Locked`: whoever is inside holds a lock that has not expired. Premise: `LockOutlasts`, no execution outlasts the
  lock's time to live. Without it the lock is lost in the middle of an execution, and `release()` frees the next one's.

Of `SagaSteps` it proves, for any number of steps, slots, places in the queue and attempts, with or without timeouts: `SlotsAlwaysAccounted` and `OnlyLateWork`
from `StepsInv`, which adds to the two properties that an attempt still to come is one of those that are left (`Tries`), that only a timeout
answers for a handler at work (`Answered`), and that the group speaks for all of its steps (`GroupSound`).

`SagaStoresProofs` proves, for any clients, sagas, statuses, tokens, cut-offs and expiries:

* `StoresImplementContract`, the refinement of `StoreContract` (`ImplementsContract` of `saga_stores`), from `StoreInv`: under the lock the calls about
  one saga come one after another (`OneCall`), so that between the read of `save()` and its last command the record can change only by that call
  or by expiry, and what the call will write still follows from it (`Follows`). SQL needs no lock: its one command names the version it replaces.
  Premise: `RedisIsLocked`, the pair `<<"redis", FALSE>>` is no deployment. Without it the property is false (section 4).
* `AnsweredIsWritten` (`OkMeansWritten`) from `AnswerInv`: a call that has not written its state has a command left that will (`HasWriter`). It
  needs no lock but SQL's, which the property itself names.
* `ReadsAlwaysAgree` (`ReadsAgree`), of `ReadSpec`, from `IndexInv` and `ReadInv`, under the same premise `RedisIsLocked`. `IndexInv` says of each saga that no call is about that its record and its
  indexes agree (`AtRest`), and of the saga a call is about which of its commands are left (`InWork`): an index that is missing is one the call will still
  write, an index that should not be there is one it will still remove. `PlanOK` is what `RedisPlan` and `RemovalPlan` put into a plan, in which
  order; `CutOff` and `Expire` are excused by the histories `torn` and `orphaned`, and by nothing else. From there, whatever an index names is what it
  says at that moment, even in the middle of a save (`IndexedTruly`), and `ReadInv` carries that through the commands of a read: what was named was matched once,
  and what stands still is named until it is loaded. That a loaded state still is what was asked for is false (section 4).

`HttpProofs` proves every property of `http_client`, for any number of requests and keys, retries, times, and any valid configuration of the breaker, from `ClientInv`:

* `RequestsCountedOnce` (`EachCountedOnce`): each counter of the metrics is the size of a set of requests, and each step moves one request between those sets
  (`LiveStep`), so that nothing is assumed finite: requests begin one by one. The breaker's own counters
  differ from them by the requests it was asked for and not yet told of (`BooksBalance`), whatever its state and window.
* `CancellationsAreAsked` (`CancelledAsAsked`) from `AsAsked`, which follows a request that has its key to itself through every `await`: its token is in the
  map until somebody cancels it, and who is asked before axios answers has a cancelled token. Who is asked later is `late`, and the theorem says nothing of it. Tokens are never used twice (`TokensApart`).
* `TokensAreReleased` (`TokensReleased`) is its own invariant, given the types.

Of the buffers it proves `EntriesAreAccounted` (`EntriesAccounted` of `log_sender`), for either sender, any sizes, retries and ages, any number of overlapping flushes
and any valid configuration of the breaker, from `SenderInvariance`. The property counts places; the invariant `Sound` says which they are: the entries at hand in a step,
the buffer, the flights, what was delivered and what was given up for each reason are disjoint, and together all that was recorded. Each movement is one lemma between
such states: taking an entry (`TakesOne`) or a batch (`TakesBatch`), handing it to a flight (`Sends`), a flight that comes back
(`Lands`), delivery (`Delivers`) and what `Requeue` puts back and drops (`PutsBack`, `RequeueKeeps`). `flush()` is
then two or three of them in a row. That filtering neither doubles nor loses an entry is `FilterProofs` (`OnlyKeeps`, `OnlyOnce`).

The types, the mutex (`MutexOK`) and the probe slots (`ProbeAccounting`) of the breaker are proved and stand in no run of their own.

A theorem states every invariant of the runs. Model-checked only: all liveness (`EntriesLeave` and the other temporal properties of section 3), which, like
`ENABLED`, is out of the prover's reach. `SelectSeq` and the folds are opaque to the
provers; logs and buffers are filtered by rank (`Only`) for that reason.

## 6. Not modelled

Of the modelled packages:

* `onStateChange` callbacks that call back into the breaker; tasks that call `execute()` of the bulkhead that runs them.
* Floating-point rounding, except that the tuner's smoothing rounds; average durations; messages and logs.
* The handlers' own effects in a saga: a step is the way it ends. `InMemoryStore`'s sharing of the `steps` array with its callers; paging and the time filters of
  `list()`; event handlers that throw; lifecycle hooks. The circuit-breaker, http-client, observability and result adapters of steps wrap a handler and delegate.
* Idempotency: invalid keys and routes without `@Idempotent()`, which do not reach the store; other keys, which share nothing
  but the memory they take.
* Retry: the engine's metrics, the expiry of cached results, more than one window of the budget.
* Rate limiter: `check()`, which only reads (its disagreement with the script is a finding); other keys, but for what they evict (`Evict`);
  `remaining`, which is reported and decides nothing.
* http-client: clients without a breaker or without retries, which are paths of this one. Senders: which entries are logged at all, and their form.
* auto-learning: `PatternRegistry` and the interceptor that records requests feed the window, which is an input here.

Whole components:

* pipeline: a sequential loop whose state belongs to one run; its ends are `PipelineFails`, `DropKey` and `PipelinePasses` of `HttpClient`.
* result: pure functions over callbacks of the caller.
* saga's event bus, approval step, retry policy, builder and CLI: publish and forget, declarations, or a command line over the modelled engine.
* registries and NestJS wrappers (guards, interceptors, decorators, modules), the rate limiter's factory and configuration: they look up or create an instance and delegate.
* correlation, filters and logger of observability: they pass a context along one request and format.
* request-scanner: tables of patterns without state. console-animations: terminal output.
* The web application, its documentation pages and the examples: texts and layout, about a third of the repository's lines. With the type declarations, wrappers and
  formatting above, this is most of what no definition is mapped to.

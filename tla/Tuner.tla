---------------------------------- MODULE Tuner ----------------------------------
(***************************************************************************)
(* The auto-learning package: a FeedbackLoop that aggregates the requests  *)
(* of the last minutes, looks for anomalies and lets the ConfigTuner move  *)
(* the configuration, which is saved and announced to listeners (in Nest,  *)
(* the ones that update the circuit breakers and bulkheads).  Numbers are  *)
(* whole: rates are in hundredths of a percent, and smoothing rounds.      *)
(* The formulas carry the tuner in their names, so that one module of      *)
(* proofs can extend this module and Bulkhead, which also has a Spec.      *)
(***************************************************************************)
EXTENDS Integers, FiniteSetsExt, SequencesExt

CONSTANTS Traffics,      \* what the time window may hold: sequences of requests
          Storages,      \* \subseteq {"memory", "file", "redis"}
          MinSamples,                        \* FeedbackLoopConfig
          MinTimeout, MaxTimeout, Step, Smoothing,    \* ConfigTunerConfig; Smoothing in tenths
          DeviationLimit, ErrorRateLimit,    \* AnomalyDetectorConfig; in tenths, in 0.01 %
          Default,       \* DEFAULT_CONFIG
          MaxShifts, MaxFaults, MaxInterventions    \* bounds

\* The configurations computeNext() may move to.
Limits == [threshold: 10..80, timeout: MinTimeout..MaxTimeout, retries: 1..5]

ASSUME TunerAssumption ==
  /\ Traffics \subseteq Seq([path: STRING, duration: Nat, failed: BOOLEAN])
  /\ Storages \subseteq {"memory", "file", "redis"}
  /\ MinSamples \in Nat \ {0}
  /\ MinTimeout \in Nat /\ MaxTimeout \in Nat /\ Step \in Nat /\ Smoothing \in 1..10
  /\ Step * Smoothing >= 10    \* a step that is taken is taken in whole numbers, too
  /\ Default \in Limits

VARIABLES storage, traffic,
          current,     \* ConfigTuner.currentConfig
          durable,     \* the file, or the key of Redis
          heard,       \* the last configuration the listeners were called with
          cooling,     \* the last change was less than cooldownMs ago
          running,
          fresh,       \* nothing has changed since the tuner was constructed
          unsaved,      \* the last change was not saved
          shifts, faults, interventions

bounds == <<shifts, faults, interventions>>
tunerVars == <<storage, traffic, current, durable, heard, cooling, running, fresh, unsaved, bounds>>

Nothing == [none |-> TRUE]

Least(a, b) == IF a < b THEN a ELSE b
Greatest(a, b) == IF a > b THEN a ELSE b
Distance(a, b) == Greatest(a, b) - Least(a, b)

-----------------------------------------------------------------------------
(* InMemoryStorage.getAggregates() *)

Items(t, path) == {i \in DOMAIN t : t[i].path = path}

\* The duration with `index' others before it in sorted order.
Ranked(t, items, index) ==
  CHOOSE d \in {t[i].duration : i \in items} :
    /\ Cardinality({i \in items : t[i].duration < d}) <= index
    /\ Cardinality({i \in items : t[i].duration <= d}) > index

Percentile(t, items, p) == Ranked(t, items, Greatest(0, (p * Cardinality(items) + 99) \div 100 - 1))

Aggregate(t, path) ==
  LET items == Items(t, path)
  IN  [path  |-> path,
       count |-> Cardinality(items),
       total |-> MapThenSumSet(LAMBDA i : t[i].duration, items),
       p50   |-> Percentile(t, items, 50),
       p95   |-> Percentile(t, items, 95),
       errorRate |-> (10000 * Cardinality({i \in items : t[i].failed})) \div Cardinality(items)]

Aggregates(t) == {Aggregate(t, t[i].path) : i \in DOMAIN t}

-----------------------------------------------------------------------------
(* AnomalyDetector.batchAnalyze(): of the requests, against the very same window *)

Baseline(t, i) == CHOOSE a \in Aggregates(t) : a.path = t[i].path

\* |duration - average| / max((p95 - p50) / 2, 1) > limit / 10
DeviatesBy(request, a, limit) ==
  20 * Distance(a.count * request.duration, a.total) > limit * a.count * Greatest(a.p95 - a.p50, 2)

LatencyAnomaly(t, i) == DeviatesBy(t[i], Baseline(t, i), DeviationLimit)
ErrorAnomaly(t, i) == t[i].failed /\ Baseline(t, i).errorRate < ErrorRateLimit

\* calculateSeverity(): 'critical' and 'high' are those above 4; an error is 'high'.
Severe(t, i) == DeviatesBy(t[i], Baseline(t, i), Greatest(40, DeviationLimit))

SevereAnomalies(t) ==
  Cardinality({i \in DOMAIN t : Severe(t, i)}) + Cardinality({i \in DOMAIN t : ErrorAnomaly(t, i)})
SomeAnomaly(t) == \E i \in DOMAIN t : LatencyAnomaly(t, i) \/ ErrorAnomaly(t, i)

MeanErrorRate(t) ==
  LET paths == {t[i].path : i \in DOMAIN t}
  IN  MapThenSumSet(LAMBDA p : Aggregate(t, p).errorRate, paths) \div Cardinality(paths)

\* What a cycle learns from the window.
Learned ==
  [t \in Traffics |->
     [p95 |-> Max({a.p95 : a \in Aggregates(t)}), errorRate |-> MeanErrorRate(t),
      severe |-> SevereAnomalies(t), calm |-> ~SomeAnomaly(t)]]

-----------------------------------------------------------------------------
(* ConfigTuner.computeNext() *)

Target(t) == Least(Greatest(2 * Learned[t].p95, MinTimeout), MaxTimeout)

\* Mistake: the full distance, and more, in one step.
MutSmoothed(timeout, target) == timeout + 2 * (target - timeout)

Smoothed(timeout, target) == timeout + ((target - timeout) * Smoothing) \div 10

NextTimeout(t, timeout) ==
  IF Distance(Target(t), timeout) > Step THEN Smoothed(timeout, Target(t)) ELSE timeout

NextRetries(t, retries) ==
  IF Learned[t].errorRate > 1000 THEN Least(retries + 1, 5)
  ELSE IF Learned[t].errorRate < 100 /\ retries > 1 THEN Greatest(retries - 1, 0)
  ELSE retries

NextThreshold(t, threshold) ==
  IF Learned[t].severe > 0 THEN Greatest(threshold - 10 * Learned[t].severe, 10)
  ELSE IF Learned[t].calm THEN Least(threshold + 5, 80)
  ELSE threshold

ComputeNext(t, c) ==
  [threshold |-> NextThreshold(t, c.threshold),
   timeout   |-> NextTimeout(t, c.timeout),
   retries   |-> NextRetries(t, c.retries)]

-----------------------------------------------------------------------------
(* The storages *)

TunerInit ==
  /\ storage \in Storages /\ traffic \in Traffics
  /\ current = Default /\ fresh = TRUE
  /\ durable = Nothing /\ heard = Nothing
  /\ cooling = FALSE /\ running = FALSE /\ unsaved = FALSE
  /\ shifts = 0 /\ faults = 0 /\ interventions = 0

Fault == faults < MaxFaults /\ faults' = faults + 1

\* saveConfig(): a file is written before the call returns, or the call fails; Redis is
\* told, and whether it heard is not known.
Saved(c) ==
  \/ /\ durable' = IF storage = "memory" THEN durable ELSE c
     /\ unsaved' = FALSE
     /\ heard' = c
     /\ UNCHANGED faults
  \/ /\ storage = "redis"
     /\ Fault
     /\ heard' = c
     /\ unsaved' = TRUE
     /\ UNCHANGED durable
  \/ /\ storage = "file"
     /\ Fault
     /\ unsaved' = TRUE
     /\ UNCHANGED <<durable, heard>>

\* The constructor of ConfigTuner, after loadConfigAsync() with Redis.
Load ==
  \/ /\ current' = IF storage = "memory" \/ durable = Nothing THEN Default ELSE durable
     /\ UNCHANGED faults
  \/ /\ storage # "memory"    \* the file, or Redis, cannot be read
     /\ Fault
     /\ current' = Default

-----------------------------------------------------------------------------
(* The loop *)

\* Mistake: neither the difference nor the cooldown is looked at.
MutTune(next) ==
  /\ current' = next
  /\ cooling' = TRUE /\ fresh' = FALSE
  /\ Saved(next)
  /\ UNCHANGED <<storage, traffic, running, shifts, interventions>>

Tune(next) ==
  /\ next # current
  /\ ~cooling
  /\ current' = next
  /\ cooling' = TRUE /\ fresh' = FALSE
  /\ Saved(next)
  /\ UNCHANGED <<storage, traffic, running, shifts, interventions>>

\* runOnce(), from the timer: a window with too few requests is skipped, and a change
\* within the cooldown is forgotten.
Cycle ==
  /\ running
  /\ Len(traffic) >= MinSamples
  /\ Tune(ComputeNext(traffic, current))

CooldownEnds ==
  /\ cooling
  /\ cooling' = FALSE
  /\ UNCHANGED <<storage, traffic, current, durable, heard, running, fresh, unsaved, bounds>>

Start ==
  /\ ~running
  /\ running' = TRUE
  /\ UNCHANGED <<storage, traffic, current, durable, heard, cooling, fresh, unsaved, bounds>>

Intervenes == interventions < MaxInterventions /\ interventions' = interventions + 1

Stop ==
  /\ Intervenes
  /\ running
  /\ running' = FALSE
  /\ UNCHANGED <<storage, traffic, current, durable, heard, cooling, fresh, unsaved, shifts, faults>>

\* Mistake: the configuration is reset where it is stored only.
MutReset ==
  /\ Intervenes
  /\ Saved(Default)
  /\ UNCHANGED <<storage, traffic, current, cooling, running, fresh, shifts>>

\* reset(): whatever the cooldown.
Reset ==
  /\ Intervenes
  /\ current' = Default /\ fresh' = FALSE
  /\ Saved(Default)
  /\ UNCHANGED <<storage, traffic, cooling, running, shifts>>

\* The process is started anew: no listener hears of what was loaded.
Restart ==
  /\ Intervenes
  /\ Load
  /\ fresh' = TRUE
  /\ heard' = Nothing
  /\ cooling' = FALSE /\ running' = FALSE /\ unsaved' = FALSE
  /\ UNCHANGED <<storage, traffic, durable, shifts>>

\* Other requests come, older ones leave the window.
Shift ==
  /\ shifts < MaxShifts
  /\ shifts' = shifts + 1
  /\ traffic' \in Traffics
  /\ UNCHANGED <<storage, current, durable, heard, cooling, running, fresh, unsaved, faults, interventions>>

TunerNext == Cycle \/ CooldownEnds \/ Start \/ Stop \/ Reset \/ Restart \/ Shift

TunerSpec == TunerInit /\ [][TunerNext]_tunerVars

\* setInterval() fires while the loop runs, time passes, and Nest starts the loop.
FairTuner == TunerSpec /\ WF_tunerVars(Cycle) /\ WF_tunerVars(CooldownEnds) /\ WF_tunerVars(Start)

-----------------------------------------------------------------------------
(* Properties *)

\* README.md:244-252: whatever the traffic, its jumps and the faults, the configuration
\* stays within its limits.
ConfigBounded == current \in Limits

\* A configuration in force is within its limits, and a change to it has been announced and,
\* where there is a durable storage, would be found by the next process: unless saving it
\* failed, or nothing has changed since the tuner was constructed.
ChangesReachEverybody ==
  /\ ConfigBounded
  /\ ~unsaved =>
       /\ heard = current \/ (heard = Nothing /\ fresh)
       /\ heard = current => storage = "memory" \/ durable = current

\* "Gradual timeout adjustment" (README.md:189): when the traffic has settled, the timeout
\* comes as close to its target as a step, and stays.
TimeoutSettles ==
  <>[](Len(traffic) >= MinSamples => Distance(Target(traffic), current.timeout) <= Step)

\* The loop comes to rest: with steady traffic it does not go on changing the configuration.
LoopComesToRest == <>[][~Cycle]_tunerVars
=============================================================================

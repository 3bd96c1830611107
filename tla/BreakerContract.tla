---------------------------- MODULE BreakerContract ----------------------------
(***************************************************************************)
(* What a circuit breaker promises, with no window, mutex, generation or   *)
(* counters: it trips, stays open for its timeout, lets a limited cohort   *)
(* of probes through, closes when enough of them pass and reopens when one *)
(* fails.  Only the probes of the current cohort can decide.               *)
(***************************************************************************)
EXTENDS Integers, FiniteSets

CONSTANT Callers

VARIABLES phase,    \* "CLOSED", "OPEN" or "HALF_OPEN"
          since,    \* when the breaker opened
          probes,   \* the cohort's calls that are in flight
          passed,   \* how many of the cohort have passed
          limits,   \* the cohort's size and the timeout, as configured
          clock,
          resets    \* how often an operator closed the breaker by hand

breakerVars == <<phase, since, probes, passed>>
vars == <<breakerVars, limits, clock, resets>>

Init ==
  /\ phase = "CLOSED"
  /\ since = -1
  /\ probes = {}
  /\ passed = 0
  /\ limits \in [cohort: Nat \ {0}, timeout: Nat \ {0}]
  /\ clock \in Nat
  /\ resets = 0

Close ==
  /\ phase' = "CLOSED"
  /\ since' = -1
  /\ probes' = {}
  /\ passed' = 0

Open ==
  /\ phase' = "OPEN"
  /\ since' = clock
  /\ probes' = {}
  /\ passed' = 0

Trip == phase = "CLOSED" /\ Open

Due == phase = "OPEN" /\ clock - since >= limits.timeout

\* The timeout is noticed by a reader, or by the first probe itself.
StartProbing ==
  /\ Due
  /\ phase' = "HALF_OPEN"
  /\ UNCHANGED <<since, probes, passed>>

StartProbe(c) ==
  /\ \/ Due
     \/ phase = "HALF_OPEN" /\ passed + Cardinality(probes) < limits.cohort
  /\ phase' = "HALF_OPEN"
  /\ c \notin probes
  /\ probes' = probes \cup {c}
  /\ UNCHANGED <<since, passed>>

PassProbe(c) ==
  /\ phase = "HALF_OPEN"
  /\ c \in probes
  /\ IF passed + 1 >= limits.cohort
     THEN Close
     ELSE /\ probes' = probes \ {c}
          /\ passed' = passed + 1
          /\ UNCHANGED <<phase, since>>

FailProbe(c) ==
  /\ phase = "HALF_OPEN"
  /\ c \in probes
  /\ Open

BreakerStep ==
  /\ \/ Trip
     \/ StartProbing
     \/ \E c \in Callers : StartProbe(c) \/ PassProbe(c) \/ FailProbe(c)
  /\ UNCHANGED <<limits, clock, resets>>

Reset ==
  /\ Close
  /\ resets' = resets + 1
  /\ UNCHANGED <<limits, clock>>

EnvironmentStep ==
  \/ /\ clock' > clock
     /\ UNCHANGED <<breakerVars, limits, resets>>
  \/ /\ limits' \in [cohort: Nat \ {0}, timeout: Nat \ {0}]
     /\ UNCHANGED <<breakerVars, clock, resets>>

Next == BreakerStep \/ Reset \/ EnvironmentStep

Spec == Init /\ [][Next]_vars
=============================================================================

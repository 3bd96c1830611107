---------------------------- MODULE MCCircuitBreaker ----------------------------
(* Small instances of CircuitBreaker for TLC. *)
EXTENDS CircuitBreaker, TLC

\* Two calls fill the window, two probes decide, a call is slow after a tick.
Small ==
  [failureThreshold |-> 50, slowCallThreshold |-> 60, slowCallDurationMs |-> 1,
   minimumCalls |-> 2, slidingWindowSize |-> 2, halfOpenMaxCalls |-> 2,
   openTimeoutMs |-> 1]

\* Any failure opens, one probe closes.
Nervous == [Small EXCEPT !.minimumCalls = 1, !.slidingWindowSize = 1,
                         !.halfOpenMaxCalls = 1, !.openTimeoutMs = 2]

\* Three outcomes in the window.
Wide == [Small EXCEPT !.minimumCalls = 2, !.slidingWindowSize = 3,
                      !.failureThreshold = 60]

Invalid == [Small EXCEPT !.minimumCalls = 3]

NoConfigs  == {}
AnyConfigs == {Wide, Invalid}
Shrinking  == {Wide, Nervous}

CallSymmetry   == Permutations(Calls)
=============================================================================

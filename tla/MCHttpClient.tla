------------------------------ MODULE MCHttpClient ------------------------------
(* Small instances of HttpClient for TLC. *)
EXTENDS HttpClient, TLC

\* One failure opens, one probe closes.
Nervous ==
  [failureThreshold |-> 50, slowCallThreshold |-> 100, slowCallDurationMs |-> 1,
   minimumCalls |-> 1, slidingWindowSize |-> 1, halfOpenMaxCalls |-> 1,
   openTimeoutMs |-> 1]

RequestSymmetry == Permutations(Requests)
=============================================================================

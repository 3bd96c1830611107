---------------------------- MODULE MCBufferedSender ----------------------------
(* Small instances of BufferedSender for TLC. *)
EXTENDS BufferedSender

\* Two failures open, one probe closes.
Lenient ==
  [failureThreshold |-> 60, slowCallThreshold |-> 100, slowCallDurationMs |-> 9,
   minimumCalls |-> 2, slidingWindowSize |-> 2, halfOpenMaxCalls |-> 1,
   openTimeoutMs |-> 1]
=============================================================================

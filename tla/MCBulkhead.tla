------------------------------- MODULE MCBulkhead -------------------------------
(* Small instances of Bulkhead for TLC. *)
EXTENDS Bulkhead

\* One permit and two places in the queue; callers beyond that are refused.
Narrow ==
  [maxConcurrentCalls |-> 1, maxQueueSize |-> 2, queueTimeoutMs |-> 1,
   rejectWhenFull |-> TRUE]

\* Two permits and no queue: callers beyond that poll.
Polling ==
  [maxConcurrentCalls |-> 2, maxQueueSize |-> 0, queueTimeoutMs |-> 1,
   rejectWhenFull |-> FALSE]

Switching == {Narrow, Polling}
=============================================================================

------------------------------- MODULE Idempotency -------------------------------
(***************************************************************************)
(* The requests that carry one composite key through the interceptor of    *)
(* the idempotency package, and the record of that key in its store: in    *)
(* the memory of one process, where a call of the store is one step, or in *)
(* a Redis that several processes share, where each command is a step that *)
(* may fail.  Routes without @Idempotent() and invalid keys never reach    *)
(* the store and are left out.  A step of a request ends at an await.      *)
(* The formulas carry the request in their names, so that one module of    *)
(* proofs can extend this module and RateLimiter, which also has a Spec.   *)
(***************************************************************************)
EXTENDS Integers

CONSTANTS Requests,
          Stores,        \* the stores that may be configured
          TtlOutlasts,   \* does every handler end within the time to live?
          Ttl,           \* ttlSeconds
          MaxFailures,   \* bound on the Redis commands that fail
          MaxCrashes     \* bound on the crashes

ASSUME RequestAssumption ==
  /\ Stores \subseteq {"memory", "redis"}
  /\ TtlOutlasts \in BOOLEAN
  /\ Ttl \in Nat \ {0} /\ MaxFailures \in Nat /\ MaxCrashes \in Nat

VARIABLES store,     \* the store in use
          record,    \* what it holds under the key
          pc,        \* where each request is, in the end how it was answered
          replayed,  \* whose response each request was answered with
          performed, \* the requests whose handler succeeded
          guarded,   \* how long the success of each request forbids a new one
          failures, crashes

mishaps == <<failures, crashes>>
requestVars == <<store, record, pc, replayed, performed, guarded, mishaps>>

\* by: who claimed the key, once it is completed whose response the record holds.
\* left: the time until expiresAt.
IdempotencyRecord ==
  [status: {"pending", "completed"}, by: Requests, left: 0..Ttl]

Absent == [status |-> "absent"]
NoOne  == [status |-> "nobody"]

Answers  == {"ok", "replay", "busy", "error"}   \* busy: 409 or 202, by strategy
InFlight == {"claiming", "lostRace", "running", "completing", "writing", "deleting"}

RequestTypeOK ==
  /\ store \in Stores
  /\ record \in IdempotencyRecord \cup {Absent}
  /\ pc \in [Requests -> {"new", "crashed"} \cup InFlight \cup Answers]
  /\ replayed \in [Requests -> Requests \cup {NoOne}]
  /\ performed \subseteq Requests
  /\ guarded \in [Requests -> 0..Ttl]
  /\ failures \in 0..MaxFailures /\ crashes \in 0..MaxCrashes

RequestInit ==
  /\ store \in Stores
  /\ record = Absent
  /\ pc = [r \in Requests |-> "new"]
  /\ replayed = [r \in Requests |-> NoOne]
  /\ performed = {}
  /\ guarded = [r \in Requests |-> 0]
  /\ failures = 0 /\ crashes = 0

Goes(r, where) == pc' = [pc EXCEPT ![r] = where]

-----------------------------------------------------------------------------
(* The stores *)

\* evict(), before each get() and setIfAbsent() in memory; Redis has expired
\* the record already (SecondPasses).
Evicted == IF record # Absent /\ record.left = 0 THEN Absent ELSE record

Claim(r) == [status |-> "pending", by |-> r, left |-> Ttl]

\* Mistake: completing does not renew the time to live ...
MutCompleteKeeps(r) ==
  [status |-> "completed", by |-> r, left |-> IF record = Absent THEN Ttl ELSE record.left]

Complete(r) == [status |-> "completed", by |-> r, left |-> Ttl]

-----------------------------------------------------------------------------
(* The interceptor *)

\* Mistake: the status of the record is not looked at.
MutAnswerFrom(r, rec) ==
  /\ Goes(r, "replay")
  /\ replayed' = [replayed EXCEPT ![r] = rec.by]

\* A request that meets a record, before or after it tried to claim the key.
AnswerFrom(r, rec) ==
  /\ Goes(r, IF rec.status = "completed" THEN "replay" ELSE "busy")
  /\ replayed' = [replayed EXCEPT ![r] = IF rec.status = "completed" THEN rec.by ELSE NoOne]

Get(r) ==
  /\ pc[r] = "new"
  /\ record' = Evicted
  /\ \/ /\ record' = Absent
        /\ Goes(r, "claiming")
        /\ UNCHANGED replayed
     \/ /\ record' # Absent
        /\ AnswerFrom(r, record')
  /\ UNCHANGED <<store, performed, guarded, mishaps>>

\* Mistake: set() instead of setIfAbsent().
MutSetIfAbsent(r) ==
  /\ pc[r] = "claiming"
  /\ record' = Claim(r)
  /\ Goes(r, "running")
  /\ UNCHANGED <<store, replayed, performed, guarded, mishaps>>

\* setIfAbsent(); in Redis its SET NX EX.
SetIfAbsent(r) ==
  /\ pc[r] = "claiming"
  /\ \/ /\ Evicted = Absent
        /\ record' = Claim(r)
        /\ Goes(r, "running")
        /\ UNCHANGED replayed
     \/ /\ Evicted # Absent
        /\ record' = Evicted
        /\ IF store = "memory"
             THEN AnswerFrom(r, record')
             ELSE Goes(r, "lostRace") /\ UNCHANGED replayed
  /\ UNCHANGED <<store, performed, guarded, mishaps>>

\* The GET that follows a refused SET: null means "claimed" to the interceptor.
LookAgain(r) ==
  /\ pc[r] = "lostRace"
  /\ IF record = Absent
       THEN Goes(r, "running") /\ UNCHANGED replayed
       ELSE AnswerFrom(r, record)
  /\ UNCHANGED <<store, record, performed, guarded, mishaps>>

\* The client sees the success of its request.
Succeeds(r) ==
  /\ Goes(r, "ok")
  /\ guarded' = [guarded EXCEPT ![r] = Ttl]

\* mergeMap: the response waits for complete(), which in memory is part of this step.
HandlerSucceeds(r) ==
  /\ pc[r] = "running"
  /\ performed' = performed \cup {r}
  /\ IF store = "memory"
       THEN /\ record' = IF record = Absent THEN Absent ELSE Complete(r)
            /\ Succeeds(r)
       ELSE /\ Goes(r, "completing")
            /\ UNCHANGED <<record, guarded>>
  /\ UNCHANGED <<store, replayed, mishaps>>

\* Redis: complete() reads the record, whoever's it is, and does nothing without one ...
ReadToComplete(r) ==
  /\ pc[r] = "completing"
  /\ IF record = Absent
       THEN Succeeds(r)
       ELSE Goes(r, "writing") /\ UNCHANGED guarded
  /\ UNCHANGED <<store, record, replayed, performed, mishaps>>

\* ... and writes it back with SETEX, whether or not it is still there.
WriteCompleted(r) ==
  /\ pc[r] = "writing"
  /\ record' = Complete(r)
  /\ Succeeds(r)
  /\ UNCHANGED <<store, replayed, performed, mishaps>>

\* Mistake: the error is passed on and the record left.
MutHandlerFails(r) ==
  /\ pc[r] = "running"
  /\ Goes(r, "error")
  /\ UNCHANGED <<store, record, replayed, performed, guarded, mishaps>>

\* catchError, after the handler failed or complete() did: the error waits for delete().
HandlerFails(r) ==
  /\ pc[r] = "running"
  /\ IF store = "memory"
       THEN record' = Absent /\ Goes(r, "error")
       ELSE Goes(r, "deleting") /\ UNCHANGED record
  /\ UNCHANGED <<store, replayed, performed, guarded, mishaps>>

Delete(r) ==
  /\ pc[r] = "deleting"
  /\ record' = Absent
  /\ Goes(r, "error")
  /\ UNCHANGED <<store, replayed, performed, guarded, mishaps>>

-----------------------------------------------------------------------------
(* Failures and time *)

\* What the command a request waits for would have done to the record.
Effect(r) ==
  IF pc[r] = "claiming" /\ record = Absent THEN Claim(r)
  ELSE IF pc[r] = "writing" THEN Complete(r)
  ELSE IF pc[r] = "deleting" THEN Absent
  ELSE record

\* A Redis command fails; it may have been performed nevertheless.
StoreFails(r) ==
  /\ store = "redis"
  /\ failures < MaxFailures
  /\ pc[r] \in {"new"} \cup (InFlight \ {"running"})
  /\ record' \in {record, Effect(r)}
  /\ Goes(r, IF pc[r] \in {"completing", "writing"} THEN "deleting" ELSE "error")
  /\ failures' = failures + 1
  /\ UNCHANGED <<store, replayed, performed, guarded, crashes>>

\* A process ends.  In memory that is every request and the record; with Redis
\* each request is taken to have a process of its own.
Crash ==
  /\ crashes < MaxCrashes
  /\ LET waiting == {r \in Requests : pc[r] \in InFlight}
              dying == IF store = "memory" THEN {waiting} ELSE {{r} : r \in waiting}
     IN  \E dead \in dying :
           pc' = [r \in Requests |-> IF r \in dead THEN "crashed" ELSE pc[r]]
  /\ IF store = "memory"
       THEN record' = Absent /\ guarded' = [r \in Requests |-> 0]
       ELSE UNCHANGED <<record, guarded>>
  /\ crashes' = crashes + 1
  /\ UNCHANGED <<store, replayed, performed, failures>>

Owned == record # Absent /\ pc[record.by] \in InFlight

Less(n) == IF n = 0 THEN 0 ELSE n - 1

\* Mistake: records are stored without EX.
MutSecondPasses ==
  /\ \E r \in Requests : guarded[r] > 0
  /\ record' = record
  /\ guarded' = [r \in Requests |-> Less(guarded[r])]
  /\ UNCHANGED <<store, pc, replayed, performed, mishaps>>

\* A record with a unit of its time gone; Redis drops it with the last one.
Aged(rec) ==
  IF rec = Absent \/ (store = "redis" /\ rec.left = 1)
    THEN Absent
    ELSE [status |-> rec.status, by |-> rec.by, left |-> Less(rec.left)]

\* A unit of time passes.
SecondPasses ==
  /\ TtlOutlasts /\ Owned => record.left > 1
  /\ \/ record # Absent /\ record.left > 0
     \/ \E r \in Requests : guarded[r] > 0
  /\ record' = Aged(record)
  /\ guarded' = [r \in Requests |-> Less(guarded[r])]
  /\ UNCHANGED <<store, pc, replayed, performed, mishaps>>

StoreStep(r) ==
  \/ SetIfAbsent(r) \/ LookAgain(r)
  \/ ReadToComplete(r) \/ WriteCompleted(r) \/ Delete(r)

Handler(r) == HandlerSucceeds(r) \/ HandlerFails(r)

RequestNext ==
  \/ \E r \in Requests : Get(r) \/ StoreStep(r) \/ Handler(r) \/ StoreFails(r)
  \/ Crash
  \/ SecondPasses

RequestSpec == RequestInit /\ [][RequestNext]_requestVars

\* The event loop resumes what waits for a store, handlers end, and time passes.
\* No one has to send a request.
FairSpec ==
  /\ RequestSpec
  /\ WF_requestVars(SecondPasses)
  /\ \A r \in Requests : WF_requestVars(StoreStep(r)) /\ WF_requestVars(Handler(r))

-----------------------------------------------------------------------------
(* Properties *)

\* Never do two requests with one key run their handlers at once ("atomically
\* claim the key", "no GET + SET race condition") ...
SingleFlight ==
  \A q, r \in Requests : pc[q] = "running" /\ pc[r] = "running" => q = r

\* ... which holds in memory, where get() and setIfAbsent() are two steps too.
SingleFlightInMemory == store = "memory" => SingleFlight

Starts(r) == pc[r] # "running" /\ pc'[r] = "running"

\* In memory, no handler starts within the time to live of a success that was
\* answered: the time to live counts from the answer, also when the handler took long.
NoRepeat ==
  [][store = "memory" => \A r \in Requests : Starts(r) => \A q \in Requests : guarded[q] = 0]_requestVars

\* A pending record has a request behind it that will end it, unless a crash or
\* a failed command took that request away.
PendingOwned ==
  record # Absent /\ record.status = "pending" /\ ~Owned
    => pc[record.by] = "crashed" \/ (pc[record.by] = "error" /\ failures > 0)

\* What is replayed is the response of another request whose handler succeeded,
\* never the empty body of a claim or of a request that failed.
ReplayIsGenuine ==
  \A r \in Requests : pc[r] = "replay" => replayed[r] \in performed /\ r \notin performed

\* A request that was answered with an error did nothing, "so the client can
\* retry": with Redis it may have.
ErrorDidNothing == \A r \in Requests : pc[r] = "error" => r \notin performed

\* A claim never blocks its key for good, whatever happened to the claimant.
Blocked(r) == Evicted # Absent /\ record.status = "pending" /\ record.by = r

PendingResolved == \A r \in Requests : Blocked(r) ~> ~Blocked(r)
=============================================================================

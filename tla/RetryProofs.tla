------------------------------- MODULE RetryProofs -------------------------------
(***************************************************************************)
(* What holds of Retry for any number of executions and attempts, any      *)
(* budget, and any answers of breaker, bulkhead, store and conditions.     *)
(***************************************************************************)
EXTENDS Retry, FiniteSetTheorems, TLAPS

\* An execution starts at most one task per attempt, and sleeps before an attempt
\* it still has.
Attempts ==
  \A r \in Runs :
    /\ started[r] =< attempt[r]
    /\ pc[r] \in {"idle", "lookup", "ready", "queued"} => started[r] < attempt[r]
    /\ pc[r] = "sleeping" => attempt[r] < MaxAttempts
    /\ pc[r] \in {"idle", "lookup"} => attempt[r] = 1

\* The breaker hears of an attempt when its task has ended, and again only if the
\* result could not be stored.
Verdicts ==
  \A r \in Runs :
    /\ pc[r] \in {"idle", "lookup", "ready", "queued", "executing"} => verdicts[r] = {}
    /\ pc[r] = "storing" => verdicts[r] = {"success"}
    /\ verdicts[r] = {"success", "error"} => r \in faulted

RetryInv == TypeOK /\ Attempts /\ Verdicts

-----------------------------------------------------------------------------
(* The ends of an attempt *)

\* The places an attempt that failed leads to.
AfterFailure == {"failed", "falling", "sleeping"}

\* The catch of the loop leaves the other executions alone, tells the breaker of an
\* error or of nothing, and sleeps only before an attempt that is left.
LEMMA FailedFacts ==
  ASSUME TypeOK, NEW r \in Runs, NEW e, Failed(r, e)
  PROVE  /\ \E where \in AfterFailure :
              /\ pc' = [pc EXCEPT ![r] = where]
              /\ where = "sleeping" => attempt[r] < MaxAttempts
         /\ \/ verdicts' = verdicts
            \/ verdicts' = [verdicts EXCEPT ![r] = verdicts[r] \cup {"error"}]
         /\ retries' \in Nat
PROOF
  <1>1. \E where \in AfterFailure :
          /\ pc' = [pc EXCEPT ![r] = where]
          /\ where = "sleeping" => attempt[r] < MaxAttempts
    BY DEF Failed, GiveUp, Goes, AfterFailure
  <1>2. \/ verdicts' = verdicts
        \/ verdicts' = [verdicts EXCEPT ![r] = verdicts[r] \cup {"error"}]
    <2>1. CASE e = "transient"
      BY <2>1 DEF Failed, Tell
    <2>2. CASE e # "transient"
      BY <2>2 DEF Failed, Tell, TypeOK
    <2> QED BY <2>1, <2>2
  <1>3. retries' \in Nat
    BY DEF Failed, TypeOK
  <1> QED BY <1>1, <1>2, <1>3

\* An attempt that failed before or while its task ran keeps the invariant.
LEMMA FailureStep ==
  ASSUME RetryInv, NEW r \in Runs, NEW e, Failed(r, e),
         pc[r] \in {"ready", "queued", "executing"},
         UNCHANGED <<attempt, calls, cached, started, faulted, faults>>,
         timedOut' \in SUBSET Runs
  PROVE  RetryInv'
PROOF
  <1>1. PICK where \in AfterFailure :
          /\ pc' = [pc EXCEPT ![r] = where]
          /\ where = "sleeping" => attempt[r] < MaxAttempts
    BY FailedFacts DEF RetryInv
  <1>2. verdicts' = verdicts \/ verdicts' = [verdicts EXCEPT ![r] = verdicts[r] \cup {"error"}]
    BY FailedFacts DEF RetryInv
  <1>3. retries' \in Nat
    BY FailedFacts DEF RetryInv
  <1>4. TypeOK'
    BY <1>1, <1>2, <1>3 DEF RetryInv, TypeOK, AfterFailure, Settled
  <1>5. Attempts'
    BY <1>1 DEF RetryInv, TypeOK, Attempts, AfterFailure
  <1>6. Verdicts'
    BY <1>1, <1>2 DEF RetryInv, TypeOK, Verdicts, AfterFailure
  <1> QED BY <1>4, <1>5, <1>6 DEF RetryInv

\* A task starts: the execution has not started one at this attempt.
LEMMA StartTaskStep ==
  ASSUME RetryInv, NEW r \in Runs, StartTask(r),
         pc[r] \in {"ready", "queued"},
         UNCHANGED <<attempt, timedOut, shared, verdicts, faulted, faults>>
  PROVE  RetryInv'
PROOF
  <1> USE DEF RetryInv, TypeOK, StartTask, Goes, shared
  <1>1. TypeOK'
    <2>1. started' \in [Runs -> 0..MaxAttempts]
      <3>1. started[r] \in 0..MaxAttempts /\ attempt[r] \in 1..MaxAttempts /\ started[r] < attempt[r]
        BY DEF Attempts
      <3>2. started[r] + 1 \in 0..MaxAttempts
        BY <3>1, ConstantAssumption DEF ConstantAssumption
      <3> QED BY <3>2
    <2>2. pc' \in [Runs -> {"idle", "lookup", "ready", "queued", "executing", "storing",
                           "sleeping", "falling"} \cup Settled]
      OBVIOUS
    <2> QED BY <2>1, <2>2
  <1>2. Attempts'
    BY DEF Attempts
  <1>3. Verdicts'
    BY DEF Verdicts
  <1> QED BY <1>1, <1>2, <1>3

-----------------------------------------------------------------------------
(* Every step *)

\* A step of an execution keeps types, attempts and verdicts.
LEMMA InvStep ==
  ASSUME RetryInv, [Next]_vars
  PROVE  RetryInv'
PROOF
  <1> USE ConstantAssumption DEF ConstantAssumption, shared, history
  <1>1. ASSUME NEW r \in Runs, Start(r) PROVE RetryInv'
    BY <1>1 DEF Start, Goes, RetryInv, TypeOK, Attempts, Verdicts
  <1>2. ASSUME NEW r \in Runs, Lookup(r) PROVE RetryInv'
    BY <1>2 DEF Lookup, Goes, RetryInv, TypeOK, Attempts, Verdicts, Settled
  <1>3. ASSUME NEW r \in Runs, Overdue(r) PROVE RetryInv'
    BY <1>3 DEF Overdue, Goes, RetryInv, TypeOK, Attempts, Verdicts, Settled
  <1>4. ASSUME NEW r \in Runs, CircuitOpen(r) PROVE RetryInv'
    <2>1. \/ pc' = [pc EXCEPT ![r] = "failed"]
          \/ attempt[r] # MaxAttempts /\ pc' = [pc EXCEPT ![r] = "sleeping"]
      BY <1>4 DEF CircuitOpen, Goes
    <2> QED BY <1>4, <2>1 DEF CircuitOpen, RetryInv, TypeOK, Attempts, Verdicts, Settled
  <1>5. ASSUME NEW r \in Runs, Execute(r) PROVE RetryInv'
    <2>1. CASE StartTask(r) /\ UNCHANGED <<verdicts, retries>>
      BY <1>5, <2>1, StartTaskStep DEF Execute
    <2>2. CASE Goes(r, "queued") /\ UNCHANGED <<started, verdicts, retries>>
      BY <1>5, <2>2 DEF Execute, Goes, RetryInv, TypeOK, Attempts, Verdicts
    <2>3. CASE Failed(r, "permanent") /\ UNCHANGED started
      BY <1>5, <2>3, FailureStep DEF Execute, RetryInv, TypeOK
    <2> QED BY <1>5, <2>1, <2>2, <2>3 DEF Execute
  <1>6. ASSUME NEW r \in Runs, Admit(r) PROVE RetryInv'
    <2>1. CASE Failed(r, "transient") /\ UNCHANGED started
      BY <1>6, <2>1, FailureStep DEF Admit, RetryInv, TypeOK
    <2>2. CASE StartTask(r) /\ UNCHANGED <<verdicts, retries>>
      BY <1>6, <2>2, StartTaskStep DEF Admit
    <2> QED BY <1>6, <2>1, <2>2 DEF Admit
  <1>7. ASSUME NEW r \in Runs, QueueTimeout(r) PROVE RetryInv'
    BY <1>7, FailureStep DEF QueueTimeout, RetryInv, TypeOK
  <1>8. ASSUME NEW r \in Runs, TaskSucceeds(r) PROVE RetryInv'
    <2>1. verdicts' = [verdicts EXCEPT ![r] = {"success"}]
      BY <1>8 DEF TaskSucceeds, RetryInv, Verdicts
    <2> QED BY <1>8, <2>1 DEF TaskSucceeds, Goes, RetryInv, TypeOK, Attempts, Verdicts, Settled
  <1>9. ASSUME NEW r \in Runs, TaskFails(r) PROVE RetryInv'
    BY <1>9, FailureStep DEF TaskFails, RetryInv, TypeOK
  <1>10. ASSUME NEW r \in Runs, AttemptTimeout(r) PROVE RetryInv'
    BY <1>10, FailureStep DEF AttemptTimeout, RetryInv, TypeOK
  <1>11. ASSUME NEW r \in Runs, GlobalTimeout(r) PROVE RetryInv'
    <2>1. timedOut' \in SUBSET Runs
      BY <1>11 DEF GlobalTimeout, RetryInv, TypeOK
    <2>2. CASE pc[r] = "executing"
      BY <1>11, <2>1, <2>2, FailureStep DEF GlobalTimeout
    <2>3. CASE pc[r] # "executing"
      BY <1>11, <2>1, <2>3 DEF GlobalTimeout, RetryInv, TypeOK, Attempts, Verdicts
    <2> QED BY <2>2, <2>3
  <1>12. ASSUME NEW r \in Runs, StoreResult(r) PROVE RetryInv'
    BY <1>12 DEF StoreResult, Goes, RetryInv, TypeOK, Attempts, Verdicts, Settled
  <1>13. ASSUME NEW r \in Runs, StoreFails(r) PROVE RetryInv'
    <2>1. PICK e \in {"transient", "permanent"} : Failed(r, e)
      BY <1>13 DEF StoreFails
    <2>2. PICK where \in AfterFailure :
            /\ pc' = [pc EXCEPT ![r] = where]
            /\ where = "sleeping" => attempt[r] < MaxAttempts
      BY <2>1, FailedFacts DEF RetryInv
    <2>3. /\ verdicts' = verdicts \/ verdicts' = [verdicts EXCEPT ![r] = verdicts[r] \cup {"error"}]
          /\ retries' \in Nat
      BY <2>1, FailedFacts DEF RetryInv
    <2>4. TypeOK'
      BY <1>13, <2>2, <2>3 DEF StoreFails, RetryInv, TypeOK, AfterFailure, Settled
    <2>5. Attempts'
      BY <1>13, <2>2 DEF StoreFails, RetryInv, TypeOK, Attempts, AfterFailure
    <2>6. Verdicts'
      BY <1>13, <2>2, <2>3 DEF StoreFails, RetryInv, TypeOK, Verdicts, AfterFailure
    <2> QED BY <2>4, <2>5, <2>6 DEF RetryInv
  <1>14. ASSUME NEW r \in Runs, Wake(r) PROVE RetryInv'
    BY <1>14 DEF Wake, Goes, RetryInv, TypeOK, Attempts, Verdicts
  <1>15. ASSUME NEW r \in Runs, Fallback(r) PROVE RetryInv'
    BY <1>15 DEF Fallback, Goes, RetryInv, TypeOK, Attempts, Verdicts, Settled
  <1>16. CASE UNCHANGED vars
    BY <1>16 DEF vars, RetryInv, TypeOK, Attempts, Verdicts
  <1> QED
    BY <1>1, <1>2, <1>3, <1>4, <1>5, <1>6, <1>7, <1>8, <1>9, <1>10, <1>11, <1>12, <1>13,
       <1>14, <1>15, <1>16 DEF Next, Proceed

\* The inductive invariant holds of every execution.
THEOREM RetryInvariance == Spec => []RetryInv
PROOF
  <1>1. Init => RetryInv
    <2> SUFFICES ASSUME Init PROVE RetryInv
      OBVIOUS
    <2>1. TypeOK
      <3>1. /\ pc \in [Runs -> {"idle"}] /\ verdicts \in [Runs -> {{}}]
            /\ attempt \in [Runs -> 1..MaxAttempts] /\ started \in [Runs -> 0..MaxAttempts]
        BY ConstantAssumption DEF ConstantAssumption, Init
      <3>2. /\ timedOut \subseteq Runs /\ faulted \subseteq Runs /\ cached \in BOOLEAN
        BY DEF Init
      <3>3. calls \in Nat /\ retries \in Nat /\ faults \in 0..MaxFaults
        BY ConstantAssumption DEF ConstantAssumption, Init
      <3>4. pc \in [Runs -> {"idle", "lookup", "ready", "queued", "executing", "storing",
                            "sleeping", "falling"} \cup Settled]
        BY <3>1
      <3>5. verdicts \in [Runs -> SUBSET {"success", "error"}]
        BY <3>1
      <3> QED BY <3>1, <3>2, <3>3, <3>4, <3>5 DEF TypeOK
    <2>2. Attempts
      BY DEF Init, Attempts
    <2>3. Verdicts
      <3>1. {} # {"success", "error"}
        OBVIOUS
      <3> QED BY <3>1 DEF Init, Verdicts
    <2> QED BY <2>1, <2>2, <2>3 DEF RetryInv
  <1> QED BY <1>1, InvStep, PTL DEF Spec

\* The type invariant, which bounds the tasks an execution starts by MaxAttempts.
THEOREM TypeCorrectness == Spec => []TypeOK
PROOF
  <1>1. RetryInv => TypeOK
    BY DEF RetryInv
  <1> QED BY <1>1, RetryInvariance, PTL

\* The breaker is told of an attempt once, unless its result could not be stored.
THEOREM OneVerdictPerAttempt == Spec => []OneVerdict
PROOF
  <1>1. RetryInv => OneVerdict
    BY DEF RetryInv, Verdicts, OneVerdict
  <1> QED BY <1>1, RetryInvariance, PTL

\* Once its global timeout fired, an execution starts no task.
THEOREM GlobalTimeoutFinal == Spec => NothingAfterGlobal
PROOF
  <1> DEFINE Quiet == \A r \in Runs : r \in timedOut => started'[r] = started[r]
  <1>1. ASSUME RetryInv, Next PROVE Quiet
    <2>1. ASSUME NEW q \in Runs, UNCHANGED started PROVE Quiet
      BY <2>1
    <2>2. ASSUME NEW q \in Runs, StartTask(q), q \notin timedOut PROVE Quiet
      BY <1>1, <2>2 DEF StartTask, RetryInv, TypeOK
    <2>3. ASSUME NEW q \in Runs, Execute(q) \/ Admit(q) PROVE Quiet
      BY <2>1, <2>2, <2>3 DEF Execute, Admit
    <2>4. ASSUME NEW q \in Runs, \/ Start(q) \/ Lookup(q) \/ Overdue(q) \/ CircuitOpen(q)
                                 \/ QueueTimeout(q) \/ TaskSucceeds(q) \/ TaskFails(q)
                                 \/ AttemptTimeout(q) \/ GlobalTimeout(q) \/ StoreResult(q)
                                 \/ StoreFails(q) \/ Wake(q) \/ Fallback(q)
          PROVE Quiet
      <3>1. UNCHANGED started
        BY <2>4 DEF Start, Lookup, Overdue, CircuitOpen, QueueTimeout, TaskSucceeds, TaskFails,
                    AttemptTimeout, GlobalTimeout, StoreResult, StoreFails, Wake, Fallback, history
      <3> QED BY <3>1
    <2> QED BY <1>1, <2>3, <2>4 DEF Next, Proceed
  <1>2. RetryInv /\ [Next]_vars => [Quiet]_vars
    BY <1>1
  <1> HIDE DEF Quiet
  <1>3. Spec => [][Quiet]_vars
    BY <1>2, RetryInvariance, PTL DEF Spec
  <1> QED BY <1>3 DEF NothingAfterGlobal, Quiet

-----------------------------------------------------------------------------
(* The budget bounds the retries of all executions together.  An execution that *)
(* is going to start another task has paid for it already: what is counted is   *)
(* what was paid, and every payment either was recorded in retries or was made  *)
(* by one of the first MinRequests - 1 executions.                              *)

\* The executions the budget counted, by where they are.
Counted ==
  {r \in Runs : \/ started[r] > 0
                \/ pc[r] \in {"ready", "queued", "executing", "storing", "sleeping", "falling"}}

\* Does an execution go on to start its next task?
GoesOn(r) == pc[r] \in {"sleeping", "ready", "queued"}

\* The retries that were granted.  CircuitOpen's, which start no task, are not among
\* them: nobody grants those.
Paid == {task \in Runs \X (1..MaxAttempts) :
           \/ task[2] < started[task[1]]
           \/ task[2] = started[task[1]] /\ GoesOn(task[1])}

\* All that the executions below the minimum may retry, unrecorded.
Unrecorded == (MinRequests - 1) * (MaxAttempts - 1)

BudgetInv ==
  /\ IsFiniteSet(Counted) /\ Cardinality(Counted) =< calls
  /\ calls < MinRequests => retries = 0
  /\ calls >= MinRequests => Cardinality(Paid) =< Unrecorded + retries
  /\ retries =< CeilDiv(RatioPct * calls, 100)

\* What a step may do to the budget's numbers: count an execution, grant nothing,
\* grant a retry below the minimum, or grant one and record it.
BudgetStep ==
  \/ /\ calls' = calls + 1 /\ retries' = retries
     /\ \E r \in Runs : Counted' \subseteq Counted \cup {r}
     /\ Paid' \subseteq Paid
  \/ /\ calls' = calls
     /\ Counted' \subseteq Counted
     /\ \/ retries' = retries /\ Paid' \subseteq Paid
        \/ retries' = retries /\ calls < MinRequests
        \/ /\ retries' = retries + 1 /\ calls >= MinRequests
           /\ retries * 100 < RatioPct * calls
           /\ \E payment : Paid' \subseteq Paid \cup {payment}

\* A counted execution that moves stays counted at most, and only one that is to go on
\* and was not pays for a retry.
LEMMA MoveFacts ==
  ASSUME RetryInv, NEW r \in Runs, NEW where, r \in Counted,
         pc' = [pc EXCEPT ![r] = where], UNCHANGED started
  PROVE  /\ Counted' \subseteq Counted
         /\ Paid' \subseteq Paid \cup {<<r, started[r]>>}
         /\ GoesOn(r) \/ where \notin {"sleeping", "ready", "queued"} => Paid' \subseteq Paid
PROOF
  <1>1. \A q \in Runs : pc'[q] = IF q = r THEN where ELSE pc[q]
    BY DEF RetryInv, TypeOK
  <1>2. Counted' \subseteq Counted
    BY <1>1 DEF Counted
  <1>3. Paid' \subseteq Paid \cup {<<r, started[r]>>}
    BY <1>1 DEF Paid, GoesOn
  <1>4. ASSUME GoesOn(r) \/ where \notin {"sleeping", "ready", "queued"}
        PROVE Paid' \subseteq Paid
    BY <1>1, <1>4 DEF Paid, GoesOn
  <1> QED BY <1>2, <1>3, <1>4

\* The catch of the loop grants what it lets sleep.
LEMMA FailedBudget ==
  ASSUME RetryInv, NEW r \in Runs, NEW e, Failed(r, e), r \in Counted,
         UNCHANGED <<calls, started>>
  PROVE  BudgetStep
PROOF
  <1>1. CASE retries' = retries /\ (Goes(r, "failed") \/ Goes(r, "falling"))
    <2>1. PICK where \in {"failed", "falling"} : pc' = [pc EXCEPT ![r] = where]
      BY <1>1 DEF Goes
    <2>2. Counted' \subseteq Counted /\ Paid' \subseteq Paid
      BY <2>1, MoveFacts
    <2> QED BY <1>1, <2>2 DEF BudgetStep
  <1>2. CASE /\ Goes(r, "sleeping") /\ (Exempt \/ Consumes)
             /\ retries' = IF Exempt THEN retries ELSE retries + 1
    <2>1. Counted' \subseteq Counted /\ Paid' \subseteq Paid \cup {<<r, started[r]>>}
      BY <1>2, MoveFacts DEF Goes
    <2>2. CASE Exempt
      BY <1>2, <2>1, <2>2 DEF BudgetStep, Exempt
    <2>3. CASE ~Exempt
      <3>1. retries' = retries + 1 /\ calls >= MinRequests /\ retries * 100 < RatioPct * calls
        BY <1>2, <2>3, ConstantAssumption DEF Exempt, Consumes, ConstantAssumption, RetryInv, TypeOK
      <3> QED BY <2>1, <3>1 DEF BudgetStep
    <2> QED BY <2>2, <2>3
  <1>3. \/ retries' = retries /\ (Goes(r, "failed") \/ Goes(r, "falling"))
        \/ /\ Goes(r, "sleeping") /\ (Exempt \/ Consumes)
           /\ retries' = IF Exempt THEN retries ELSE retries + 1
    BY DEF Failed, GiveUp
  <1> QED BY <1>1, <1>2, <1>3

\* The task an execution starts was paid for when the execution went on.
LEMMA StartTaskBudget ==
  ASSUME RetryInv, NEW r \in Runs, StartTask(r), GoesOn(r), UNCHANGED <<calls, retries>>
  PROVE  BudgetStep
PROOF
  <1>1. /\ pc' = [pc EXCEPT ![r] = "executing"]
        /\ \A q \in Runs : started'[q] = IF q = r THEN started[r] + 1 ELSE started[q]
    BY DEF StartTask, Goes, RetryInv, TypeOK
  <1>2. \A q \in Runs : pc'[q] = IF q = r THEN "executing" ELSE pc[q]
    BY <1>1 DEF RetryInv, TypeOK
  <1>3. \A q \in Runs : started[q] \in Nat
    BY DEF RetryInv, TypeOK
  <1>4. r \in Counted
    BY DEF GoesOn, Counted
  <1>5. Counted' \subseteq Counted
    BY <1>1, <1>2, <1>4 DEF Counted
  <1>6. Paid' \subseteq Paid
    BY <1>1, <1>2, <1>3 DEF Paid, GoesOn
  <1> QED BY <1>5, <1>6 DEF BudgetStep

\* An execution that waits, runs, stores, sleeps or falls back moves on and asks the
\* budget nothing.
LEMMA PlainMove ==
  ASSUME RetryInv, NEW r \in Runs, NEW where, pc' = [pc EXCEPT ![r] = where],
         r \in Counted, UNCHANGED <<calls, retries, started>>,
         GoesOn(r) \/ where \notin {"sleeping", "ready", "queued"}
  PROVE  BudgetStep
PROOF
  BY MoveFacts DEF BudgetStep

\* Every step is one of the budget's steps.
LEMMA BudgetSteps ==
  ASSUME RetryInv, Next
  PROVE  BudgetStep
PROOF
  <1> USE DEF shared, history
  <1>0. \A r \in Runs : pc[r] \in {"ready", "queued", "executing", "storing", "sleeping", "falling"}
          => r \in Counted
    BY DEF Counted
  <1>1. ASSUME NEW r \in Runs, pc[r] \in {"idle", "lookup"}, UNCHANGED <<started, retries>>,
               \/ calls' = calls + 1 /\ Goes(r, "ready")
               \/ calls' = calls /\ (Goes(r, "lookup") \/ Goes(r, "ok") \/ Goes(r, "threw"))
        PROVE BudgetStep
    <2>2. PICK where \in {"ready", "lookup", "ok", "threw"} :
            /\ pc' = [pc EXCEPT ![r] = where]
            /\ where = "ready" => calls' = calls + 1
            /\ where # "ready" => calls' = calls
      BY <1>1 DEF Goes
    <2>3. \A q \in Runs : pc'[q] = IF q = r THEN where ELSE pc[q]
      BY <2>2 DEF RetryInv, TypeOK
    <2>4. Counted' \subseteq Counted \cup {r} /\ (where # "ready" => Counted' \subseteq Counted)
      BY <1>1, <2>3 DEF Counted
    <2>5. Paid' \subseteq Paid
      <3>1. started[r] = 0
        BY <1>1, ConstantAssumption DEF RetryInv, TypeOK, Attempts
      <3>2. \A q \in Runs : q # r /\ GoesOn(q)' => GoesOn(q)
        BY <2>3 DEF GoesOn
      <3>3. ASSUME NEW task \in Runs \X (1..MaxAttempts), task \in Paid' PROVE task \in Paid
        <4>1. task[1] \in Runs /\ task[2] \in 1..MaxAttempts
          BY <3>3
        <4>2. task[1] # r
          BY <1>1, <3>1, <3>3, <4>1 DEF Paid
        <4> QED BY <1>1, <3>2, <3>3, <4>1, <4>2 DEF Paid
      <3> QED BY <3>3 DEF Paid
    <2> QED BY <1>1, <2>2, <2>4, <2>5 DEF BudgetStep
  <1>2. ASSUME NEW r \in Runs, Execute(r) \/ Admit(r) PROVE BudgetStep
    <2>1. ASSUME NEW e, Failed(r, e), UNCHANGED started PROVE BudgetStep
      BY <1>0, <1>2, <2>1, FailedBudget DEF Execute, Admit
    <2>2. CASE StartTask(r) /\ UNCHANGED retries
      BY <1>2, <2>2, StartTaskBudget DEF Execute, Admit, GoesOn
    <2>3. CASE pc[r] = "ready" /\ Goes(r, "queued") /\ UNCHANGED <<calls, started, retries>>
      BY <1>0, <2>3, PlainMove DEF Goes, GoesOn
    <2> QED BY <1>2, <2>1, <2>2, <2>3 DEF Execute, Admit
  <1>3. ASSUME NEW r \in Runs, Overdue(r) \/ CircuitOpen(r) PROVE BudgetStep
    <2>1. pc[r] = "ready" /\ UNCHANGED <<calls, started, retries>>
      BY <1>3 DEF Overdue, CircuitOpen
    <2>2. \E where \in {"failed", "sleeping"} : pc' = [pc EXCEPT ![r] = where]
      BY <1>3 DEF Overdue, CircuitOpen, Goes
    <2> QED BY <1>0, <2>1, <2>2, PlainMove DEF GoesOn
  <1>4. ASSUME NEW r \in Runs, \/ QueueTimeout(r) \/ TaskFails(r) \/ AttemptTimeout(r)
                               \/ StoreFails(r)
        PROVE BudgetStep
    <2>1. /\ pc[r] \in {"queued", "executing", "storing"}
          /\ UNCHANGED <<calls, started>>
      BY <1>4 DEF QueueTimeout, TaskFails, AttemptTimeout, StoreFails
    <2>2. PICK e \in {"transient", "permanent"} : Failed(r, e)
      BY <1>4 DEF QueueTimeout, TaskFails, AttemptTimeout, StoreFails
    <2> QED BY <1>0, <2>1, <2>2, FailedBudget
  <1>5. ASSUME NEW r \in Runs, TaskSucceeds(r) \/ StoreResult(r) \/ Wake(r) \/ Fallback(r)
        PROVE BudgetStep
    <2>1. /\ pc[r] \in {"executing", "storing", "sleeping", "falling"}
          /\ UNCHANGED <<calls, started, retries>>
      BY <1>5 DEF TaskSucceeds, StoreResult, Wake, Fallback
    <2>2. PICK where : pc' = [pc EXCEPT ![r] = where] /\ (where \notin {"sleeping", "ready", "queued"} \/ GoesOn(r))
      BY <1>5 DEF TaskSucceeds, StoreResult, Wake, Fallback, Goes, GoesOn
    <2> QED BY <1>0, <2>1, <2>2, PlainMove
  <1>6. ASSUME NEW r \in Runs, GlobalTimeout(r) PROVE BudgetStep
    <2>1. UNCHANGED <<calls, started>>
      BY <1>6 DEF GlobalTimeout
    <2>2. CASE pc[r] = "executing"
      BY <1>0, <1>6, <2>1, <2>2, FailedBudget DEF GlobalTimeout
    <2>3. CASE pc[r] # "executing"
      BY <1>6, <2>1, <2>3 DEF GlobalTimeout, BudgetStep, Counted, Paid, GoesOn
    <2> QED BY <2>2, <2>3
  <1>7. ASSUME NEW r \in Runs, Start(r) \/ Lookup(r) PROVE BudgetStep
    <2>1. pc[r] \in {"idle", "lookup"} /\ UNCHANGED <<started, retries>>
      BY <1>7 DEF Start, Lookup
    <2>2. \/ calls' = calls + 1 /\ Goes(r, "ready")
          \/ calls' = calls /\ (Goes(r, "lookup") \/ Goes(r, "ok") \/ Goes(r, "threw"))
      BY <1>7 DEF Start, Lookup
    <2> QED BY <1>1, <2>1, <2>2
  <1> QED BY <1>2, <1>3, <1>4, <1>5, <1>6, <1>7 DEF Next, Proceed

-----------------------------------------------------------------------------
(* The numbers *)

\* The allowance, rounded up, covers the retry that is granted below the ratio.
LEMMA RatioFacts ==
  ASSUME NEW quota \in Nat
  PROVE  /\ CeilDiv(quota, 100) \in Nat
         /\ \A n \in Nat : n * 100 < quota => n + 1 =< CeilDiv(quota, 100)
         /\ \A more \in Nat : CeilDiv(quota, 100) =< CeilDiv(quota + more, 100)
PROOF
  BY DEF CeilDiv

\* As RatioFacts, of the ratio and the calls.
LEMMA AllowanceFacts ==
  ASSUME NEW n \in Nat, NEW done \in Nat
  PROVE  /\ CeilDiv(RatioPct * n, 100) \in Nat
         /\ done * 100 < RatioPct * n => done + 1 =< CeilDiv(RatioPct * n, 100)
         /\ CeilDiv(RatioPct * n, 100) =< CeilDiv(RatioPct * (n + 1), 100)
PROOF
  <1> DEFINE quota == RatioPct * n
  <1>1. RatioPct \in Nat
    BY ConstantAssumption DEF ConstantAssumption
  <1>2. quota \in Nat
    BY <1>1
  <1>3. RatioPct * (n + 1) = quota + RatioPct
    BY <1>1
  <1> HIDE DEF quota
  <1>4. CeilDiv(quota, 100) =< CeilDiv(quota + RatioPct, 100)
    BY <1>1, <1>2, RatioFacts
  <1>5. CeilDiv(quota, 100) \in Nat /\ (done * 100 < quota => done + 1 =< CeilDiv(quota, 100))
    BY <1>2, RatioFacts
  <1> QED BY <1>3, <1>4, <1>5 DEF quota

\* Whoever was granted a retry is counted, and was granted less than MaxAttempts.
LEMMA PaidWithin ==
  ASSUME RetryInv, IsFiniteSet(Counted)
  PROVE  /\ IsFiniteSet(Paid)
         /\ Cardinality(Paid) =< Cardinality(Counted) * (MaxAttempts - 1)
PROOF
  <1> DEFINE room == Counted \X (1..(MaxAttempts - 1))
  <1>1. Paid \subseteq room
    <2> SUFFICES ASSUME NEW task \in Paid PROVE task \in room
      OBVIOUS
    <2>1. task \in Runs \X (1..MaxAttempts) /\ task[1] \in Runs /\ task[2] \in 1..MaxAttempts
      BY DEF Paid
    <2>2. /\ started[task[1]] \in 0..MaxAttempts /\ attempt[task[1]] \in 1..MaxAttempts
          /\ GoesOn(task[1]) => started[task[1]] < MaxAttempts
      BY <2>1, ConstantAssumption DEF ConstantAssumption, RetryInv, TypeOK, Attempts, GoesOn
    <2>3. /\ task[2] < started[task[1]] \/ (task[2] = started[task[1]] /\ GoesOn(task[1]))
      BY DEF Paid
    <2>4. task[2] \in 1..(MaxAttempts - 1) /\ started[task[1]] > 0
      BY <2>1, <2>2, <2>3, ConstantAssumption DEF ConstantAssumption
    <2>5. task[1] \in Counted
      BY <2>1, <2>4 DEF Counted
    <2>6. task = <<task[1], task[2]>>
      BY <2>1
    <2> QED BY <2>4, <2>5, <2>6
  <1>2. IsFiniteSet(1..(MaxAttempts - 1)) /\ Cardinality(1..(MaxAttempts - 1)) = MaxAttempts - 1
    BY FS_Interval, ConstantAssumption DEF ConstantAssumption
  <1>3. IsFiniteSet(room) /\ Cardinality(room) = Cardinality(Counted) * (MaxAttempts - 1)
    BY <1>2, FS_Product
  <1> HIDE DEF room
  <1> QED BY <1>1, <1>3, FS_Subset

\* A larger number of executions is granted no less.
LEMMA GrantsMonotone ==
  ASSUME NEW m \in Nat, NEW n \in Nat, m =< n
  PROVE  m * (MaxAttempts - 1) =< n * (MaxAttempts - 1) /\ m * (MaxAttempts - 1) \in Nat
PROOF
  <1> DEFINE k == MaxAttempts - 1
  <1>1. k \in Nat
    BY ConstantAssumption DEF ConstantAssumption
  <1> HIDE DEF k
  <1>2. m * k =< n * k /\ m * k \in Nat
    BY <1>1
  <1> QED BY <1>2 DEF k

\* One more element is at most one more.
LEMMA OneMore ==
  ASSUME NEW S, IsFiniteSet(S), NEW T, NEW x, T \subseteq S \cup {x}
  PROVE  /\ IsFiniteSet(T) /\ Cardinality(T) \in Nat
         /\ Cardinality(T) =< Cardinality(S) + 1
PROOF
  <1>1. /\ IsFiniteSet(S \cup {x})
        /\ Cardinality(S \cup {x}) = IF x \in S THEN Cardinality(S) ELSE Cardinality(S) + 1
    BY FS_AddElement, Zenon
  <1>2. /\ IsFiniteSet(T) /\ Cardinality(T) \in Nat
        /\ Cardinality(T) =< Cardinality(S \cup {x})
    BY <1>1, FS_Subset, FS_CardinalityType
  <1>3. Cardinality(S) \in Nat
    BY FS_CardinalityType
  <1> QED BY <1>1, <1>2, <1>3

\* A step of the budget keeps its bounds.
LEMMA BudgetInvStep ==
  ASSUME RetryInv, RetryInv', BudgetInv, BudgetStep
  PROVE  BudgetInv'
PROOF
  <1>1. /\ calls \in Nat /\ retries \in Nat /\ MinRequests \in Nat \ {0}
        /\ Cardinality(Counted) \in Nat /\ IsFiniteSet(Counted) /\ Cardinality(Counted) =< calls
    BY FS_CardinalityType, ConstantAssumption DEF ConstantAssumption, RetryInv, TypeOK, BudgetInv
  <1>2. IsFiniteSet(Paid) /\ Cardinality(Paid) \in Nat
    BY <1>1, PaidWithin, FS_CardinalityType
  <1>3. Unrecorded \in Nat
    BY <1>1, GrantsMonotone DEF Unrecorded
  <1>4. retries =< CeilDiv(RatioPct * calls, 100)
    BY DEF BudgetInv
  <1>5. CASE /\ calls' = calls + 1 /\ retries' = retries
             /\ \E r \in Runs : Counted' \subseteq Counted \cup {r}
             /\ Paid' \subseteq Paid
    <2>1. IsFiniteSet(Counted') /\ Cardinality(Counted') =< calls'
      <3>1. PICK r \in Runs : Counted' \subseteq Counted \cup {r}
        BY <1>5
      <3>2. /\ IsFiniteSet(Counted') /\ Cardinality(Counted') \in Nat
            /\ Cardinality(Counted') =< Cardinality(Counted) + 1
        BY <1>1, <3>1, OneMore
      <3> QED BY <1>1, <1>5, <3>2
    <2>2. Cardinality(Paid') =< Cardinality(Paid) /\ Cardinality(Paid') \in Nat
      BY <1>2, <1>5, FS_Subset, FS_CardinalityType
    <2>3. calls' < MinRequests => retries' = 0
      BY <1>1, <1>5 DEF BudgetInv
    <2>4. calls' >= MinRequests => Cardinality(Paid') =< Unrecorded + retries'
      <3>1. CASE calls >= MinRequests
        <4>1. Cardinality(Paid) =< Unrecorded + retries
          BY <3>1 DEF BudgetInv
        <4> QED BY <1>1, <1>2, <1>3, <1>5, <2>2, <4>1
      <3>2. CASE calls = MinRequests - 1
        <4>1. Cardinality(Paid) =< Cardinality(Counted) * (MaxAttempts - 1)
          BY <1>1, PaidWithin
        <4>2. /\ Cardinality(Counted) * (MaxAttempts - 1) =< Unrecorded
              /\ Cardinality(Counted) * (MaxAttempts - 1) \in Nat
          BY <1>1, <3>2, GrantsMonotone DEF Unrecorded
        <4> HIDE DEF Unrecorded
        <4>3. Cardinality(Paid') =< Unrecorded
          BY <1>2, <1>3, <2>2, <4>1, <4>2
        <4> QED BY <1>1, <1>3, <1>5, <2>2, <4>3
      <3>3. CASE calls < MinRequests - 1
        BY <1>1, <1>5, <3>3
      <3> QED BY <1>1, <3>1, <3>2, <3>3
    <2>5. retries' =< CeilDiv(RatioPct * calls', 100)
      <3>1. /\ CeilDiv(RatioPct * calls, 100) =< CeilDiv(RatioPct * (calls + 1), 100)
            /\ CeilDiv(RatioPct * calls, 100) \in Nat /\ CeilDiv(RatioPct * (calls + 1), 100) \in Nat
        BY <1>1, AllowanceFacts
      <3> QED BY <1>1, <1>4, <1>5, <3>1
    <2> QED BY <2>1, <2>3, <2>4, <2>5 DEF BudgetInv, Unrecorded
  <1>6. CASE calls' = calls /\ Counted' \subseteq Counted
    <2>1. IsFiniteSet(Counted') /\ Cardinality(Counted') =< calls'
      <3>1. /\ IsFiniteSet(Counted') /\ Cardinality(Counted') =< Cardinality(Counted)
            /\ Cardinality(Counted') \in Nat
        BY <1>1, <1>6, FS_Subset, FS_CardinalityType
      <3> QED BY <1>1, <1>6, <3>1
    <2>2. CASE retries' = retries /\ Paid' \subseteq Paid
      <3>1. Cardinality(Paid') =< Cardinality(Paid) /\ Cardinality(Paid') \in Nat
        BY <1>2, <2>2, FS_Subset, FS_CardinalityType
      <3>2. calls' >= MinRequests => Cardinality(Paid') =< Unrecorded + retries'
        BY <1>1, <1>2, <1>3, <1>6, <2>2, <3>1 DEF BudgetInv
      <3> QED BY <1>6, <2>1, <2>2, <3>2 DEF BudgetInv, Unrecorded
    <2>3. CASE retries' = retries /\ calls < MinRequests
      <3>1. ~(calls' >= MinRequests)
        BY <1>1, <1>6, <2>3
      <3> QED BY <1>6, <2>1, <2>3, <3>1 DEF BudgetInv
    <2>4. CASE /\ retries' = retries + 1 /\ calls >= MinRequests
               /\ retries * 100 < RatioPct * calls
               /\ \E payment : Paid' \subseteq Paid \cup {payment}
      <3>1. Cardinality(Paid') =< Cardinality(Paid) + 1 /\ Cardinality(Paid') \in Nat
        <4>1. PICK payment : Paid' \subseteq Paid \cup {payment}
          BY <2>4
        <4> QED BY <1>2, <4>1, OneMore
      <3>2. Cardinality(Paid) =< Unrecorded + retries
        BY <2>4 DEF BudgetInv
      <3>3. Cardinality(Paid') =< Unrecorded + retries'
        BY <1>1, <1>2, <1>3, <2>4, <3>1, <3>2
      <3>4. retries' =< CeilDiv(RatioPct * calls', 100)
        BY <1>1, <1>6, <2>4, AllowanceFacts
      <3>5. ~(calls' < MinRequests)
        BY <1>1, <1>6, <2>4
      <3> QED BY <2>1, <3>3, <3>4, <3>5 DEF BudgetInv, Unrecorded
    <2> QED BY <1>5, <1>6, <2>2, <2>3, <2>4 DEF BudgetStep
  <1> QED BY <1>5, <1>6 DEF BudgetStep

\* The budget bounds the retries: whatever is started again was paid for.
THEOREM RetriesStayBounded == Spec => []RetriesBounded
PROOF
  <1>1. Init => BudgetInv
    <2> SUFFICES ASSUME Init PROVE BudgetInv
      OBVIOUS
    <2>1. Counted = {}
      BY DEF Init, Counted
    <2>2. IsFiniteSet(Counted) /\ Cardinality(Counted) = 0
      BY <2>1, FS_EmptySet
    <2>3. CeilDiv(RatioPct * 0, 100) \in Nat
      BY AllowanceFacts
    <2>4. calls = 0 /\ retries = 0
      BY DEF Init
    <2>5. ~(calls >= MinRequests) /\ retries =< CeilDiv(RatioPct * calls, 100)
      BY <2>3, <2>4, ConstantAssumption DEF ConstantAssumption
    <2> QED BY <2>2, <2>4, <2>5 DEF BudgetInv
  <1>2. RetryInv /\ RetryInv' /\ BudgetInv /\ [Next]_vars => BudgetInv'
    <2>1. ASSUME RetryInv, RetryInv', BudgetInv, Next PROVE BudgetInv'
      BY <2>1, BudgetSteps, BudgetInvStep
    <2>2. ASSUME BudgetInv, UNCHANGED vars PROVE BudgetInv'
      BY <2>2 DEF vars, shared, history, BudgetInv, Counted, Paid, GoesOn
    <2> QED BY <2>1, <2>2
  <1>3. RetryInv /\ BudgetInv => RetriesBounded
    <2> SUFFICES ASSUME RetryInv, BudgetInv PROVE RetriesBounded
      OBVIOUS
    <2>1. /\ calls \in Nat /\ retries \in Nat /\ MinRequests \in Nat \ {0}
          /\ Cardinality(Counted) \in Nat /\ IsFiniteSet(Counted) /\ Cardinality(Counted) =< calls
      BY FS_CardinalityType, ConstantAssumption DEF ConstantAssumption, RetryInv, TypeOK, BudgetInv
    <2>2. /\ IsFiniteSet(Paid) /\ Cardinality(Paid) \in Nat
          /\ Cardinality(Paid) =< Cardinality(Counted) * (MaxAttempts - 1)
      BY <2>1, PaidWithin, FS_CardinalityType
    <2>3. RetriedStarts \subseteq Paid
      BY DEF RetriedStarts, Paid
    <2>4. Cardinality(RetriedStarts) =< Cardinality(Paid) /\ Cardinality(RetriedStarts) \in Nat
      BY <2>2, <2>3, FS_Subset, FS_CardinalityType
    <2>5. CeilDiv(RatioPct * calls, 100) \in Nat /\ Unrecorded \in Nat
      BY <2>1, AllowanceFacts, GrantsMonotone DEF Unrecorded
    <2>6. Cardinality(Paid) =< Unrecorded + CeilDiv(RatioPct * calls, 100)
      <3>1. CASE calls >= MinRequests
        <4>1. Cardinality(Paid) =< Unrecorded + retries /\ retries =< CeilDiv(RatioPct * calls, 100)
          BY <3>1 DEF BudgetInv
        <4> QED BY <2>1, <2>2, <2>5, <4>1
      <3>2. CASE calls < MinRequests
        <4>1. /\ Cardinality(Counted) * (MaxAttempts - 1) =< Unrecorded
              /\ Cardinality(Counted) * (MaxAttempts - 1) \in Nat
          BY <2>1, <3>2, GrantsMonotone DEF Unrecorded
        <4> QED BY <2>2, <2>5, <4>1
      <3> QED BY <2>1, <3>1, <3>2
    <2>7. Cardinality(RetriedStarts) =< Unrecorded + CeilDiv(RatioPct * calls, 100)
      BY <2>2, <2>4, <2>5, <2>6
    <2> QED BY <2>7 DEF RetriesBounded, Unrecorded
  <1> QED BY <1>1, <1>2, <1>3, RetryInvariance, PTL DEF Spec
=============================================================================

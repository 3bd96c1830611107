---------------------------------- MODULE Saga ----------------------------------
(***************************************************************************)
(* One saga of the saga package: the operations of SagaEngine that create, *)
(* run, pause, resume, signal and expire it, each on a SagaInstance of its *)
(* own that works on a private copy of the stored state, the store, the    *)
(* lock with its time to live, crashes and the recovery scan.              *)
(* An operation is a caller; a step of a caller ends at an await.          *)
(***************************************************************************)
EXTENDS Integers, FiniteSets, SequencesExt

CONSTANTS Callers,
          N,             \* the number of steps (or parallel groups) of the saga
          Groups,        \* which of them are parallel groups
          Operations,    \* the operations other than run() that are called
          CheckedStore,  \* does the store refuse a save out of version?
          LockOutlasts,  \* does every execution end within the lock's time to live?
          Ttl,           \* the lock's time to live
          MaxTime,       \* bound on the clock
          MaxCrashes     \* bound on the crashes

ASSUME ConstantAssumption ==
  /\ N \in Nat \ {0} /\ Groups \subseteq 1..N
  /\ Operations \subseteq {"recover", "resume", "signal", "expireWait", "pause"}
  /\ CheckedStore \in BOOLEAN /\ LockOutlasts \in BOOLEAN
  /\ Ttl \in Nat \ {0} /\ MaxTime \in Nat /\ MaxCrashes \in Nat

VARIABLES store,      \* the stored SagaState, or Nothing
          lock,       \* when the lock expires, or Free
          now,
          pc,         \* where each caller is
          op,         \* the operation it performs
          inst,       \* its SagaInstance's state, in the end its answer
          todo,       \* the steps its CompensationRunner has left to undo
          failures,   \* did one of its compensations fail?
          finished,   \* the steps that were performed at least once
          undone,     \* how the compensations of each step went
          crashes

callerVars == <<pc, op, inst, todo, failures>>
history    == <<finished, undone>>
vars == <<store, lock, now, callerVars, history, crashes>>

Steps      == 1..N
Nothing    == [status |-> "none"]
Free       == -1

Statuses == {"PENDING", "RUNNING", "STEP_EXECUTING", "WAITING_FOR_EVENT", "COMPENSATING",
             "COMPENSATION_DONE", "PAUSED", "COMPLETED", "FAILED", "PARTIALLY_COMPENSATED"}

StepStatuses == {"PENDING", "SUCCEEDED", "FAILED", "WAITING_FOR_SIGNAL"}

SagaState ==
  [status: Statuses, steps: [Steps -> StepStatuses], index: 1..(N + 1),
   version: Nat \ {0},
   token: BOOLEAN,      \* is there an eventToken?
   deadline: BOOLEAN]   \* is there a waitExpiresAt?

\* What a call answers.
SagaOutput == [status: Statuses]

\* "locked" to "unlocking": inside executeWithLifecycle() with the lock.
Inside == {"locked", "stepping", "executing", "stepped", "failing", "failed",
           "compensating", "unlocking"}

PCs == {"idle", "locking", "pausing", "refused", "done", "crashed"} \cup Inside

TypeOK ==
  /\ store \in SagaState \cup {Nothing}
  /\ lock \in Nat \cup {Free}
  /\ now \in Nat /\ crashes \in Nat
  /\ pc \in [Callers -> PCs]
  /\ op \in [Callers -> Operations \cup {"run"}]
  /\ inst \in [Callers -> SagaState \cup SagaOutput \cup {Nothing}]
  /\ todo \in [Callers -> SUBSET Steps]
  /\ failures \in [Callers -> BOOLEAN]
  /\ finished \subseteq Steps
  /\ undone \in [Steps -> SUBSET BOOLEAN]

Init ==
  /\ store = Nothing /\ lock = Free /\ now = 0 /\ crashes = 0
  /\ pc = [c \in Callers |-> "idle"]
  /\ op = [c \in Callers |-> "run"]
  /\ inst = [c \in Callers |-> Nothing]
  /\ todo = [c \in Callers |-> {}]
  /\ failures = [c \in Callers |-> FALSE]
  /\ finished = {}
  /\ undone = [s \in Steps |-> {}]

-----------------------------------------------------------------------------
(* SagaStateMachine and the store *)

\* Mutant: a wait cannot be compensated.
MutTransitions ==
  [PENDING |-> {"RUNNING"},
   RUNNING |-> {"STEP_EXECUTING", "WAITING_FOR_EVENT", "COMPENSATING", "PAUSED", "COMPLETED"},
   STEP_EXECUTING |-> {"RUNNING", "WAITING_FOR_EVENT", "COMPENSATING"},
   WAITING_FOR_EVENT |-> {"RUNNING"},
   COMPENSATING |-> {"COMPENSATION_DONE"},
   COMPENSATION_DONE |-> {"FAILED", "PARTIALLY_COMPENSATED"},
   PAUSED |-> {"RUNNING", "COMPENSATING"},
   COMPLETED |-> {}, FAILED |-> {}, PARTIALLY_COMPENSATED |-> {}]

Transitions ==
  [PENDING |-> {"RUNNING"},
   RUNNING |-> {"STEP_EXECUTING", "WAITING_FOR_EVENT", "COMPENSATING", "PAUSED", "COMPLETED"},
   STEP_EXECUTING |-> {"RUNNING", "WAITING_FOR_EVENT", "COMPENSATING"},
   WAITING_FOR_EVENT |-> {"RUNNING", "COMPENSATING"},
   COMPENSATING |-> {"COMPENSATION_DONE"},
   COMPENSATION_DONE |-> {"FAILED", "PARTIALLY_COMPENSATED"},
   PAUSED |-> {"RUNNING", "COMPENSATING"},
   COMPLETED |-> {}, FAILED |-> {}, PARTIALLY_COMPENSATED |-> {}]

IsValidTransition(from, to) == to \in Transitions[from]

\* transition(), once it is valid: it counts the version up ...
Transition(st, to) == [st EXCEPT !.status = to, !.version = @ + 1]

\* ... and so does persistAndPublish(), which ignores the answer of save().
Save(st) ==
  LET saved == [st EXCEPT !.version = @ + 1]
  IN store' = IF CheckedStore /\ store.version # saved.version - 1 THEN store ELSE saved

Persist(c, st) ==
  /\ inst' = [inst EXCEPT ![c] = [st EXCEPT !.version = @ + 1]]
  /\ Save(st)

Goes(c, where) == pc' = [pc EXCEPT ![c] = where]

Answers(c, st) == inst' = [inst EXCEPT ![c] = [status |-> st.status]]

-----------------------------------------------------------------------------
(* SagaEngine: each operation loads its own copy of the state first *)

\* run(): create() stores the state, start() follows on the same copy.
Run(c) ==
  /\ pc[c] = "idle"
  /\ store = Nothing
  /\ store' = [status |-> "PENDING", steps |-> [s \in Steps |-> "PENDING"], index |-> 1,
               version |-> 1, token |-> FALSE, deadline |-> FALSE]
  /\ inst' = [inst EXCEPT ![c] = store']
  /\ op' = [op EXCEPT ![c] = "run"]
  /\ Goes(c, "locking")
  /\ UNCHANGED <<lock, now, todo, failures, history, crashes>>

\* The statuses RecoveryEngine takes for a crash.  (No code sets lockExpiresAt,
\* so its test of the lock lets every saga through.)
CrashedStatuses == {"RUNNING", "STEP_EXECUTING", "COMPENSATING"}

\* signal() finds the saga by its token, recoverCrashedSagas() by its status, and
\* recoverTimedOutWaits() by its status and a deadline, which may pass any time.
Found(o) ==
  CASE o = "signal" -> store.token
    [] o = "recover" -> store.status \in CrashedStatuses
    [] o = "expireWait" -> store.status = "WAITING_FOR_EVENT" /\ store.deadline
    [] OTHER -> TRUE

Load(c) ==
  /\ pc[c] = "idle"
  /\ store # Nothing
  /\ \E o \in Operations :
       /\ Found(o)
       /\ op' = [op EXCEPT ![c] = o]
       /\ Goes(c, IF o = "pause" THEN "pausing" ELSE "locking")
  /\ inst' = [inst EXCEPT ![c] = store]
  /\ UNCHANGED <<store, lock, now, todo, failures, history, crashes>>

\* pause() takes no lock.
Pause(c) ==
  /\ pc[c] = "pausing"
  /\ LET st == inst[c]
     IN IF IsValidTransition(st.status, "PAUSED")
        THEN Save(Transition(st, "PAUSED")) /\ Answers(c, [status |-> "PAUSED"])
        ELSE UNCHANGED store /\ Answers(c, st)
  /\ Goes(c, "done")
  /\ UNCHANGED <<lock, now, op, todo, failures, history, crashes>>

-----------------------------------------------------------------------------
(* executeWithLifecycle() *)

\* A lock whose time to live is over is no lock; Redis forgets its key, too.
LockFree == lock = Free \/ now >= lock

\* SET NX PX; the lock in memory, likewise, is set with its time to live.
LockTaken == lock' = now + Ttl

\* The lock knows no owner: release() frees whoever's it is.
LockReleased == lock' = Free

\* Mutant: acquire() stands inside the try whose finally releases.
MutAcquire(c) ==
  /\ pc[c] = "locking"
  /\ IF LockFree
     THEN LockTaken /\ Goes(c, "locked")
     ELSE Goes(c, "unlocking") /\ UNCHANGED lock
  /\ UNCHANGED <<store, now, op, inst, todo, failures, history, crashes>>

\* A caller that does not get the lock answers with the status it has loaded.
Acquire(c) ==
  /\ pc[c] = "locking"
  /\ IF LockFree
     THEN LockTaken /\ Goes(c, "locked")
     ELSE Goes(c, "refused") /\ UNCHANGED lock
  /\ IF pc'[c] = "locked" THEN UNCHANGED inst ELSE Answers(c, inst[c])
  /\ UNCHANGED <<store, now, op, todo, failures, history, crashes>>

\* The finally of executeWithLifecycle().
Unlock(c) ==
  /\ pc[c] = "unlocking"
  /\ LockReleased
  /\ Answers(c, inst[c])
  /\ Goes(c, "done")
  /\ UNCHANGED <<store, now, op, todo, failures, history, crashes>>

\* start() and resume(): to RUNNING, if that is allowed.
EnterRunning(c) ==
  /\ pc[c] = "locked"
  /\ op[c] \in {"run", "resume", "recover"}
  /\ IF IsValidTransition(inst[c].status, "RUNNING")
     THEN Persist(c, Transition(inst[c], "RUNNING")) /\ Goes(c, "stepping")
     ELSE Goes(c, "unlocking") /\ UNCHANGED <<store, inst>>
  /\ UNCHANGED <<lock, now, op, todo, failures, history, crashes>>

EnterSignal(c) ==
  /\ pc[c] = "locked"
  /\ op[c] = "signal"
  /\ LET st == inst[c]
         i  == st.index
     IN IF st.status = "WAITING_FOR_EVENT"
        THEN /\ Persist(c, Transition([st EXCEPT !.steps[i] = "SUCCEEDED", !.index = i + 1,
                                                 !.token = FALSE, !.deadline = FALSE],
                                      "RUNNING"))
             /\ finished' = finished \cup {i}
             /\ Goes(c, "stepping")
        ELSE Goes(c, "unlocking") /\ UNCHANGED <<store, inst, finished>>
  /\ UNCHANGED <<lock, now, op, todo, failures, undone, crashes>>

EnterExpire(c) ==
  /\ pc[c] = "locked"
  /\ op[c] = "expireWait"
  /\ LET st == inst[c]
     IN IF st.status = "WAITING_FOR_EVENT"
        THEN /\ Persist(c, [st EXCEPT !.steps[st.index] = "FAILED", !.token = FALSE,
                                      !.deadline = FALSE])
             /\ Goes(c, "failing")
        ELSE Goes(c, "unlocking") /\ UNCHANGED <<store, inst>>
  /\ UNCHANGED <<lock, now, op, todo, failures, history, crashes>>

-----------------------------------------------------------------------------
(* executeSteps() *)

\* Where the loop stands: a step that succeeded is left for RUNNING first.
Ready(c)    == IF pc[c] = "stepped" THEN Transition(inst[c], "RUNNING") ELSE inst[c]

NextStep(c) == IF pc[c] = "stepped" THEN inst[c].index + 1 ELSE inst[c].index

\* The status is assigned, not asked for: a PAUSED instance goes on.
StartStep(c) ==
  /\ pc[c] \in {"stepping", "stepped"}
  /\ NextStep(c) <= N
  /\ Persist(c, [Ready(c) EXCEPT !.status = "STEP_EXECUTING", !.index = NextStep(c)])
  /\ Goes(c, "executing")
  /\ UNCHANGED <<lock, now, op, todo, failures, history, crashes>>

\* The handler returned: a Result that says `fail' is an output like any other.
StepSucceeds(c) ==
  /\ pc[c] = "executing"
  /\ Persist(c, [inst[c] EXCEPT !.steps[inst[c].index] = "SUCCEEDED"])
  /\ finished' = finished \cup {inst[c].index}
  /\ Goes(c, "stepped")
  /\ UNCHANGED <<lock, now, op, todo, failures, undone, crashes>>

\* Mutant: a waiting step counts as succeeded.
MutStepWaits(c) ==
  /\ pc[c] = "executing"
  /\ \E deadline \in BOOLEAN :
       Persist(c, Transition([inst[c] EXCEPT !.steps[inst[c].index] = "SUCCEEDED",
                                             !.token = TRUE, !.deadline = deadline],
                             "WAITING_FOR_EVENT"))
  /\ Goes(c, "unlocking")
  /\ UNCHANGED <<lock, now, op, todo, failures, history, crashes>>

\* The handler returned waitForSignal(token, timeoutMs).
StepWaits(c) ==
  /\ pc[c] = "executing"
  /\ \E deadline \in BOOLEAN :
       Persist(c, Transition([inst[c] EXCEPT !.steps[inst[c].index] = "WAITING_FOR_SIGNAL",
                                             !.token = TRUE, !.deadline = deadline],
                             "WAITING_FOR_EVENT"))
  /\ Goes(c, "unlocking")
  /\ UNCHANGED <<lock, now, op, todo, failures, history, crashes>>

\* The handler threw or timed out.  The step's own status is left as it was.
StepThrows(c) ==
  /\ pc[c] = "executing"
  /\ Goes(c, "failing")
  /\ UNCHANGED <<store, lock, now, op, inst, todo, failures, history, crashes>>

Complete(c) ==
  /\ pc[c] \in {"stepping", "stepped"}
  /\ NextStep(c) > N
  /\ IF IsValidTransition(Ready(c).status, "COMPLETED")
     THEN Persist(c, Transition(Ready(c), "COMPLETED"))
     ELSE UNCHANGED <<store, inst>>
  /\ Goes(c, "unlocking")
  /\ UNCHANGED <<lock, now, op, todo, failures, history, crashes>>

-----------------------------------------------------------------------------
(* handleStepFailure() and CompensationRunner *)

StepFailed(c) ==
  /\ pc[c] = "failing"
  /\ Persist(c, inst[c])
  /\ Goes(c, "failed")
  /\ UNCHANGED <<lock, now, op, todo, failures, history, crashes>>

\* The steps that count as executed and have a compensation.
\* A parallel group is stored under a name no step has: it has none.
ToCompensate(st) == {s \in Steps \ Groups : st.steps[s] = "SUCCEEDED"}

\* Mutant: first step first.
MutNextToUndo(left) == Min(left)

\* The list of executed steps is walked from its end.
NextToUndo(left) == Max(left)

StartCompensation(c) ==
  /\ pc[c] = "failed"
  /\ IF IsValidTransition(inst[c].status, "COMPENSATING")
     THEN /\ Persist(c, Transition(inst[c], "COMPENSATING"))
          /\ todo' = [todo EXCEPT ![c] = ToCompensate(inst[c])]
          /\ Goes(c, "compensating")
     ELSE Goes(c, "unlocking") /\ UNCHANGED <<store, inst, todo>>
  /\ UNCHANGED <<lock, now, op, failures, history, crashes>>

\* Mutant: the runner gives up at the first compensation that fails.
MutCompensate(c, ok) ==
  /\ pc[c] = "compensating"
  /\ todo[c] # {}
  /\ LET s == NextToUndo(todo[c])
     IN /\ todo' = [todo EXCEPT ![c] = IF ok THEN @ \ {s} ELSE {}]
        /\ undone' = [undone EXCEPT ![s] = @ \cup {ok}]
  /\ failures' = [failures EXCEPT ![c] = @ \/ ~ok]
  /\ UNCHANGED <<store, lock, now, pc, op, inst, finished, crashes>>

\* One compensation: the others run whether it fails or not.
Compensate(c, ok) ==
  /\ pc[c] = "compensating"
  /\ todo[c] # {}
  /\ LET s == NextToUndo(todo[c])
     IN /\ todo' = [todo EXCEPT ![c] = @ \ {s}]
        /\ undone' = [undone EXCEPT ![s] = @ \cup {ok}]
  /\ failures' = [failures EXCEPT ![c] = @ \/ ~ok]
  /\ UNCHANGED <<store, lock, now, pc, op, inst, finished, crashes>>

EndCompensation(c) ==
  /\ pc[c] = "compensating"
  /\ todo[c] = {}
  /\ Persist(c, Transition(Transition(inst[c], "COMPENSATION_DONE"),
                           IF failures[c] THEN "PARTIALLY_COMPENSATED" ELSE "FAILED"))
  /\ failures' = [failures EXCEPT ![c] = FALSE]
  /\ Goes(c, "unlocking")
  /\ UNCHANGED <<lock, now, op, todo, history, crashes>>

-----------------------------------------------------------------------------

\* pause() on the SagaInstance that create() returned, while start() is at work.
PauseInstance(c) ==
  /\ "pause" \in Operations
  /\ op[c] = "run"
  /\ pc[c] \in Inside
  /\ IsValidTransition(inst[c].status, "PAUSED")
  /\ Persist(c, Transition(inst[c], "PAUSED"))
  /\ UNCHANGED <<lock, now, pc, op, todo, failures, history, crashes>>

\* The process of a caller dies; its lock stays until it expires.
Crash(c) ==
  /\ crashes < MaxCrashes
  /\ pc[c] \in Inside
  /\ crashes' = crashes + 1
  /\ inst' = [inst EXCEPT ![c] = Nothing]
  /\ todo' = [todo EXCEPT ![c] = {}]
  /\ failures' = [failures EXCEPT ![c] = FALSE]
  /\ Goes(c, "crashed")
  /\ UNCHANGED <<store, lock, now, op, history>>

Tick ==
  /\ now < MaxTime
  /\ LockOutlasts /\ now + 1 >= lock => \A c \in Callers : pc[c] \notin Inside
  /\ now' = now + 1
  /\ UNCHANGED <<store, lock, callerVars, history, crashes>>

CallerStep(c) ==
  \/ Run(c) \/ Load(c) \/ Pause(c) \/ Acquire(c) \/ Unlock(c)
  \/ EnterRunning(c) \/ EnterSignal(c) \/ EnterExpire(c)
  \/ StartStep(c) \/ StepSucceeds(c) \/ StepWaits(c) \/ StepThrows(c) \/ Complete(c)
  \/ StepFailed(c) \/ StartCompensation(c)
  \/ \E ok \in BOOLEAN : Compensate(c, ok)
  \/ EndCompensation(c)
  \/ PauseInstance(c) \/ Crash(c)

Next == (\E c \in Callers : CallerStep(c)) \/ Tick

Spec == Init /\ [][Next]_vars

-----------------------------------------------------------------------------
(* Safety *)

\* The lock keeps executions apart, crashes and refused callers included, as long
\* as none outlasts it.
OneExecutor == Cardinality({c \in Callers : pc[c] \in Inside}) <= 1

\* What lies behind the index of the stored record has succeeded, and a wait is for the step
\* at the index.
PositionSound ==
  store # Nothing =>
    /\ \A s \in 1..(store.index - 1) : store.steps[s] = "SUCCEEDED"
    /\ store.status = "WAITING_FOR_EVENT" =>
         /\ store.index <= N
         /\ store.steps[store.index] \in {"WAITING_FOR_SIGNAL", "FAILED"}

\* Records that are over, or that start(), resume() or a signal takes up.
AtRest(st) ==
  \/ st.status \in {"PENDING", "PAUSED", "COMPLETED", "FAILED", "PARTIALLY_COMPENSATED"}
  \/ st.status = "WAITING_FOR_EVENT" /\ st.token

\* An execution that has that very record in hand and goes on from it.
AtWork ==
  \E c \in Callers :
    pc[c] \in {"stepping", "executing", "stepped", "failing", "failed", "compensating"} /\ inst[c] = store

\* What a crash may leave: a status RecoveryEngine looks for, or the middle of an expireWait().
Abandoned(st) ==
  \/ st.status \in CrashedStatuses
  \/ st.status = "WAITING_FOR_EVENT" /\ ~ st.token /\ st.index <= N /\ st.steps[st.index] = "FAILED"

\* A record is never left in the middle but by a crash, whatever stale copies, pauses and
\* overlapping executions wrote.  (Not with a store that refuses saves, whose answer is ignored.)
NothingStranded ==
  ~ CheckedStore /\ store # Nothing =>
    AtRest(store) \/ AtWork \/ (crashes > 0 /\ Abandoned(store))

\* The stored record is true to its position, and somebody goes on from it, may be called to,
\* or died.  (That a recovery can go on from what a crash left is CrashedGoesOn, and false.)
RecordSound == PositionSound /\ NothingStranded

\* Nobody being at work, the scan can resume what it takes for crashed.
CrashedGoesOn ==
  (\A c \in Callers : pc[c] \notin Inside) /\ store.status \in CrashedStatuses =>
    IsValidTransition(store.status, "RUNNING")

\* Nobody being at work, a wait has a token or a deadline it is found by.
WaitsAreFound ==
  (\A c \in Callers : pc[c] \notin Inside) /\ store.status = "WAITING_FOR_EVENT" =>
    store.token \/ store.deadline

\* However often the saga was paused, signalled, killed and recovered, a step that
\* counts as succeeded was performed, and COMPLETED counts every step.
NothingSkipped ==
  store # Nothing =>
    /\ \A s \in Steps : store.steps[s] = "SUCCEEDED" => s \in finished
    /\ store.status = "COMPLETED" => \A s \in Steps : store.steps[s] = "SUCCEEDED"

\* FAILED says that every sequential step that had succeeded was compensated,
\* PARTIALLY_COMPENSATED that it was tried for each and failed for one.
CompensationComplete ==
  LET owed == {s \in Steps \ Groups : store.steps[s] = "SUCCEEDED"}
  IN /\ store.status = "FAILED" => \A s \in owed : TRUE \in undone[s]
     /\ store.status = "PARTIALLY_COMPENSATED" =>
          /\ \A s \in owed : undone[s] # {}
          /\ \E s \in owed : FALSE \in undone[s]

\* After a run, the store tells how it ended.
RecordFollows ==
  \A c \in Callers :
    op[c] = "run" /\ pc[c] = "done" => store.status = inst[c].status

\* FAILED says that whatever had succeeded, sequential or parallel, was compensated.
FailedIsUndone ==
  store.status = "FAILED" =>
    \A s \in Steps : store.steps[s] = "SUCCEEDED" => TRUE \in undone[s]

\* A saga reported as COMPLETED has had none of its steps undone.
CompletedIsWhole ==
  store.status = "COMPLETED" => \A s \in Steps : undone[s] = {}

-----------------------------------------------------------------------------
(* Action properties *)

\* A step starts only after every step before it has succeeded at least once.
StepsInOrder ==
  [][ \A c \in Callers : pc[c] # "executing" /\ pc'[c] = "executing" =>
        1..(inst'[c].index - 1) \subseteq finished ]_vars

\* Only a step that succeeded is compensated, and after those that follow it.
CompensationInOrder ==
  [][ \A c \in Callers : pc'[c] # "crashed" =>
        \A s \in todo[c] \ todo'[c] :
          /\ inst[c].steps[s] = "SUCCEEDED"
          /\ \A t \in ((s + 1)..N) \ Groups :
               inst[c].steps[t] = "SUCCEEDED" => undone[t] # {} ]_vars

\* Forward and backward, the steps keep their order.
InOrder == StepsInOrder /\ CompensationInOrder
=============================================================================

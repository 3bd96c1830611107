------------------------------- MODULE SagaProofs -------------------------------
(***************************************************************************)
(* What holds of a saga.  Of Saga: its record, its lock and its            *)
(* compensations, for any number of callers, steps and groups, any         *)
(* operations, any store, and any number of crashes.  Of SagaSteps, at the *)
(* end: the slots, attempts and answers of one group, for any number of    *)
(* steps, slots, places in the queue and attempts.                         *)
(***************************************************************************)
EXTENDS Saga, SagaSteps, FiniteSetTheorems, WellFoundedInduction, TLAPS

Succeeded(st, s) == st.steps[s] = "SUCCEEDED"

\* A record that is true to its position, to the steps fin that were performed and to how the
\* compensations went in und.
Resumable(st, fin, und) ==
  /\ \A s \in 1..(st.index - 1) : Succeeded(st, s)
  /\ \A s \in Steps : Succeeded(st, s) => s \in fin
  /\ st.status = "WAITING_FOR_EVENT" =>
       st.index <= N /\ st.steps[st.index] \in {"WAITING_FOR_SIGNAL", "FAILED"}
  /\ st.status = "COMPLETED" => \A s \in Steps : Succeeded(st, s)
  /\ st.status = "FAILED" => \A s \in ToCompensate(st) : TRUE \in und[s]
  /\ st.status = "PARTIALLY_COMPENSATED" =>
       /\ \A s \in ToCompensate(st) : und[s] # {}
       /\ \E s \in ToCompensate(st) : FALSE \in und[s]

RecordOK(st, fin, und) == st \in SagaState /\ Resumable(st, fin, und)

\* Where a caller stands says what its copy looks like.
Placed(where, st) ==
  /\ where \in {"executing", "stepped"} => st.status = "STEP_EXECUTING" /\ st.index <= N
  /\ where = "stepped" => Succeeded(st, st.index)

\* In the middle of the compensations, with the steps in left still to undo.
Undoing(st, left, failed, und) ==
  /\ left \subseteq ToCompensate(st)
  /\ \A s \in ToCompensate(st) \ left : und[s] # {} /\ (~failed => TRUE \in und[s])
  /\ failed => \E s \in ToCompensate(st) : FALSE \in und[s]

CallerOK(where, st, left, failed, fin, und) ==
  /\ where \in {"locking", "pausing"} \cup Inside => RecordOK(st, fin, und)
  /\ Placed(where, st)
  /\ where = "compensating" => Undoing(st, left, failed, und)
  /\ where # "compensating" => left = {} /\ ~failed

SagaInv ==
  /\ TypeOK
  /\ store # Nothing => Resumable(store, finished, undone)
  /\ \A c \in Callers : CallerOK(pc[c], inst[c], todo[c], failures[c], finished, undone)

\* What the histories do in a step, if they do anything.
Remembers ==
  /\ finished' \subseteq Steps /\ finished \subseteq finished'
  /\ undone' \in [Steps -> SUBSET BOOLEAN] /\ \A s \in Steps : undone[s] \subseteq undone'[s]

-----------------------------------------------------------------------------
(* The records of SagaState *)

LEMMA NothingIsNoState == Nothing \notin SagaState
PROOF
  BY DEF Nothing, SagaState, Statuses

Saved(st) == [st EXCEPT !.version = @ + 1]

LEMMA SavedShape ==
  ASSUME NEW st \in SagaState
  PROVE  /\ Saved(st) \in SagaState
         /\ Saved(st).status = st.status
         /\ Saved(st).steps = st.steps
         /\ Saved(st).index = st.index
PROOF
  BY DEF Saved, SagaState

\* transition() changes the status, and the version no property looks at.
LEMMA TransitionShape ==
  ASSUME NEW st \in SagaState, NEW to \in Statuses
  PROVE  /\ Transition(st, to) \in SagaState
         /\ Transition(st, to).status = to
         /\ Transition(st, to).steps = st.steps
         /\ Transition(st, to).index = st.index
PROOF
  <1> DEFINE next == [st EXCEPT !.status = to]
  <1>1. /\ next \in SagaState /\ next.status = to
        /\ next.steps = st.steps /\ next.index = st.index
    BY DEF SagaState
  <1>2. Transition(st, to) = Saved(next)
    BY DEF Transition, Saved, SagaState
  <1> HIDE DEF next
  <1> QED BY <1>1, <1>2, SavedShape

LEMMA StartedShape ==
  ASSUME NEW st \in SagaState, NEW i \in 1..(N + 1)
  PROVE  LET next == [st EXCEPT !.status = "STEP_EXECUTING", !.index = i]
         IN /\ next \in SagaState
            /\ next.status = "STEP_EXECUTING" /\ next.steps = st.steps /\ next.index = i
PROOF
  BY DEF SagaState, Statuses

\* The step an execution stands at gets a status.
Marked(st, how) == [st EXCEPT !.steps[st.index] = how]

LEMMA MarkedShape ==
  ASSUME NEW st \in SagaState, NEW how \in StepStatuses
  PROVE  /\ Marked(st, how) \in SagaState
         /\ Marked(st, how).status = st.status
         /\ Marked(st, how).steps = [st.steps EXCEPT ![st.index] = how]
         /\ Marked(st, how).index = st.index
PROOF
  BY DEF Marked, SagaState

LEMMA WaitChanged ==
  ASSUME NEW st \in SagaState, NEW how \in StepStatuses, NEW token \in BOOLEAN, NEW deadline \in BOOLEAN
  PROVE  LET next == [st EXCEPT !.steps[st.index] = how, !.token = token, !.deadline = deadline]
         IN /\ next \in SagaState
            /\ next.status = st.status
            /\ next.steps = [st.steps EXCEPT ![st.index] = how]
            /\ next.index = st.index
PROOF
  BY DEF SagaState

LEMMA SignalledShape ==
  ASSUME NEW st \in SagaState, st.index <= N
  PROVE  LET next == [st EXCEPT !.steps[st.index] = "SUCCEEDED", !.index = st.index + 1,
                                !.token = FALSE, !.deadline = FALSE]
         IN /\ next \in SagaState
            /\ next.status = st.status
            /\ next.steps = [st.steps EXCEPT ![st.index] = "SUCCEEDED"]
            /\ next.index = st.index + 1
PROOF
  <1> DEFINE next == [st EXCEPT !.steps[st.index] = "SUCCEEDED", !.index = st.index + 1,
                                !.token = FALSE, !.deadline = FALSE]
             ended == [st EXCEPT !.steps[st.index] = "SUCCEEDED", !.token = FALSE,
                                 !.deadline = FALSE]
  <1>1. /\ ended \in SagaState /\ ended.status = st.status /\ ended.index = st.index
        /\ ended.steps = [st.steps EXCEPT ![st.index] = "SUCCEEDED"]
    BY WaitChanged DEF StepStatuses
  <1>2. st.index + 1 \in 1..(N + 1)
    BY ConstantAssumption DEF SagaState
  <1>3. next = [ended EXCEPT !.index = st.index + 1]
    BY DEF SagaState
  <1> HIDE DEF ended, next
  <1>4. [ended EXCEPT !.index = st.index + 1] \in SagaState
    BY <1>1, <1>2 DEF SagaState
  <1>5. /\ [ended EXCEPT !.index = st.index + 1].status = ended.status
        /\ [ended EXCEPT !.index = st.index + 1].steps = ended.steps
        /\ [ended EXCEPT !.index = st.index + 1].index = st.index + 1
    BY <1>1 DEF SagaState
  <1>6. /\ next \in SagaState /\ next.status = st.status /\ next.index = st.index + 1
        /\ next.steps = [st.steps EXCEPT ![st.index] = "SUCCEEDED"]
    BY <1>1, <1>3, <1>4, <1>5
  <1> QED BY <1>6 DEF next

LEMMA NoPauseInAStep == ~ IsValidTransition("STEP_EXECUTING", "PAUSED")
PROOF
  BY DEF IsValidTransition, Transitions

-----------------------------------------------------------------------------
(* What Resumable depends on *)

\* The histories only grow.
LEMMA ResumableStays ==
  ASSUME NEW st \in SagaState, NEW fin, NEW und, NEW fin2, NEW und2,
         Resumable(st, fin, und), fin \subseteq fin2, \A s \in Steps : und[s] \subseteq und2[s]
  PROVE  Resumable(st, fin2, und2)
PROOF
  <1>1. ToCompensate(st) \subseteq Steps
    BY DEF ToCompensate
  <1>2. /\ st.status = "FAILED" => \A s \in ToCompensate(st) : TRUE \in und2[s]
        /\ st.status = "PARTIALLY_COMPENSATED" =>
             /\ \A s \in ToCompensate(st) : und2[s] # {}
             /\ \E s \in ToCompensate(st) : FALSE \in und2[s]
    BY <1>1 DEF Resumable
  <1>3. \A s \in Steps : Succeeded(st, s) => s \in fin2
    BY DEF Resumable
  <1> QED BY <1>2, <1>3 DEF Resumable

LEMMA CallerStays ==
  ASSUME NEW where, NEW st, NEW left, NEW failed, NEW fin, NEW und, NEW fin2, NEW und2,
         CallerOK(where, st, left, failed, fin, und),
         fin \subseteq fin2, \A s \in Steps : und[s] \subseteq und2[s]
  PROVE  CallerOK(where, st, left, failed, fin2, und2)
PROOF
  <1>1. where \in {"locking", "pausing"} \cup Inside => RecordOK(st, fin2, und2)
    BY ResumableStays DEF CallerOK, RecordOK
  <1>2. ToCompensate(st) \subseteq Steps
    BY DEF ToCompensate
  <1>3. where = "compensating" => Undoing(st, left, failed, und2)
    BY <1>2 DEF CallerOK, Undoing
  <1> QED BY <1>1, <1>3 DEF CallerOK

\* The statuses on which Resumable has nothing more to say.
Underway == {"PENDING", "RUNNING", "STEP_EXECUTING", "COMPENSATING", "COMPENSATION_DONE", "PAUSED"}

LEMMA SameStepsUnderway ==
  ASSUME NEW st \in SagaState, NEW fin, NEW und, Resumable(st, fin, und),
         NEW next \in SagaState, next.steps = st.steps, next.index = st.index,
         next.status \in Underway \/ next.status = st.status
  PROVE  Resumable(next, fin, und)
PROOF
  <1>1. ToCompensate(next) = ToCompensate(st)
    BY DEF ToCompensate
  <1>2. \A s : Succeeded(next, s) <=> Succeeded(st, s)
    BY DEF Succeeded
  <1>3. CASE next.status = st.status
    BY <1>1, <1>2, <1>3 DEF Resumable
  <1>4. CASE next.status \in Underway
    BY <1>1, <1>2, <1>4 DEF Resumable, Underway
  <1> QED BY <1>3, <1>4

LEMMA SaveKeeps ==
  ASSUME NEW st, NEW fin, NEW und, RecordOK(st, fin, und)
  PROVE  RecordOK(Saved(st), fin, und)
PROOF
  BY SavedShape, SameStepsUnderway DEF RecordOK

LEMMA TransitionKeeps ==
  ASSUME NEW st, NEW fin, NEW und, RecordOK(st, fin, und), NEW to \in Underway
  PROVE  RecordOK(Transition(st, to), fin, und)
PROOF
  <1>1. to \in Statuses
    BY DEF Underway, Statuses
  <1> QED BY <1>1, TransitionShape, SameStepsUnderway DEF RecordOK

\* A step that fails or begins to wait is not one that lies behind the index.
LEMMA UnfinishedKeeps ==
  ASSUME NEW st \in SagaState, NEW fin, NEW und, Resumable(st, fin, und), st.index <= N,
         NEW how \in {"FAILED", "WAITING_FOR_SIGNAL"},
         NEW next \in SagaState, next.index = st.index,
         next.steps = [st.steps EXCEPT ![st.index] = how],
         next.status = "WAITING_FOR_EVENT"
  PROVE  Resumable(next, fin, und)
PROOF
  <1>1. st.index \in Steps /\ DOMAIN st.steps = Steps
    BY ConstantAssumption DEF SagaState, Steps
  <1>2. next.steps[st.index] = how /\ how # "SUCCEEDED"
    BY <1>1
  <1>3. \A s \in Steps : s # st.index => next.steps[s] = st.steps[s]
    BY <1>1
  <1>4. \A s \in Steps : Succeeded(next, s) => s \in fin
    BY <1>2, <1>3 DEF Succeeded, Resumable
  <1>5. \A s \in 1..(st.index - 1) : s \in Steps /\ s # st.index
    BY <1>1, ConstantAssumption DEF Steps
  <1>6. \A s \in 1..(next.index - 1) : Succeeded(next, s)
    BY <1>3, <1>5 DEF Succeeded, Resumable
  <1> QED BY <1>2, <1>4, <1>6 DEF Resumable

LEMMA SuccessKeeps ==
  ASSUME NEW st \in SagaState, NEW fin, NEW und, Resumable(st, fin, und), st.index <= N,
         NEW next \in SagaState, next.index \in {st.index, st.index + 1},
         next.steps = [st.steps EXCEPT ![st.index] = "SUCCEEDED"],
         next.status \in Underway
  PROVE  Resumable(next, fin \cup {st.index}, und) /\ Succeeded(next, st.index)
PROOF
  <1>1. st.index \in Steps /\ DOMAIN st.steps = Steps
    BY ConstantAssumption DEF SagaState, Steps
  <1>2. next.steps[st.index] = "SUCCEEDED"
    BY <1>1
  <1>3. \A s \in Steps : s # st.index => next.steps[s] = st.steps[s]
    BY <1>1
  <1>4. \A s \in Steps : Succeeded(next, s) => s \in fin \cup {st.index}
    BY <1>3 DEF Succeeded, Resumable
  <1>5. \A s \in 1..(next.index - 1) :
          s \in Steps /\ (s = st.index \/ s \in 1..(st.index - 1))
    BY <1>1, ConstantAssumption DEF Steps
  <1>6. \A s \in 1..(next.index - 1) : Succeeded(next, s)
    BY <1>2, <1>3, <1>5 DEF Succeeded, Resumable
  <1>7. next.status \notin {"WAITING_FOR_EVENT", "COMPLETED", "FAILED", "PARTIALLY_COMPENSATED"}
    BY DEF Underway
  <1> QED BY <1>2, <1>4, <1>6, <1>7 DEF Resumable, Succeeded

-----------------------------------------------------------------------------
(* What a step of one caller has to show *)

\* What is known of a caller at work.
LEMMA Known ==
  ASSUME SagaInv, NEW c \in Callers
  PROVE  /\ CallerOK(pc[c], inst[c], todo[c], failures[c], finished, undone)
         /\ pc[c] \in {"locking", "pausing"} \cup Inside => RecordOK(inst[c], finished, undone)
         /\ pc[c] # "compensating" => todo[c] = {} /\ failures[c] = FALSE
         /\ todo[c] \subseteq Steps /\ failures[c] \in BOOLEAN
         /\ finished \subseteq Steps /\ undone \in [Steps -> SUBSET BOOLEAN]
         /\ store # Nothing => RecordOK(store, finished, undone)
PROOF
  <1>1. CallerOK(pc[c], inst[c], todo[c], failures[c], finished, undone)
    BY DEF SagaInv
  <1>2. /\ todo[c] \subseteq Steps /\ failures[c] \in BOOLEAN
        /\ finished \subseteq Steps /\ undone \in [Steps -> SUBSET BOOLEAN]
        /\ store \in SagaState \cup {Nothing}
    BY DEF SagaInv, TypeOK
  <1>3. pc[c] # "compensating" => todo[c] = {} /\ ~failures[c]
    BY <1>1 DEF CallerOK
  <1>4. pc[c] \in {"locking", "pausing"} \cup Inside => RecordOK(inst[c], finished, undone)
    BY <1>1 DEF CallerOK
  <1>5. store # Nothing => RecordOK(store, finished, undone)
    BY <1>2 DEF SagaInv, RecordOK
  <1> QED BY <1>1, <1>2, <1>3, <1>4, <1>5

RecordStored == store # Nothing => RecordOK(store, finished, undone)

\* Nobody else moves, and what the caller has afterwards is in order.
LEMMA OneMoves ==
  ASSUME SagaInv, Remembers, NEW c \in Callers,
         store' \in SagaState \cup {Nothing}, RecordStored',
         lock' \in Nat \cup {Free}, now' \in Nat, crashes' \in Nat,
         op' \in [Callers -> Operations \cup {"run"}],
         pc' \in [Callers -> PCs],
         inst' \in [Callers -> SagaState \cup SagaOutput \cup {Nothing}],
         todo' \in [Callers -> SUBSET Steps], failures' \in [Callers -> BOOLEAN],
         \A d \in Callers \ {c} : /\ pc'[d] = pc[d] /\ inst'[d] = inst[d]
                                  /\ todo'[d] = todo[d] /\ failures'[d] = failures[d],
         CallerOK(pc[c], inst[c], todo[c], failures[c], finished, undone)'
  PROVE  SagaInv'
PROOF
  <1>1. TypeOK'
    BY DEF TypeOK, Remembers
  <1>2. ASSUME NEW d \in Callers
        PROVE  CallerOK(pc[d], inst[d], todo[d], failures[d], finished, undone)'
    <2>1. CASE d = c
      BY <2>1
    <2>2. CASE d # c
      <3>1. CallerOK(pc[d], inst[d], todo[d], failures[d], finished, undone)
        BY DEF SagaInv
      <3>2. CallerOK(pc[d], inst[d], todo[d], failures[d], finished', undone')
        BY <3>1, CallerStays DEF Remembers
      <3> QED BY <2>2, <3>2
    <2> QED BY <2>1, <2>2
  <1>3. (store # Nothing => Resumable(store, finished, undone))'
    BY DEF RecordStored, RecordOK
  <1> QED BY <1>1, <1>2, <1>3 DEF SagaInv

LEMMA StoreStays ==
  ASSUME SagaInv, Remembers, store' = store
  PROVE  RecordStored' /\ store' \in SagaState \cup {Nothing}
PROOF
  <1>1. store \in SagaState \cup {Nothing}
    BY DEF SagaInv, TypeOK
  <1>2. store # Nothing => Resumable(store, finished, undone)
    BY DEF SagaInv
  <1>3. store # Nothing => Resumable(store, finished', undone')
    BY <1>1, <1>2, ResumableStays DEF Remembers
  <1> QED BY <1>1, <1>3 DEF RecordStored, RecordOK

\* The store takes the state, or keeps what it has.
LEMMA SaveStores ==
  ASSUME SagaInv, Remembers, NEW st, RecordOK(st, finished', undone'), Save(st)
  PROVE  RecordStored' /\ store' \in SagaState \cup {Nothing}
PROOF
  <1>1. RecordOK(Saved(st), finished', undone') /\ Saved(st) \in SagaState
    BY SaveKeeps DEF RecordOK
  <1>2. CASE store' = Saved(st)
    BY <1>1, <1>2 DEF RecordStored
  <1>3. CASE store' = store
    BY <1>3, StoreStays
  <1>4. store' = store \/ store' = Saved(st)
    BY DEF Save, Saved
  <1> QED BY <1>2, <1>3, <1>4

\* The caller saves its copy, and stands at w afterwards.
LEMMA PersistMoves ==
  ASSUME SagaInv, Remembers, NEW c \in Callers, NEW st, RecordOK(st, finished', undone'),
         Persist(c, st), NEW w \in PCs, Goes(c, w),
         UNCHANGED <<lock, now, op, crashes>>,
         todo' \in [Callers -> SUBSET Steps], failures' \in [Callers -> BOOLEAN],
         \A d \in Callers \ {c} : todo'[d] = todo[d] /\ failures'[d] = failures[d],
         CallerOK(w, Saved(st), todo'[c], failures'[c], finished', undone')
  PROVE  SagaInv' /\ inst'[c] = Saved(st)
PROOF
  <1>1. RecordOK(Saved(st), finished', undone') /\ Saved(st) \in SagaState
    BY SaveKeeps DEF RecordOK
  <1>2. inst' = [inst EXCEPT ![c] = Saved(st)] /\ Save(st)
    BY DEF Persist, Saved
  <1>3. RecordStored' /\ store' \in SagaState \cup {Nothing}
    BY <1>2, SaveStores
  <1>5. pc' = [pc EXCEPT ![c] = w]
    BY DEF Goes
  <1>6. /\ pc \in [Callers -> PCs] /\ lock \in Nat \cup {Free} /\ now \in Nat /\ crashes \in Nat
        /\ inst \in [Callers -> SagaState \cup SagaOutput \cup {Nothing}]
        /\ op \in [Callers -> Operations \cup {"run"}]
    BY DEF SagaInv, TypeOK
  <1>7. /\ pc' \in [Callers -> PCs]
        /\ inst' \in [Callers -> SagaState \cup SagaOutput \cup {Nothing}]
        /\ pc'[c] = w /\ inst'[c] = Saved(st)
        /\ \A d \in Callers \ {c} : pc'[d] = pc[d] /\ inst'[d] = inst[d]
    BY <1>1, <1>2, <1>5, <1>6
  <1>8. CallerOK(pc[c], inst[c], todo[c], failures[c], finished, undone)'
    BY <1>7
  <1>9. SagaInv'
    BY <1>3, <1>6, <1>7, <1>8, OneMoves
  <1> QED BY <1>7, <1>9

\* The caller saves nothing.
LEMMA QuietMoves ==
  ASSUME SagaInv, NEW c \in Callers, NEW w \in PCs, Goes(c, w),
         UNCHANGED <<store, now, todo, failures, history>>,
         lock' \in Nat \cup {Free}, crashes' \in Nat,
         op' \in [Callers -> Operations \cup {"run"}],
         NEW st \in SagaState \cup SagaOutput \cup {Nothing}, inst' = [inst EXCEPT ![c] = st],
         CallerOK(w, st, todo[c], failures[c], finished, undone)
  PROVE  SagaInv'
PROOF
  <1>1. Remembers
    BY DEF Remembers, SagaInv, TypeOK, history
  <1>2. RecordStored'
    BY Known DEF RecordStored, history
  <1>3. pc' = [pc EXCEPT ![c] = w]
    BY DEF Goes
  <1>4. /\ pc \in [Callers -> PCs] /\ now \in Nat
        /\ inst \in [Callers -> SagaState \cup SagaOutput \cup {Nothing}]
        /\ op \in [Callers -> Operations \cup {"run"}]
        /\ todo \in [Callers -> SUBSET Steps] /\ failures \in [Callers -> BOOLEAN]
        /\ store \in SagaState \cup {Nothing}
    BY DEF SagaInv, TypeOK
  <1>5. /\ pc' \in [Callers -> PCs]
        /\ inst' \in [Callers -> SagaState \cup SagaOutput \cup {Nothing}]
        /\ pc'[c] = w /\ inst'[c] = st
        /\ \A d \in Callers \ {c} : pc'[d] = pc[d] /\ inst'[d] = inst[d]
    BY <1>3, <1>4
  <1>6. CallerOK(pc[c], inst[c], todo[c], failures[c], finished, undone)'
    BY <1>5 DEF history
  <1> QED BY <1>1, <1>2, <1>4, <1>5, <1>6, OneMoves DEF history

-----------------------------------------------------------------------------
(* The steps *)

LEMMA PlacesExist ==
  /\ Inside \subseteq PCs
  /\ {"idle", "locking", "pausing", "refused", "done", "crashed"} \subseteq PCs
PROOF
  BY DEF PCs

LEMMA RunStep ==
  ASSUME SagaInv, NEW c \in Callers, Run(c)
  PROVE  SagaInv'
PROOF
  <1> DEFINE first == [status |-> "PENDING", steps |-> [s \in Steps |-> "PENDING"], index |-> 1,
                       version |-> 1, token |-> FALSE, deadline |-> FALSE]
  <1>1. first \in SagaState
    BY ConstantAssumption DEF SagaState, Statuses, StepStatuses
  <1>2. Resumable(first, finished, undone)
    <2>1. \A s \in Steps : ~ Succeeded(first, s)
      BY DEF Succeeded
    <2>2. 1..(first.index - 1) = {} /\ first.status = "PENDING"
      OBVIOUS
    <2> HIDE DEF first
    <2> QED BY <2>1, <2>2 DEF Resumable
  <1>3. store' = first /\ inst' = [inst EXCEPT ![c] = first]
    BY DEF Run
  <1> HIDE DEF first
  <1>4. RecordOK(first, finished, undone)
    BY <1>1, <1>2 DEF RecordOK
  <1>5. /\ pc[c] = "idle" /\ pc' = [pc EXCEPT ![c] = "locking"] /\ op' = [op EXCEPT ![c] = "run"]
        /\ UNCHANGED <<lock, now, todo, failures, finished, undone, crashes>>
    BY DEF Run, Goes, history
  <1>6. /\ pc' \in [Callers -> PCs] /\ op' \in [Callers -> Operations \cup {"run"}]
        /\ inst' \in [Callers -> SagaState \cup SagaOutput \cup {Nothing}]
        /\ todo' \in [Callers -> SUBSET Steps] /\ failures' \in [Callers -> BOOLEAN]
        /\ lock' \in Nat \cup {Free} /\ now' \in Nat /\ crashes' \in Nat
        /\ pc'[c] = "locking" /\ inst'[c] = first
        /\ \A d \in Callers \ {c} : /\ pc'[d] = pc[d] /\ inst'[d] = inst[d]
                                   /\ todo'[d] = todo[d] /\ failures'[d] = failures[d]
    BY <1>1, <1>3, <1>5, PlacesExist DEF SagaInv, TypeOK
  <1>7. CallerOK(pc[c], inst[c], todo[c], failures[c], finished, undone)'
    BY <1>4, <1>5, <1>6, Known DEF CallerOK, Placed
  <1>8. Remembers
    BY <1>5 DEF Remembers, SagaInv, TypeOK
  <1>9. RecordStored' /\ store' \in SagaState \cup {Nothing}
    BY <1>1, <1>3, <1>4, <1>5 DEF RecordStored
  <1> QED BY <1>6, <1>7, <1>8, <1>9, OneMoves

\* A caller that only answers, or leaves, has nothing to show.
LEMMA Left ==
  ASSUME SagaInv, NEW c \in Callers, pc[c] # "compensating",
         NEW w \in {"refused", "done", "crashed"}, NEW st
  PROVE  CallerOK(w, st, todo[c], failures[c], finished, undone)
PROOF
  BY Known DEF CallerOK, Placed, Inside

LEMMA StatusAnswered ==
  ASSUME NEW st \in SagaState
  PROVE  [status |-> st.status] \in SagaOutput
PROOF
  BY DEF SagaState, SagaOutput

LEMMA LoadStep ==
  ASSUME SagaInv, NEW c \in Callers, Load(c)
  PROVE  SagaInv'
PROOF
  <1>1. PICK o \in Operations : op' = [op EXCEPT ![c] = o]
                                /\ Goes(c, IF o = "pause" THEN "pausing" ELSE "locking")
    BY DEF Load
  <1> DEFINE w == IF o = "pause" THEN "pausing" ELSE "locking"
  <1>2. w \in PCs /\ w \in {"pausing", "locking"}
    BY PlacesExist
  <1> HIDE DEF w
  <1>3. /\ pc[c] = "idle" /\ store # Nothing /\ inst' = [inst EXCEPT ![c] = store]
        /\ UNCHANGED <<store, lock, now, todo, failures, history, crashes>>
    BY DEF Load
  <1>4. RecordOK(store, finished, undone) /\ store \in SagaState
    BY <1>3, Known DEF RecordOK
  <1>5. CallerOK(w, store, todo[c], failures[c], finished, undone)
    BY <1>2, <1>3, <1>4, Known DEF CallerOK, Placed, Inside
  <1>6. /\ op' \in [Callers -> Operations \cup {"run"}]
        /\ lock' \in Nat \cup {Free} /\ crashes' \in Nat
    BY <1>1, <1>3 DEF SagaInv, TypeOK
  <1>7. Goes(c, w)
    BY <1>1 DEF w
  <1> QED BY <1>2, <1>3, <1>4, <1>5, <1>6, <1>7, QuietMoves

LEMMA PauseStep ==
  ASSUME SagaInv, NEW c \in Callers, Pause(c)
  PROVE  SagaInv'
PROOF
  <1>1. /\ pc[c] = "pausing" /\ pc' = [pc EXCEPT ![c] = "done"]
        /\ UNCHANGED <<lock, now, op, todo, failures, finished, undone, crashes>>
    BY DEF Pause, Goes, history
  <1>2. RecordOK(inst[c], finished, undone) /\ inst[c] \in SagaState
    BY <1>1, Known DEF RecordOK
  <1>3. Remembers
    BY <1>1 DEF Remembers, SagaInv, TypeOK
  <1>4. PICK a \in SagaOutput : inst' = [inst EXCEPT ![c] = a]
    BY <1>2 DEF Pause, Answers, SagaOutput, SagaState, Statuses
  <1>5. RecordStored' /\ store' \in SagaState \cup {Nothing}
    <2>1. CASE store' = store
      BY <1>3, <2>1, StoreStays
    <2>2. CASE Save(Transition(inst[c], "PAUSED"))
      <3>1. RecordOK(Transition(inst[c], "PAUSED"), finished', undone')
        BY <1>1, <1>2, TransitionKeeps DEF Underway
      <3> QED BY <1>3, <2>2, <3>1, SaveStores
    <2> QED BY <2>1, <2>2 DEF Pause
  <1>6. /\ pc' \in [Callers -> PCs] /\ op' \in [Callers -> Operations \cup {"run"}]
        /\ inst' \in [Callers -> SagaState \cup SagaOutput \cup {Nothing}]
        /\ todo' \in [Callers -> SUBSET Steps] /\ failures' \in [Callers -> BOOLEAN]
        /\ lock' \in Nat \cup {Free} /\ now' \in Nat /\ crashes' \in Nat
        /\ pc'[c] = "done"
        /\ \A d \in Callers \ {c} : /\ pc'[d] = pc[d] /\ inst'[d] = inst[d]
                                   /\ todo'[d] = todo[d] /\ failures'[d] = failures[d]
    BY <1>1, <1>4, PlacesExist DEF SagaInv, TypeOK
  <1>7. CallerOK("done", inst'[c], todo[c], failures[c], finished, undone)
    BY <1>1, Left
  <1>8. CallerOK(pc[c], inst[c], todo[c], failures[c], finished, undone)'
    BY <1>1, <1>6, <1>7
  <1> QED BY <1>3, <1>5, <1>6, <1>8, OneMoves

\* A caller that goes on with its copy where nothing is known of it yet.
LEMMA GoesOn ==
  ASSUME SagaInv, NEW c \in Callers, pc[c] # "compensating",
         NEW st, NEW fin, NEW und, RecordOK(st, fin, und), NEW w,
         w \notin {"executing", "stepped", "compensating"}
  PROVE  CallerOK(w, st, todo[c], failures[c], fin, und)
PROOF
  BY Known DEF CallerOK, Placed

LEMMA AcquireStep ==
  ASSUME SagaInv, NEW c \in Callers, Acquire(c)
  PROVE  SagaInv'
PROOF
  <1>1. pc[c] = "locking" /\ UNCHANGED <<store, now, op, todo, failures, history, crashes>>
    BY DEF Acquire
  <1>2. RecordOK(inst[c], finished, undone) /\ inst[c] \in SagaState
    BY <1>1, Known DEF RecordOK, Inside
  <1>3. /\ todo[c] = {} /\ failures[c] = FALSE
        /\ pc \in [Callers -> PCs] /\ inst \in [Callers -> SagaState \cup SagaOutput \cup {Nothing}]
        /\ op' \in [Callers -> Operations \cup {"run"}] /\ crashes' \in Nat
        /\ lock \in Nat \cup {Free} /\ now \in Nat
    BY <1>1, Known DEF SagaInv, TypeOK
  <1>4. CASE LockFree
    <2>1. Goes(c, "locked") /\ lock' = now + Ttl /\ inst' = [inst EXCEPT ![c] = inst[c]]
      <3>1. Goes(c, "locked") /\ lock' = now + Ttl
        BY <1>4 DEF Acquire, LockTaken
      <3>2. pc'[c] = "locked"
        BY <1>3, <3>1 DEF Goes
      <3>3. inst' = inst
        BY <3>2 DEF Acquire
      <3>4. inst = [inst EXCEPT ![c] = inst[c]]
        BY <1>3
      <3> QED BY <3>1, <3>3, <3>4
    <2>2. lock' \in Nat \cup {Free}
      BY <1>3, <2>1, ConstantAssumption
    <2>3. CallerOK("locked", inst[c], todo[c], failures[c], finished, undone)
      BY <1>1, <1>2, GoesOn
    <2>4. "locked" \in PCs
      BY DEF PCs, Inside
    <2> QED BY <1>1, <1>2, <1>3, <2>1, <2>2, <2>3, <2>4, QuietMoves
  <1>5. CASE ~ LockFree
    <2> DEFINE a == [status |-> inst[c].status]
    <2>1. a \in SagaOutput
      BY <1>2, StatusAnswered
    <2>2. Goes(c, "refused") /\ lock' = lock /\ inst' = [inst EXCEPT ![c] = a]
      <3>1. Goes(c, "refused") /\ lock' = lock
        BY <1>5 DEF Acquire
      <3>2. pc'[c] # "locked"
        BY <1>3, <3>1 DEF Goes
      <3> QED BY <3>1, <3>2 DEF Acquire, Answers
    <2>3. CallerOK("refused", a, todo[c], failures[c], finished, undone)
      BY <1>1, Left
    <2>4. "refused" \in PCs
      BY DEF PCs
    <2> HIDE DEF a
    <2> QED BY <1>1, <1>3, <2>1, <2>2, <2>3, <2>4, QuietMoves
  <1> QED BY <1>4, <1>5

LEMMA UnlockStep ==
  ASSUME SagaInv, NEW c \in Callers, Unlock(c)
  PROVE  SagaInv'
PROOF
  <1> DEFINE a == [status |-> inst[c].status]
  <1>1. /\ pc[c] = "unlocking" /\ lock' = Free /\ inst' = [inst EXCEPT ![c] = a] /\ Goes(c, "done")
        /\ UNCHANGED <<store, now, op, todo, failures, history, crashes>>
    BY DEF Unlock, LockReleased, Answers
  <1>2. inst[c] \in SagaState
    BY <1>1, Known DEF RecordOK, Inside
  <1>3. a \in SagaOutput
    BY <1>2, StatusAnswered
  <1>4. CallerOK("done", a, todo[c], failures[c], finished, undone)
    BY <1>1, Left
  <1>5. "done" \in PCs
    BY DEF PCs
  <1>6. /\ op' \in [Callers -> Operations \cup {"run"}] /\ crashes' \in Nat
        /\ lock' \in Nat \cup {Free}
    BY <1>1 DEF SagaInv, TypeOK
  <1> HIDE DEF a
  <1> QED BY <1>1, <1>3, <1>4, <1>5, <1>6, QuietMoves

LEMMA CrashStep ==
  ASSUME SagaInv, NEW c \in Callers, Crash(c)
  PROVE  SagaInv'
PROOF
  <1>1. /\ inst' = [inst EXCEPT ![c] = Nothing] /\ todo' = [todo EXCEPT ![c] = {}]
        /\ failures' = [failures EXCEPT ![c] = FALSE] /\ pc' = [pc EXCEPT ![c] = "crashed"]
        /\ crashes' = crashes + 1
        /\ UNCHANGED <<store, lock, now, op, finished, undone>>
    BY DEF Crash, Goes, history
  <1>2. Remembers
    BY <1>1 DEF Remembers, SagaInv, TypeOK
  <1>3. RecordStored' /\ store' \in SagaState \cup {Nothing}
    BY <1>1, <1>2, StoreStays
  <1>4. /\ pc' \in [Callers -> PCs] /\ op' \in [Callers -> Operations \cup {"run"}]
        /\ inst' \in [Callers -> SagaState \cup SagaOutput \cup {Nothing}]
        /\ todo' \in [Callers -> SUBSET Steps] /\ failures' \in [Callers -> BOOLEAN]
        /\ lock' \in Nat \cup {Free} /\ now' \in Nat /\ crashes' \in Nat
        /\ pc'[c] = "crashed" /\ todo'[c] = {} /\ failures'[c] = FALSE
        /\ \A d \in Callers \ {c} : /\ pc'[d] = pc[d] /\ inst'[d] = inst[d]
                                   /\ todo'[d] = todo[d] /\ failures'[d] = failures[d]
    BY <1>1, PlacesExist DEF SagaInv, TypeOK
  <1>5. CallerOK(pc[c], inst[c], todo[c], failures[c], finished, undone)'
    BY <1>4 DEF CallerOK, Placed, Inside
  <1> QED BY <1>2, <1>3, <1>4, <1>5, OneMoves

\* What the caller keeps when its step touches no compensation.
LEMMA Untouched ==
  ASSUME SagaInv, NEW c \in Callers, UNCHANGED <<todo, failures>>
  PROVE  /\ todo' \in [Callers -> SUBSET Steps] /\ failures' \in [Callers -> BOOLEAN]
         /\ \A d \in Callers \ {c} : todo'[d] = todo[d] /\ failures'[d] = failures[d]
PROOF
  BY DEF SagaInv, TypeOK

LEMMA NothingNew ==
  ASSUME SagaInv, UNCHANGED <<finished, undone>>
  PROVE  Remembers
PROOF
  BY DEF Remembers, SagaInv, TypeOK

\* The caller saves a state of its own, the histories unchanged.
LEMMA SavesAndGoesOn ==
  ASSUME SagaInv, NEW c \in Callers, pc[c] # "compensating",
         NEW st, RecordOK(st, finished, undone), Persist(c, st),
         NEW w \in PCs, w \notin {"executing", "stepped", "compensating"}, Goes(c, w),
         UNCHANGED <<lock, now, op, todo, failures, finished, undone, crashes>>
  PROVE  SagaInv'
PROOF
  <1>1. Remembers
    BY NothingNew
  <1>2. RecordOK(st, finished', undone')
    OBVIOUS
  <1>3. CallerOK(w, Saved(st), todo[c], failures[c], finished, undone)
    BY SaveKeeps, GoesOn
  <1>4. CallerOK(w, Saved(st), todo'[c], failures'[c], finished', undone')
    BY <1>3
  <1> QED BY <1>1, <1>2, <1>4, Untouched, PersistMoves

\* The caller does nothing but go to its finally.
LEMMA GivesUp ==
  ASSUME SagaInv, NEW c \in Callers, pc[c] # "compensating", RecordOK(inst[c], finished, undone),
         NEW w \in PCs, w \notin {"executing", "stepped", "compensating"}, Goes(c, w),
         UNCHANGED <<store, lock, now, op, inst, todo, failures, finished, undone, crashes>>
  PROVE  SagaInv'
PROOF
  <1>1. CallerOK(w, inst[c], todo[c], failures[c], finished, undone)
    BY GoesOn
  <1>2. /\ op' \in [Callers -> Operations \cup {"run"}] /\ crashes' \in Nat
        /\ lock' \in Nat \cup {Free}
        /\ inst' = [inst EXCEPT ![c] = inst[c]]
        /\ inst[c] \in SagaState \cup SagaOutput \cup {Nothing}
    BY DEF SagaInv, TypeOK
  <1>3. UNCHANGED history
    BY DEF history
  <1> QED BY <1>1, <1>2, <1>3, QuietMoves

LEMMA EnterRunningStep ==
  ASSUME SagaInv, NEW c \in Callers, EnterRunning(c)
  PROVE  SagaInv'
PROOF
  <1>1. pc[c] = "locked" /\ UNCHANGED <<lock, now, op, todo, failures, finished, undone, crashes>>
    BY DEF EnterRunning, history
  <1>2. RecordOK(inst[c], finished, undone)
    BY <1>1, Known DEF Inside
  <1>3. CASE Persist(c, Transition(inst[c], "RUNNING")) /\ Goes(c, "stepping")
    <2>1. RecordOK(Transition(inst[c], "RUNNING"), finished, undone)
      BY <1>2, TransitionKeeps DEF Underway
    <2>2. "stepping" \in PCs
      BY DEF PCs, Inside
    <2> QED BY <1>1, <1>3, <2>1, <2>2, SavesAndGoesOn
  <1>4. CASE Goes(c, "unlocking") /\ UNCHANGED <<store, inst>>
    <2>1. "unlocking" \in PCs
      BY DEF PCs, Inside
    <2> QED BY <1>1, <1>2, <1>4, <2>1, GivesUp
  <1> QED BY <1>3, <1>4 DEF EnterRunning

LEMMA EnterExpireStep ==
  ASSUME SagaInv, NEW c \in Callers, EnterExpire(c)
  PROVE  SagaInv'
PROOF
  <1>1. pc[c] = "locked" /\ UNCHANGED <<lock, now, op, todo, failures, finished, undone, crashes>>
    BY DEF EnterExpire, history
  <1>2. RecordOK(inst[c], finished, undone) /\ inst[c] \in SagaState
    BY <1>1, Known DEF Inside, RecordOK
  <1> DEFINE st == inst[c]
             next == [st EXCEPT !.steps[st.index] = "FAILED", !.token = FALSE, !.deadline = FALSE]
  <1>3. CASE st.status = "WAITING_FOR_EVENT" /\ Persist(c, next) /\ Goes(c, "failing")
    <2>1. /\ next \in SagaState /\ next.status = st.status /\ next.index = st.index
          /\ next.steps = [st.steps EXCEPT ![st.index] = "FAILED"]
      BY <1>2, WaitChanged DEF StepStatuses
    <2> HIDE DEF next
    <2>2. st.index <= N
      BY <1>2, <1>3 DEF RecordOK, Resumable
    <2>3. Resumable(next, finished, undone)
      BY <1>2, <1>3, <2>1, <2>2, UnfinishedKeeps DEF RecordOK
    <2>4. "failing" \in PCs
      BY DEF PCs, Inside
    <2> QED BY <1>1, <1>3, <2>1, <2>3, <2>4, SavesAndGoesOn DEF RecordOK
  <1>4. CASE Goes(c, "unlocking") /\ UNCHANGED <<store, inst>>
    <2>1. "unlocking" \in PCs
      BY DEF PCs, Inside
    <2> QED BY <1>1, <1>2, <1>4, <2>1, GivesUp
  <1> HIDE DEF next
  <1>5. \/ st.status = "WAITING_FOR_EVENT" /\ Persist(c, next) /\ Goes(c, "failing")
        \/ Goes(c, "unlocking") /\ UNCHANGED <<store, inst>>
    BY DEF EnterExpire, next
  <1> QED BY <1>3, <1>4, <1>5

LEMMA EnterSignalStep ==
  ASSUME SagaInv, NEW c \in Callers, EnterSignal(c)
  PROVE  SagaInv'
PROOF
  <1>1. /\ pc[c] = "locked"
        /\ UNCHANGED <<lock, now, op, todo, failures, undone, crashes>>
    BY DEF EnterSignal, history
  <1>2. RecordOK(inst[c], finished, undone) /\ inst[c] \in SagaState
    BY <1>1, Known DEF Inside, RecordOK
  <1> DEFINE st == inst[c]
             marked == [st EXCEPT !.steps[st.index] = "SUCCEEDED", !.index = st.index + 1,
                                  !.token = FALSE, !.deadline = FALSE]
             next == Transition(marked, "RUNNING")
  <1>3. CASE /\ st.status = "WAITING_FOR_EVENT" /\ Persist(c, next) /\ Goes(c, "stepping")
             /\ finished' = finished \cup {st.index}
    <2>1. st.index <= N
      BY <1>2, <1>3 DEF RecordOK, Resumable
    <2>2. /\ marked \in SagaState /\ marked.index = st.index + 1
          /\ marked.steps = [st.steps EXCEPT ![st.index] = "SUCCEEDED"]
      BY <1>2, <2>1, SignalledShape
    <2> HIDE DEF marked
    <2>3. /\ next \in SagaState /\ next.index = st.index + 1 /\ next.status = "RUNNING"
          /\ next.steps = [st.steps EXCEPT ![st.index] = "SUCCEEDED"]
      BY <2>2, TransitionShape DEF Statuses
    <2> HIDE DEF next
    <2>4. Resumable(next, finished', undone)
      BY <1>2, <1>3, <2>1, <2>3, SuccessKeeps DEF RecordOK, Underway
    <2>5. Remembers
      <3>1. st.index \in Steps
        BY <1>2, <2>1, ConstantAssumption DEF SagaState, Steps
      <3>2. finished \subseteq Steps /\ undone \in [Steps -> SUBSET BOOLEAN]
        BY DEF SagaInv, TypeOK
      <3> QED BY <1>1, <1>3, <3>1, <3>2 DEF Remembers
    <2>6. RecordOK(next, finished', undone')
      BY <1>1, <2>3, <2>4 DEF RecordOK
    <2>7. CallerOK("stepping", Saved(next), todo[c], failures[c], finished', undone')
      BY <1>1, <2>6, SaveKeeps, GoesOn
    <2>8. CallerOK("stepping", Saved(next), todo'[c], failures'[c], finished', undone')
      BY <1>1, <2>7
    <2>9. "stepping" \in PCs
      BY DEF PCs, Inside
    <2> QED BY <1>1, <1>3, <2>5, <2>6, <2>8, <2>9, Untouched, PersistMoves
  <1>4. CASE Goes(c, "unlocking") /\ UNCHANGED <<store, inst, finished>>
    <2>1. "unlocking" \in PCs
      BY DEF PCs, Inside
    <2> QED BY <1>1, <1>2, <1>4, <2>1, GivesUp
  <1> HIDE DEF marked, next
  <1>5. \/ /\ st.status = "WAITING_FOR_EVENT" /\ Persist(c, next) /\ Goes(c, "stepping")
           /\ finished' = finished \cup {st.index}
        \/ Goes(c, "unlocking") /\ UNCHANGED <<store, inst, finished>>
    BY DEF EnterSignal, next, marked
  <1> QED BY <1>3, <1>4, <1>5

\* The loop goes to the next step, or is still before the one it was at.
LEMMA MovingOnKeeps ==
  ASSUME NEW st \in SagaState, NEW fin, NEW und, Resumable(st, fin, und),
         NEW next \in SagaState, next.steps = st.steps, next.status \in Underway,
         next.index = st.index \/ (next.index = st.index + 1 /\ Succeeded(st, st.index))
  PROVE  Resumable(next, fin, und)
PROOF
  <1>1. \A s : Succeeded(next, s) <=> Succeeded(st, s)
    BY DEF Succeeded
  <1>2. st.index \in Nat
    BY ConstantAssumption DEF SagaState
  <1>3. ASSUME NEW s \in 1..(next.index - 1)
        PROVE  Succeeded(next, s)
    <2>1. s \in 1..(st.index - 1) \/ (s = st.index /\ Succeeded(st, st.index))
      BY <1>2
    <2> QED BY <1>1, <2>1 DEF Resumable
  <1>4. next.status \notin {"WAITING_FOR_EVENT", "COMPLETED", "FAILED", "PARTIALLY_COMPENSATED"}
    BY DEF Underway
  <1>5. \A s \in Steps : Succeeded(next, s) => s \in fin
    BY <1>1 DEF Resumable
  <1> QED BY <1>3, <1>4, <1>5 DEF Resumable

\* The loop of executeSteps() between two steps.
LEMMA BetweenSteps ==
  ASSUME SagaInv, NEW c \in Callers, pc[c] \in {"stepping", "stepped"}
  PROVE  /\ RecordOK(inst[c], finished, undone) /\ inst[c] \in SagaState
         /\ Ready(c) \in SagaState /\ Ready(c).steps = inst[c].steps
         /\ Ready(c).index = inst[c].index
         /\ NextStep(c) \in Nat \ {0}
         /\ \/ NextStep(c) = inst[c].index
            \/ NextStep(c) = inst[c].index + 1 /\ Succeeded(inst[c], inst[c].index)
PROOF
  <1>1. RecordOK(inst[c], finished, undone) /\ inst[c] \in SagaState
    BY Known DEF Inside, RecordOK
  <1>2. pc[c] = "stepped" => Succeeded(inst[c], inst[c].index)
    BY Known DEF CallerOK, Placed
  <1>3. Ready(c) = inst[c] \/ Ready(c) = Transition(inst[c], "RUNNING")
    BY DEF Ready
  <1>4. inst[c].index \in Nat \ {0}
    BY <1>1, ConstantAssumption DEF SagaState
  <1>5. /\ NextStep(c) \in Nat \ {0}
        /\ \/ NextStep(c) = inst[c].index
           \/ NextStep(c) = inst[c].index + 1 /\ Succeeded(inst[c], inst[c].index)
    BY <1>2, <1>4 DEF NextStep
  <1>6. /\ Ready(c) \in SagaState /\ Ready(c).steps = inst[c].steps
        /\ Ready(c).index = inst[c].index
    BY <1>1, <1>3, TransitionShape DEF Statuses
  <1> QED BY <1>1, <1>5, <1>6

LEMMA StartStepStep ==
  ASSUME SagaInv, NEW c \in Callers, StartStep(c)
  PROVE  SagaInv'
PROOF
  <1> DEFINE next == [Ready(c) EXCEPT !.status = "STEP_EXECUTING", !.index = NextStep(c)]
  <1>1. /\ pc[c] \in {"stepping", "stepped"} /\ NextStep(c) <= N
        /\ Persist(c, next) /\ Goes(c, "executing")
        /\ UNCHANGED <<lock, now, op, todo, failures, finished, undone, crashes>>
    BY DEF StartStep, history
  <1>2. /\ RecordOK(inst[c], finished, undone) /\ inst[c] \in SagaState
        /\ Ready(c) \in SagaState /\ Ready(c).steps = inst[c].steps
        /\ NextStep(c) \in Nat \ {0}
        /\ \/ NextStep(c) = inst[c].index
           \/ NextStep(c) = inst[c].index + 1 /\ Succeeded(inst[c], inst[c].index)
    BY <1>1, BetweenSteps
  <1>3. NextStep(c) \in 1..(N + 1)
    BY <1>1, <1>2, ConstantAssumption
  <1>4. /\ next \in SagaState /\ next.status = "STEP_EXECUTING"
        /\ next.steps = inst[c].steps /\ next.index = NextStep(c)
    BY <1>2, <1>3, StartedShape
  <1> HIDE DEF next
  <1>5. Resumable(next, finished, undone)
    BY <1>2, <1>4, MovingOnKeeps DEF RecordOK, Underway
  <1>6. RecordOK(next, finished, undone)
    BY <1>4, <1>5 DEF RecordOK
  <1>7. /\ RecordOK(Saved(next), finished, undone)
        /\ Saved(next).status = "STEP_EXECUTING" /\ Saved(next).index <= N
    BY <1>1, <1>4, <1>6, SaveKeeps, SavedShape
  <1>8. CallerOK("executing", Saved(next), todo[c], failures[c], finished, undone)
    BY <1>1, <1>7, Known DEF CallerOK, Placed
  <1>9. Remembers /\ "executing" \in PCs
    BY <1>1, NothingNew DEF PCs, Inside
  <1>10. /\ RecordOK(next, finished', undone')
         /\ CallerOK("executing", Saved(next), todo'[c], failures'[c], finished', undone')
    BY <1>1, <1>6, <1>8
  <1> QED BY <1>1, <1>9, <1>10, Untouched, PersistMoves

\* A caller whose handler is at work.
LEMMA InAStep ==
  ASSUME SagaInv, NEW c \in Callers, pc[c] = "executing"
  PROVE  /\ RecordOK(inst[c], finished, undone) /\ inst[c] \in SagaState
         /\ Resumable(inst[c], finished, undone)
         /\ inst[c].status = "STEP_EXECUTING" /\ inst[c].index <= N /\ inst[c].index \in Steps
PROOF
  <1>1. RecordOK(inst[c], finished, undone) /\ inst[c] \in SagaState
    BY Known DEF Inside, RecordOK
  <1>2. inst[c].status = "STEP_EXECUTING" /\ inst[c].index <= N
    BY Known DEF CallerOK, Placed
  <1>3. inst[c].index \in Steps
    BY <1>1, <1>2, ConstantAssumption DEF SagaState, Steps
  <1> QED BY <1>1, <1>2, <1>3 DEF RecordOK

LEMMA StepSucceedsStep ==
  ASSUME SagaInv, NEW c \in Callers, StepSucceeds(c)
  PROVE  SagaInv'
PROOF
  <1> DEFINE st == inst[c]
             next == Marked(st, "SUCCEEDED")
  <1>1. /\ pc[c] = "executing" /\ Goes(c, "stepped") /\ finished' = finished \cup {st.index}
        /\ UNCHANGED <<lock, now, op, todo, failures, undone, crashes>>
    BY DEF StepSucceeds
  <1>2. Persist(c, next)
    BY DEF StepSucceeds, Marked
  <1>3. /\ st \in SagaState /\ Resumable(st, finished, undone)
        /\ st.status = "STEP_EXECUTING" /\ st.index <= N /\ st.index \in Steps
    BY <1>1, InAStep
  <1>4. /\ next \in SagaState /\ next.status = "STEP_EXECUTING" /\ next.index = st.index
        /\ next.steps = [st.steps EXCEPT ![st.index] = "SUCCEEDED"]
    BY <1>3, MarkedShape DEF StepStatuses
  <1> HIDE DEF next
  <1>5. Resumable(next, finished', undone) /\ Succeeded(next, st.index)
    BY <1>1, <1>3, <1>4, SuccessKeeps DEF Underway
  <1>6. RecordOK(next, finished', undone)
    BY <1>4, <1>5 DEF RecordOK
  <1>7. /\ RecordOK(Saved(next), finished', undone)
        /\ Saved(next).status = "STEP_EXECUTING" /\ Saved(next).index <= N
        /\ Succeeded(Saved(next), Saved(next).index)
    BY <1>3, <1>4, <1>5, <1>6, SaveKeeps, SavedShape DEF Succeeded
  <1>8. CallerOK("stepped", Saved(next), todo[c], failures[c], finished', undone)
    BY <1>1, <1>7, Known DEF CallerOK, Placed
  <1>9. Remembers
    <2>1. finished \subseteq Steps /\ undone \in [Steps -> SUBSET BOOLEAN]
      BY DEF SagaInv, TypeOK
    <2> QED BY <1>1, <1>3, <2>1 DEF Remembers
  <1>10. /\ RecordOK(next, finished', undone') /\ "stepped" \in PCs
         /\ CallerOK("stepped", Saved(next), todo'[c], failures'[c], finished', undone')
    BY <1>1, <1>6, <1>8 DEF PCs, Inside
  <1> QED BY <1>1, <1>2, <1>9, <1>10, Untouched, PersistMoves

LEMMA StepWaitsStep ==
  ASSUME SagaInv, NEW c \in Callers, StepWaits(c)
  PROVE  SagaInv'
PROOF
  <1>1. /\ pc[c] = "executing" /\ Goes(c, "unlocking")
        /\ UNCHANGED <<lock, now, op, todo, failures, finished, undone, crashes>>
    BY DEF StepWaits, history
  <1> DEFINE st == inst[c]
             marked(d) == [st EXCEPT !.steps[st.index] = "WAITING_FOR_SIGNAL",
                                     !.token = TRUE, !.deadline = d]
  <1>2. PICK deadline \in BOOLEAN : Persist(c, Transition(marked(deadline), "WAITING_FOR_EVENT"))
    BY DEF StepWaits
  <1> DEFINE next == Transition(marked(deadline), "WAITING_FOR_EVENT")
  <1>3. /\ st \in SagaState /\ Resumable(st, finished, undone) /\ st.index <= N
    BY <1>1, InAStep
  <1>4. /\ marked(deadline) \in SagaState /\ marked(deadline).index = st.index
        /\ marked(deadline).steps = [st.steps EXCEPT ![st.index] = "WAITING_FOR_SIGNAL"]
    BY <1>3, WaitChanged DEF StepStatuses
  <1> HIDE DEF marked
  <1>5. /\ next \in SagaState /\ next.index = st.index /\ next.status = "WAITING_FOR_EVENT"
        /\ next.steps = [st.steps EXCEPT ![st.index] = "WAITING_FOR_SIGNAL"]
    BY <1>4, TransitionShape DEF Statuses
  <1>6. Persist(c, next)
    BY <1>2
  <1> HIDE DEF next
  <1>7. Resumable(next, finished, undone)
    BY <1>3, <1>5, UnfinishedKeeps
  <1>8. RecordOK(next, finished, undone) /\ "unlocking" \in PCs
    BY <1>5, <1>7 DEF RecordOK, PCs, Inside
  <1> QED BY <1>1, <1>6, <1>8, SavesAndGoesOn

LEMMA StepThrowsStep ==
  ASSUME SagaInv, NEW c \in Callers, StepThrows(c)
  PROVE  SagaInv'
PROOF
  <1>1. /\ pc[c] = "executing" /\ Goes(c, "failing")
        /\ UNCHANGED <<store, lock, now, op, inst, todo, failures, finished, undone, crashes>>
    BY DEF StepThrows, history
  <1>2. RecordOK(inst[c], finished, undone) /\ "failing" \in PCs
    BY <1>1, InAStep DEF PCs, Inside
  <1> QED BY <1>1, <1>2, GivesUp

LEMMA CompleteStep ==
  ASSUME SagaInv, NEW c \in Callers, Complete(c)
  PROVE  SagaInv'
PROOF
  <1> DEFINE next == Transition(Ready(c), "COMPLETED")
  <1>1. /\ pc[c] \in {"stepping", "stepped"} /\ NextStep(c) > N /\ Goes(c, "unlocking")
        /\ Persist(c, next) \/ UNCHANGED <<store, inst>>
        /\ UNCHANGED <<lock, now, op, todo, failures, finished, undone, crashes>>
    BY DEF Complete, history
  <1>2. /\ RecordOK(inst[c], finished, undone) /\ inst[c] \in SagaState
        /\ Ready(c) \in SagaState /\ Ready(c).steps = inst[c].steps
        /\ Ready(c).index = inst[c].index
        /\ \/ NextStep(c) = inst[c].index
           \/ NextStep(c) = inst[c].index + 1 /\ Succeeded(inst[c], inst[c].index)
    BY <1>1, BetweenSteps
  <1>3. "unlocking" \in PCs
    BY DEF PCs, Inside
  <1>4. CASE Persist(c, next)
    <2>1. /\ next \in SagaState /\ next.status = "COMPLETED"
          /\ next.steps = inst[c].steps /\ next.index = inst[c].index
      BY <1>2, TransitionShape DEF Statuses
    <2> HIDE DEF next
    <2>2. inst[c].index \in Nat
      BY <1>2, ConstantAssumption DEF SagaState
    <2>3. \A s \in Steps : s \in 1..(inst[c].index - 1) \/ Succeeded(inst[c], s)
      BY <1>1, <1>2, <2>2, ConstantAssumption DEF Steps
    <2>4. \A s \in Steps : Succeeded(inst[c], s)
      BY <1>2, <2>3 DEF RecordOK, Resumable
    <2>5. \A s : Succeeded(next, s) <=> Succeeded(inst[c], s)
      BY <2>1 DEF Succeeded
    <2>6. Resumable(next, finished, undone)
      BY <1>2, <2>1, <2>4, <2>5 DEF RecordOK, Resumable
    <2>7. RecordOK(next, finished, undone)
      BY <2>1, <2>6 DEF RecordOK
    <2> QED BY <1>1, <1>3, <1>4, <2>7, SavesAndGoesOn
  <1>5. CASE UNCHANGED <<store, inst>>
    BY <1>1, <1>2, <1>3, <1>5, GivesUp
  <1> QED BY <1>1, <1>4, <1>5

LEMMA StepFailedStep ==
  ASSUME SagaInv, NEW c \in Callers, StepFailed(c)
  PROVE  SagaInv'
PROOF
  <1>1. /\ pc[c] = "failing" /\ Goes(c, "failed") /\ Persist(c, inst[c])
        /\ UNCHANGED <<lock, now, op, todo, failures, finished, undone, crashes>>
    BY DEF StepFailed, history
  <1>2. RecordOK(inst[c], finished, undone) /\ "failed" \in PCs
    BY <1>1, Known DEF PCs, Inside
  <1> QED BY <1>1, <1>2, SavesAndGoesOn

LEMMA StartCompensationStep ==
  ASSUME SagaInv, NEW c \in Callers, StartCompensation(c)
  PROVE  SagaInv'
PROOF
  <1> DEFINE next == Transition(inst[c], "COMPENSATING")
  <1>1. /\ pc[c] = "failed"
        /\ UNCHANGED <<lock, now, op, failures, finished, undone, crashes>>
    BY DEF StartCompensation, history
  <1>2. RecordOK(inst[c], finished, undone) /\ inst[c] \in SagaState
    BY <1>1, Known DEF Inside, RecordOK
  <1>3. CASE /\ Persist(c, next) /\ Goes(c, "compensating")
             /\ todo' = [todo EXCEPT ![c] = ToCompensate(inst[c])]
    <2>1. RecordOK(next, finished, undone)
      BY <1>2, TransitionKeeps DEF Underway
    <2>2. next \in SagaState /\ next.steps = inst[c].steps
      BY <1>2, TransitionShape DEF Statuses
    <2> HIDE DEF next
    <2>3. RecordOK(Saved(next), finished, undone) /\ Saved(next).steps = inst[c].steps
      BY <2>1, <2>2, SaveKeeps, SavedShape
    <2>4. ToCompensate(Saved(next)) = ToCompensate(inst[c]) /\ ToCompensate(inst[c]) \subseteq Steps
      BY <2>3 DEF ToCompensate
    <2>5. failures[c] = FALSE
      BY <1>1, Known
    <2>6. Undoing(Saved(next), ToCompensate(inst[c]), failures[c], undone)
      BY <2>4, <2>5 DEF Undoing
    <2>7. CallerOK("compensating", Saved(next), ToCompensate(inst[c]), failures[c], finished, undone)
      BY <2>3, <2>6 DEF CallerOK, Placed
    <2>8. /\ todo' \in [Callers -> SUBSET Steps] /\ todo'[c] = ToCompensate(inst[c])
          /\ \A d \in Callers \ {c} : todo'[d] = todo[d]
      BY <1>3, <2>4 DEF SagaInv, TypeOK
    <2>9. failures' \in [Callers -> BOOLEAN] /\ \A d \in Callers \ {c} : failures'[d] = failures[d]
      BY <1>1 DEF SagaInv, TypeOK
    <2>10. Remembers /\ "compensating" \in PCs
      BY <1>1, NothingNew DEF PCs, Inside
    <2>11. /\ RecordOK(next, finished', undone')
           /\ CallerOK("compensating", Saved(next), todo'[c], failures'[c], finished', undone')
      BY <1>1, <2>1, <2>7, <2>8
    <2> QED BY <1>1, <1>3, <2>8, <2>9, <2>10, <2>11, PersistMoves
  <1>4. CASE Goes(c, "unlocking") /\ UNCHANGED <<store, inst, todo>>
    <2>1. "unlocking" \in PCs
      BY DEF PCs, Inside
    <2> QED BY <1>1, <1>2, <1>4, <2>1, GivesUp
  <1> HIDE DEF next
  <1>5. \/ /\ Persist(c, next) /\ Goes(c, "compensating")
           /\ todo' = [todo EXCEPT ![c] = ToCompensate(inst[c])]
        \/ Goes(c, "unlocking") /\ UNCHANGED <<store, inst, todo>>
    BY DEF StartCompensation, next
  <1> QED BY <1>3, <1>4, <1>5

\* Max() of some steps is one of them, and none follows it.
LEMMA LastStep ==
  ASSUME NEW S, S \subseteq Steps, S # {}
  PROVE  NextToUndo(S) \in S /\ \A s \in S : s <= NextToUndo(S)
PROOF
  <1> DEFINE less == {ss \in Nat \X Nat : ss[1] < ss[2]}
             behind == {N - s : s \in S}
  <1>1. IsWellFoundedOn(less, Nat)
    BY NatLessThanWellFounded, Zenon DEF OpToRel
  <1>2. \A x, y \in Nat : <<y, x>> \notin less => x <= y
    OBVIOUS
  <1> HIDE DEF less
  <1>3. behind \subseteq Nat /\ behind # {}
    <2>1. \A s \in S : N - s \in Nat
      BY ConstantAssumption DEF Steps
    <2> QED BY <2>1
  <1>4. PICK x \in behind : \A y \in behind : ~ (<<y, x>> \in less)
    BY <1>1, <1>3, WFMin
  <1>5. \A y \in behind : x <= y
    BY <1>2, <1>3, <1>4
  <1>6. PICK high \in S : x = N - high
    OBVIOUS
  <1>7. \A s \in S : N - s \in behind
    OBVIOUS
  <1> HIDE DEF behind
  <1>8. \A s \in S : s <= high
    BY <1>5, <1>6, <1>7, ConstantAssumption DEF Steps
  <1>9. \A s \in S : high >= s
    BY <1>8, ConstantAssumption DEF Steps
  <1>10. NextToUndo(S) \in S /\ \A s \in S : NextToUndo(S) >= s
    BY <1>9 DEF NextToUndo, Max
  <1> QED BY <1>10, ConstantAssumption DEF Steps

LEMMA CompensateStep ==
  ASSUME SagaInv, NEW c \in Callers, NEW ok \in BOOLEAN, Compensate(c, ok)
  PROVE  SagaInv'
PROOF
  <1> DEFINE s == NextToUndo(todo[c])
  <1>1. /\ pc[c] = "compensating" /\ todo[c] # {}
        /\ todo' = [todo EXCEPT ![c] = todo[c] \ {s}]
        /\ undone' = [undone EXCEPT ![s] = undone[s] \cup {ok}]
        /\ failures' = [failures EXCEPT ![c] = failures[c] \/ ~ok]
        /\ UNCHANGED <<store, lock, now, pc, op, inst, finished, crashes>>
    BY DEF Compensate
  <1>2. /\ todo[c] \subseteq Steps /\ RecordOK(inst[c], finished, undone)
        /\ Undoing(inst[c], todo[c], failures[c], undone)
        /\ finished \subseteq Steps /\ undone \in [Steps -> SUBSET BOOLEAN]
    BY <1>1, Known DEF CallerOK, Inside
  <1>3. s \in todo[c] /\ s \in Steps
    BY <1>1, <1>2, LastStep
  <1> HIDE DEF s
  <1>4. /\ undone' \in [Steps -> SUBSET BOOLEAN] /\ undone'[s] = undone[s] \cup {ok}
        /\ \A t \in Steps : undone[t] \subseteq undone'[t]
    BY <1>1, <1>2, <1>3
  <1>5. Remembers
    BY <1>1, <1>2, <1>4 DEF Remembers
  <1>6. RecordStored' /\ store' \in SagaState \cup {Nothing}
    BY <1>1, <1>5, StoreStays
  <1>7. /\ failures \in [Callers -> BOOLEAN] /\ todo \in [Callers -> SUBSET Steps]
        /\ pc' \in [Callers -> PCs] /\ op' \in [Callers -> Operations \cup {"run"}]
        /\ inst' \in [Callers -> SagaState \cup SagaOutput \cup {Nothing}]
        /\ lock' \in Nat \cup {Free} /\ now' \in Nat /\ crashes' \in Nat
    BY <1>1 DEF SagaInv, TypeOK
  <1>8. /\ failures' \in [Callers -> BOOLEAN] /\ (failures'[c] <=> failures[c] \/ ~ok)
        /\ \A d \in Callers \ {c} : failures'[d] = failures[d]
    BY <1>1, <1>7, Zenon
  <1>9. /\ todo' \in [Callers -> SUBSET Steps] /\ todo'[c] = todo[c] \ {s}
        /\ \A d \in Callers \ {c} : todo'[d] = todo[d]
    BY <1>1, <1>7
  <1>10. RecordOK(inst[c], finished', undone')
    BY <1>1, <1>2, <1>4, ResumableStays DEF RecordOK
  <1>11. ToCompensate(inst[c]) \subseteq Steps /\ s \in ToCompensate(inst[c])
    BY <1>2, <1>3 DEF ToCompensate, Undoing
  <1>12. Undoing(inst[c], todo'[c], failures'[c], undone')
    <2>1. ASSUME NEW t \in ToCompensate(inst[c]) \ todo'[c]
          PROVE  undone'[t] # {} /\ (~failures'[c] => TRUE \in undone'[t])
      <3>1. CASE t = s
        BY <1>4, <1>8, <3>1
      <3>2. CASE t # s
        BY <1>2, <1>4, <1>8, <1>9, <1>11, <3>2 DEF Undoing
      <3> QED BY <3>1, <3>2
    <2>2. ASSUME failures'[c]
          PROVE  \E t \in ToCompensate(inst[c]) : FALSE \in undone'[t]
      <3>1. CASE failures[c]
        BY <1>2, <1>4, <1>11, <3>1 DEF Undoing
      <3>2. CASE ~ok
        BY <1>4, <1>11, <3>2
      <3> QED BY <1>8, <2>2, <3>1, <3>2
    <2> QED BY <1>2, <1>9, <2>1, <2>2 DEF Undoing
  <1>13. CallerOK(pc[c], inst[c], todo[c], failures[c], finished, undone)'
    BY <1>1, <1>10, <1>12 DEF CallerOK, Placed
  <1> QED BY <1>1, <1>5, <1>6, <1>7, <1>8, <1>9, <1>13, OneMoves

LEMMA EndCompensationStep ==
  ASSUME SagaInv, NEW c \in Callers, EndCompensation(c)
  PROVE  SagaInv'
PROOF
  <1> DEFINE to == IF failures[c] THEN "PARTIALLY_COMPENSATED" ELSE "FAILED"
             done == Transition(inst[c], "COMPENSATION_DONE")
             next == Transition(done, to)
  <1>1. /\ pc[c] = "compensating" /\ todo[c] = {} /\ Persist(c, next) /\ Goes(c, "unlocking")
        /\ failures' = [failures EXCEPT ![c] = FALSE]
        /\ UNCHANGED <<lock, now, op, todo, finished, undone, crashes>>
    BY DEF EndCompensation, history
  <1>2. /\ RecordOK(inst[c], finished, undone) /\ inst[c] \in SagaState
        /\ Undoing(inst[c], todo[c], failures[c], undone)
    BY <1>1, Known DEF CallerOK, Inside, RecordOK
  <1>3. to \in Statuses /\ to \in {"PARTIALLY_COMPENSATED", "FAILED"}
    BY DEF Statuses
  <1>4. done \in SagaState /\ done.steps = inst[c].steps /\ done.index = inst[c].index
    BY <1>2, TransitionShape DEF Statuses
  <1>5. to = "PARTIALLY_COMPENSATED" <=> failures[c]
    OBVIOUS
  <1> HIDE DEF to, done
  <1>6. /\ next \in SagaState /\ next.status = to
        /\ next.steps = inst[c].steps /\ next.index = inst[c].index
    BY <1>3, <1>4, TransitionShape
  <1> HIDE DEF next
  <1>7. ToCompensate(next) = ToCompensate(inst[c])
    BY <1>6 DEF ToCompensate
  <1>8. \A s : Succeeded(next, s) <=> Succeeded(inst[c], s)
    BY <1>6 DEF Succeeded
  <1>9. Resumable(next, finished, undone)
    <2>1. CASE failures[c]
      <3>1. /\ \A s \in ToCompensate(next) : undone[s] # {}
            /\ \E s \in ToCompensate(next) : FALSE \in undone[s]
        BY <1>1, <1>2, <1>7, <2>1 DEF Undoing
      <3>2. next.status = "PARTIALLY_COMPENSATED"
        BY <1>5, <1>6, <2>1
      <3> QED BY <1>2, <1>6, <1>8, <3>1, <3>2 DEF RecordOK, Resumable
    <2>2. CASE ~failures[c]
      <3>1. \A s \in ToCompensate(next) : TRUE \in undone[s]
        BY <1>1, <1>2, <1>7, <2>2 DEF Undoing
      <3>2. next.status = "FAILED"
        BY <1>3, <1>5, <1>6, <2>2
      <3> QED BY <1>2, <1>6, <1>8, <3>1, <3>2 DEF RecordOK, Resumable
    <2> QED BY <2>1, <2>2
  <1>10. RecordOK(next, finished, undone) /\ RecordOK(Saved(next), finished, undone)
    BY <1>6, <1>9, SaveKeeps DEF RecordOK
  <1>11. /\ failures' \in [Callers -> BOOLEAN] /\ failures'[c] = FALSE
         /\ \A d \in Callers \ {c} : failures'[d] = failures[d]
    BY <1>1 DEF SagaInv, TypeOK
  <1>12. CallerOK("unlocking", Saved(next), todo'[c], failures'[c], finished', undone')
    BY <1>1, <1>10, <1>11 DEF CallerOK, Placed
  <1>13. Remembers /\ RecordOK(next, finished', undone') /\ "unlocking" \in PCs
    BY <1>1, <1>10, NothingNew DEF PCs, Inside
  <1>14. todo' \in [Callers -> SUBSET Steps] /\ \A d \in Callers \ {c} : todo'[d] = todo[d]
    BY <1>1 DEF SagaInv, TypeOK
  <1> QED BY <1>1, <1>11, <1>12, <1>13, <1>14, PersistMoves

LEMMA PauseInstanceStep ==
  ASSUME SagaInv, NEW c \in Callers, PauseInstance(c)
  PROVE  SagaInv'
PROOF
  <1> DEFINE next == Transition(inst[c], "PAUSED")
  <1>1. /\ pc[c] \in Inside /\ Persist(c, next) /\ IsValidTransition(inst[c].status, "PAUSED")
        /\ UNCHANGED <<lock, now, pc, op, todo, failures, finished, undone, crashes>>
    BY DEF PauseInstance, history
  <1>2. RecordOK(inst[c], finished, undone) /\ inst[c] \in SagaState
    BY <1>1, Known DEF RecordOK
  <1>3. RecordOK(next, finished, undone)
    BY <1>2, TransitionKeeps DEF Underway
  <1>4. next \in SagaState /\ next.steps = inst[c].steps
    BY <1>2, TransitionShape DEF Statuses
  <1> HIDE DEF next
  <1>5. RecordOK(Saved(next), finished, undone) /\ Saved(next).steps = inst[c].steps
    BY <1>3, <1>4, SaveKeeps, SavedShape
  <1>6. pc[c] \notin {"executing", "stepped"}
    BY <1>1, NoPauseInAStep, Known DEF CallerOK, Placed
  <1>7. pc[c] = "compensating" => Undoing(Saved(next), todo[c], failures[c], undone)
    <2>1. ToCompensate(Saved(next)) = ToCompensate(inst[c])
      BY <1>5 DEF ToCompensate
    <2> QED BY <2>1, Known DEF CallerOK, Undoing
  <1>8. CallerOK(pc[c], Saved(next), todo[c], failures[c], finished, undone)
    BY <1>5, <1>6, <1>7, Known DEF CallerOK, Placed
  <1>9. pc[c] \in PCs /\ Goes(c, pc[c])
    BY <1>1 DEF SagaInv, TypeOK, Goes
  <1>10. Remembers
    BY <1>1, NothingNew
  <1>11. /\ RecordOK(next, finished', undone')
         /\ CallerOK(pc[c], Saved(next), todo'[c], failures'[c], finished', undone')
    BY <1>1, <1>3, <1>8
  <1> QED BY <1>1, <1>9, <1>10, <1>11, Untouched, PersistMoves

\* Nothing the invariant speaks of depends on the time.
LEMMA QuietStep ==
  ASSUME SagaInv, now' \in Nat, UNCHANGED <<store, lock, pc, op, inst, todo, failures, finished, undone, crashes>>
  PROVE  SagaInv'
PROOF
  <1>1. TypeOK'
    BY DEF SagaInv, TypeOK
  <1>2. (store # Nothing => Resumable(store, finished, undone))'
    BY DEF SagaInv
  <1>3. (\A c \in Callers : CallerOK(pc[c], inst[c], todo[c], failures[c], finished, undone))'
    BY DEF SagaInv
  <1> QED BY <1>1, <1>2, <1>3 DEF SagaInv

-----------------------------------------------------------------------------
(* The invariant *)

LEMMA SagaInit ==
  ASSUME Init
  PROVE  SagaInv
PROOF
  <1>1. TypeOK
    BY DEF Init, TypeOK, PCs
  <1>2. \A c \in Callers : CallerOK(pc[c], inst[c], todo[c], failures[c], finished, undone)
    BY DEF Init, CallerOK, Placed, Inside
  <1> QED BY <1>1, <1>2 DEF Init, SagaInv

LEMMA SagaStep ==
  ASSUME SagaInv, [Next]_vars
  PROVE  SagaInv'
PROOF
  <1>1. ASSUME NEW c \in Callers, CallerStep(c)
        PROVE  SagaInv'
    <2>1. CASE Run(c) \/ Load(c) \/ Pause(c) \/ Acquire(c) \/ Unlock(c)
      BY <2>1, RunStep, LoadStep, PauseStep, AcquireStep, UnlockStep
    <2>2. CASE EnterRunning(c) \/ EnterSignal(c) \/ EnterExpire(c)
      BY <2>2, EnterRunningStep, EnterSignalStep, EnterExpireStep
    <2>3. CASE StartStep(c) \/ StepSucceeds(c) \/ StepWaits(c) \/ StepThrows(c) \/ Complete(c)
      BY <2>3, StartStepStep, StepSucceedsStep, StepWaitsStep, StepThrowsStep, CompleteStep
    <2>4. CASE StepFailed(c) \/ StartCompensation(c) \/ EndCompensation(c)
      BY <2>4, StepFailedStep, StartCompensationStep, EndCompensationStep
    <2>5. CASE \E ok \in BOOLEAN : Compensate(c, ok)
      BY <2>5, CompensateStep
    <2>6. CASE PauseInstance(c) \/ Crash(c)
      BY <2>6, PauseInstanceStep, CrashStep
    <2> QED BY <1>1, <2>1, <2>2, <2>3, <2>4, <2>5, <2>6 DEF CallerStep
  <1>2. CASE Tick
    <2>1. now' \in Nat
      BY <1>2 DEF Tick, SagaInv, TypeOK
    <2> QED BY <1>2, <2>1, QuietStep DEF Tick, callerVars, history
  <1>3. CASE UNCHANGED vars
    <2>1. now' \in Nat
      BY <1>3 DEF vars, SagaInv, TypeOK
    <2> QED BY <1>3, <2>1, QuietStep DEF vars, callerVars, history
  <1> QED BY <1>1, <1>2, <1>3 DEF Next

\* What is stored, and what every caller has in its hands, stays in order.
THEOREM SagaInvariance == Spec => []SagaInv
PROOF
  <1>1. Init => SagaInv
    BY SagaInit
  <1>2. SagaInv /\ [Next]_vars => SagaInv'
    BY SagaStep
  <1> QED BY <1>1, <1>2, PTL DEF Spec

-----------------------------------------------------------------------------
(* What the runs check, for every instance *)

\* Everything stored and held is of its type (SagaState and what SagaInstance keeps).
THEOREM TypesHold == Spec => []TypeOK
PROOF
  <1>1. SagaInv => TypeOK
    BY DEF SagaInv
  <1> QED BY <1>1, SagaInvariance, PTL

\* A step that counts as succeeded was performed, and COMPLETED counts them all
\* (executeSteps() with pauses, signals, crashes and recoveries in between).
THEOREM NothingEverSkipped == Spec => []NothingSkipped
PROOF
  <1>1. SagaInv => NothingSkipped
    BY DEF SagaInv, NothingSkipped, Resumable, Succeeded
  <1> QED BY <1>1, SagaInvariance, PTL

\* FAILED and PARTIALLY_COMPENSATED say truly how the compensations went
\* (CompensationRunner.run() and what handleStepFailure() makes of its answer).
THEOREM CompensationAlwaysComplete == Spec => []CompensationComplete
PROOF
  <1>1. SagaInv => CompensationComplete
    <2>1. store = Nothing => store.status = "none"
      BY DEF Nothing
    <2>2. SagaInv /\ store # Nothing => CompensationComplete
      BY DEF SagaInv, CompensationComplete, Resumable, ToCompensate
    <2>3. store = Nothing => CompensationComplete
      BY <2>1 DEF CompensationComplete
    <2> QED BY <2>2, <2>3
  <1> QED BY <1>1, SagaInvariance, PTL

\* Only StartStep sends a caller into a step.
LEMMA OnlyStartStepStarts ==
  ASSUME SagaInv, [Next]_vars, NEW c \in Callers, pc[c] # "executing", pc'[c] = "executing"
  PROVE  finished' = finished
PROOF
  <1>1. pc \in [Callers -> PCs]
    BY DEF SagaInv, TypeOK
  <1>2. ASSUME NEW d \in Callers, CallerStep(d)
        PROVE  finished' = finished
    <2>1. \A w : Goes(d, w) => w = "executing"
      BY <1>1 DEF Goes
    <2>2. CASE EnterSignal(d)
      BY <2>1, <2>2 DEF EnterSignal
    <2>3. CASE StepSucceeds(d)
      BY <2>1, <2>3 DEF StepSucceeds
    <2>4. CASE \/ Run(d) \/ Load(d) \/ Pause(d) \/ Acquire(d) \/ Unlock(d)
               \/ EnterRunning(d) \/ EnterExpire(d)
      BY <2>4 DEF Run, Load, Pause, Acquire, Unlock, EnterRunning, EnterExpire, history
    <2>5. CASE \/ StartStep(d) \/ StepWaits(d) \/ StepThrows(d) \/ Complete(d)
      BY <2>5 DEF StartStep, StepWaits, StepThrows, Complete, history
    <2>6. CASE \/ StepFailed(d) \/ StartCompensation(d) \/ EndCompensation(d)
               \/ PauseInstance(d) \/ Crash(d)
      BY <2>6 DEF StepFailed, StartCompensation, EndCompensation, PauseInstance, Crash, history
    <2>7. CASE \E ok \in BOOLEAN : Compensate(d, ok)
      BY <2>7 DEF Compensate
    <2> QED BY <1>2, <2>2, <2>3, <2>4, <2>5, <2>6, <2>7 DEF CallerStep
  <1>3. CASE Tick
    BY <1>3 DEF Tick, history
  <1>4. CASE UNCHANGED vars
    BY <1>4 DEF vars, history
  <1> QED BY <1>2, <1>3, <1>4 DEF Next

LEMMA StepKeepsOrder ==
  ASSUME SagaInv, [Next]_vars, NEW c \in Callers, pc[c] # "executing", pc'[c] = "executing"
  PROVE  1..(inst'[c].index - 1) \subseteq finished
PROOF
  <1>1. finished' = finished
    BY OnlyStartStepStarts
  <1>2. SagaInv'
    BY SagaStep
  <1>3. CallerOK(pc'[c], inst'[c], todo'[c], failures'[c], finished', undone')
    BY <1>2 DEF SagaInv
  <1>4. /\ Resumable(inst'[c], finished', undone') /\ inst'[c] \in SagaState
        /\ inst'[c].index <= N
    BY <1>3 DEF CallerOK, Placed, RecordOK, Inside
  <1>5. 1..(inst'[c].index - 1) \subseteq Steps
    BY <1>4, ConstantAssumption DEF Steps, SagaState
  <1> QED BY <1>1, <1>4, <1>5 DEF Resumable

\* Only Compensate, EndCompensation and Crash take from what is left to undo.
LEMMA UndoneInOrder ==
  ASSUME SagaInv, [Next]_vars, NEW c \in Callers, pc'[c] # "crashed",
         NEW s \in todo[c] \ todo'[c]
  PROVE  /\ inst[c].steps[s] = "SUCCEEDED"
         /\ \A t \in ((s + 1)..N) \ Groups : inst[c].steps[t] = "SUCCEEDED" => undone[t] # {}
PROOF
  <1>1. /\ todo \in [Callers -> SUBSET Steps] /\ pc \in [Callers -> PCs]
    BY DEF SagaInv, TypeOK
  <1>2. ASSUME NEW d \in Callers, CallerStep(d)
        PROVE  \E ok \in BOOLEAN : Compensate(c, ok)
    <2>1. CASE \/ Run(d) \/ Load(d) \/ Pause(d) \/ Acquire(d) \/ Unlock(d)
               \/ EnterRunning(d) \/ EnterSignal(d) \/ EnterExpire(d)
      BY <2>1 DEF Run, Load, Pause, Acquire, Unlock, EnterRunning, EnterSignal, EnterExpire
    <2>2. CASE \/ StartStep(d) \/ StepSucceeds(d) \/ StepWaits(d) \/ StepThrows(d) \/ Complete(d)
      BY <2>2 DEF StartStep, StepSucceeds, StepWaits, StepThrows, Complete
    <2>3. CASE \/ StepFailed(d) \/ EndCompensation(d) \/ PauseInstance(d)
      BY <2>3 DEF StepFailed, EndCompensation, PauseInstance
    <2>4. CASE StartCompensation(d)
      <3>1. pc[d] = "failed"
        BY <2>4 DEF StartCompensation
      <3>2. todo[d] = {}
        BY <3>1, Known
      <3>3. d # c
        BY <3>2
      <3>4. todo'[c] = todo[c]
        BY <1>1, <2>4, <3>3 DEF StartCompensation
      <3> QED BY <3>4
    <2>5. CASE Crash(d)
      <3>1. d # c
        BY <1>1, <2>5 DEF Crash, Goes
      <3>2. todo'[c] = todo[c]
        BY <1>1, <2>5, <3>1 DEF Crash
      <3> QED BY <3>2
    <2>6. CASE \E ok \in BOOLEAN : Compensate(d, ok)
      <3>1. PICK ok \in BOOLEAN : Compensate(d, ok)
        BY <2>6
      <3>2. d = c
        BY <1>1, <3>1 DEF Compensate
      <3> QED BY <3>1, <3>2
    <2> QED BY <1>2, <2>1, <2>2, <2>3, <2>4, <2>5, <2>6 DEF CallerStep
  <1>3. CASE Tick
    BY <1>3 DEF Tick, callerVars
  <1>4. CASE UNCHANGED vars
    BY <1>4 DEF vars, callerVars
  <1>5. CASE \E ok \in BOOLEAN : Compensate(c, ok)
    <2>1. PICK ok \in BOOLEAN : Compensate(c, ok)
      BY <1>5
    <2>2. pc[c] = "compensating" /\ todo[c] # {} /\ todo[c] \subseteq Steps
      BY <1>1, <2>1 DEF Compensate
    <2>3. todo' = [todo EXCEPT ![c] = todo[c] \ {NextToUndo(todo[c])}]
      BY <2>1 DEF Compensate
    <2>4. s = NextToUndo(todo[c])
      BY <1>1, <2>3
    <2>5. \A t \in todo[c] : t <= s
      BY <2>2, <2>4, LastStep
    <2>6. Undoing(inst[c], todo[c], failures[c], undone)
      BY <2>2, Known DEF CallerOK
    <2>7. s \in ToCompensate(inst[c]) /\ s \in Steps
      BY <2>2, <2>6 DEF Undoing
    <2>8. ASSUME NEW t \in ((s + 1)..N) \ Groups, inst[c].steps[t] = "SUCCEEDED"
          PROVE  undone[t] # {}
      <3>1. t \in Steps /\ t > s
        BY <2>7, ConstantAssumption DEF Steps
      <3>2. t \in ToCompensate(inst[c])
        BY <2>8, <3>1 DEF ToCompensate
      <3>3. t \notin todo[c]
        BY <2>5, <2>7, <3>1 DEF Steps
      <3> QED BY <2>6, <3>2, <3>3 DEF Undoing
    <2> QED BY <2>7, <2>8 DEF ToCompensate
  <1> QED BY <1>2, <1>3, <1>4, <1>5 DEF Next

\* Steps start in their order, and are compensated in the opposite one
\* (executeSteps(), and the reversed list of CompensationRunner.run()).
THEOREM OrderAlwaysKept == Spec => InOrder
PROOF
  <1>1. SagaInv /\ [Next]_vars =>
          [\A c \in Callers : pc[c] # "executing" /\ pc'[c] = "executing" =>
             1..(inst'[c].index - 1) \subseteq finished]_vars
    BY StepKeepsOrder
  <1>2. SagaInv /\ [Next]_vars =>
          [\A c \in Callers : pc'[c] # "crashed" =>
             \A s \in todo[c] \ todo'[c] :
               /\ inst[c].steps[s] = "SUCCEEDED"
               /\ \A t \in ((s + 1)..N) \ Groups :
                    inst[c].steps[t] = "SUCCEEDED" => undone[t] # {}]_vars
    BY UndoneInOrder
  <1>3. Spec => StepsInOrder
    BY <1>1, SagaInvariance, PTL DEF Spec, StepsInOrder
  <1>4. Spec => CompensationInOrder
    BY <1>2, SagaInvariance, PTL DEF Spec, CompensationInOrder
  <1> QED BY <1>3, <1>4 DEF InOrder

-----------------------------------------------------------------------------
(* Nothing is stranded *)

Working == {"stepping", "executing", "stepped", "failing", "failed", "compensating"}

\* What an execution has in hand while it works; a crash may leave any of it.
InHand(where, st) ==
  /\ where = "stepping" => st.status \in {"RUNNING", "PAUSED"}
  /\ where \in {"executing", "stepped"} => st.status = "STEP_EXECUTING"
  /\ where \in {"failing", "failed"} =>
       st.status = "STEP_EXECUTING" \/ (st.status = "WAITING_FOR_EVENT" /\ Abandoned(st))
  /\ where = "compensating" => st.status = "COMPENSATING"

HandsOK == \A c \in Callers : InHand(pc[c], inst[c])

StrandInv == HandsOK /\ NothingStranded

LEMMA SavedKeeps ==
  ASSUME NEW st \in SagaState
  PROVE  /\ Saved(st) \in SagaState
         /\ Saved(st).status = st.status /\ Saved(st).steps = st.steps
         /\ Saved(st).index = st.index /\ Saved(st).token = st.token
PROOF
  BY DEF Saved, SagaState

LEMMA MovedKeeps ==
  ASSUME NEW st \in SagaState, NEW to \in Statuses
  PROVE  /\ Saved(Transition(st, to)) \in SagaState
         /\ Saved(Transition(st, to)).status = to
         /\ Saved(Transition(st, to)).token = st.token
PROOF
  <1>1. Transition(st, to) \in SagaState /\ Transition(st, to).status = to
    BY TransitionShape
  <1>2. Transition(st, to).token = st.token
    BY DEF Transition, SagaState
  <1> QED BY <1>1, <1>2, SavedKeeps

\* Only the caller moves.
LEMMA HandsMove ==
  ASSUME HandsOK, NEW c \in Callers, InHand(pc'[c], inst'[c]),
         \A d \in Callers \ {c} : pc'[d] = pc[d] /\ inst'[d] = inst[d]
  PROVE  HandsOK'
PROOF
  BY DEF HandsOK, InHand, Abandoned

\* A caller saves what it has, and works on or has come to rest.
LEMMA PersistStrands ==
  ASSUME SagaInv, StrandInv, NEW c \in Callers, NEW st, Persist(c, st), NEW w, Goes(c, w),
         InHand(w, Saved(st)), w \in Working \/ AtRest(Saved(st))
  PROVE  StrandInv'
PROOF
  <1>1. /\ pc \in [Callers -> PCs] /\ inst \in [Callers -> SagaState \cup SagaOutput \cup {Nothing}]
    BY DEF SagaInv, TypeOK
  <1>2. /\ pc' = [pc EXCEPT ![c] = w] /\ inst' = [inst EXCEPT ![c] = Saved(st)]
        /\ ~ CheckedStore => store' = Saved(st)
    BY DEF Persist, Goes, Save, Saved
  <1>3. /\ pc'[c] = w /\ inst'[c] = Saved(st)
        /\ \A d \in Callers \ {c} : pc'[d] = pc[d] /\ inst'[d] = inst[d]
    BY <1>1, <1>2
  <1>4. HandsOK'
    BY <1>3, HandsMove DEF StrandInv
  <1>5. NothingStranded'
    BY <1>2, <1>3 DEF NothingStranded, AtWork, Working, AtRest
  <1> QED BY <1>4, <1>5 DEF StrandInv

\* A caller moves and the store stays: it works on with what it has, or leaves what is at rest.
LEMMA StoreKeptStrands ==
  ASSUME SagaInv, StrandInv, NEW c \in Callers, store' = store, crashes' = crashes,
         InHand(pc'[c], inst'[c]),
         \A d \in Callers \ {c} : pc'[d] = pc[d] /\ inst'[d] = inst[d],
         pc[c] \in Working => AtRest(inst[c]) \/ (pc'[c] \in Working /\ inst'[c] = inst[c])
  PROVE  StrandInv'
PROOF
  <1>1. HandsOK'
    BY HandsMove DEF StrandInv
  <1>2. AtWork => AtWork' \/ AtRest(store)
    <2>1. ASSUME NEW d \in Callers, pc[d] \in Working, inst[d] = store
          PROVE  AtWork' \/ AtRest(store)
      <3>1. CASE d = c
        BY <2>1, <3>1 DEF AtWork, Working
      <3>2. CASE d # c
        BY <2>1, <3>2 DEF AtWork, Working
      <3> QED BY <3>1, <3>2
    <2> QED BY <2>1 DEF AtWork, Working
  <1>3. NothingStranded'
    BY <1>2 DEF StrandInv, NothingStranded, AtRest, Abandoned
  <1> QED BY <1>1, <1>3 DEF StrandInv

\* The store takes what is at rest, or keeps what it has, from a caller that does not work.
LEMMA RestStrands ==
  ASSUME SagaInv, StrandInv, NEW c \in Callers, pc[c] \notin Working, pc'[c] \notin Working,
         crashes' = crashes,
         \A d \in Callers \ {c} : pc'[d] = pc[d] /\ inst'[d] = inst[d],
         store' = store \/ CheckedStore \/ AtRest(store')
  PROVE  StrandInv'
PROOF
  <1>1. InHand(pc'[c], inst'[c])
    BY DEF InHand, Working
  <1>2. CASE store' = store
    BY <1>1, <1>2, StoreKeptStrands
  <1>3. CASE CheckedStore \/ AtRest(store')
    <2>1. HandsOK'
      BY <1>1, HandsMove DEF StrandInv
    <2> QED BY <1>3, <2>1 DEF StrandInv, NothingStranded, AtRest
  <1> QED BY <1>2, <1>3

\* Whom a step of one caller leaves alone.
LEMMA OthersStay ==
  ASSUME SagaInv, NEW c \in Callers, NEW w, Goes(c, w), NEW st, inst' = [inst EXCEPT ![c] = st]
  PROVE  /\ pc'[c] = w /\ inst'[c] = st
         /\ \A d \in Callers \ {c} : pc'[d] = pc[d] /\ inst'[d] = inst[d]
PROOF
  BY DEF SagaInv, TypeOK, Goes

LEMMA OutsideStrands ==
  ASSUME SagaInv, StrandInv, NEW c \in Callers,
         Run(c) \/ Load(c) \/ Pause(c) \/ Acquire(c) \/ Unlock(c)
  PROVE  StrandInv'
PROOF
  <1>1. CASE Run(c)
    <2>1. inst' = [inst EXCEPT ![c] = store'] /\ Goes(c, "locking") /\ pc[c] = "idle" /\ crashes' = crashes
      BY <1>1 DEF Run
    <2>2. AtRest(store')
      BY <1>1 DEF Run, AtRest
    <2>3. /\ pc'[c] = "locking" /\ inst'[c] = store'
          /\ \A d \in Callers \ {c} : pc'[d] = pc[d] /\ inst'[d] = inst[d]
      BY <2>1, <2>2, OthersStay
    <2> QED BY <2>1, <2>2, <2>3, RestStrands DEF Working
  <1>2. CASE Load(c)
    <2>1. /\ inst' = [inst EXCEPT ![c] = store] /\ pc[c] = "idle"
          /\ crashes' = crashes /\ store' = store
      BY <1>2 DEF Load
    <2>2. PICK w \in {"pausing", "locking"} : Goes(c, w)
      BY <1>2 DEF Load
    <2>3. /\ pc'[c] = w /\ inst'[c] = store
          /\ \A d \in Callers \ {c} : pc'[d] = pc[d] /\ inst'[d] = inst[d]
      BY <2>1, <2>2, OthersStay
    <2> QED BY <2>1, <2>2, <2>3, RestStrands DEF Working
  <1>3. CASE Pause(c)
    <2>1. pc[c] = "pausing" /\ Goes(c, "done") /\ crashes' = crashes
      BY <1>3 DEF Pause
    <2>2. PICK a : inst' = [inst EXCEPT ![c] = a]
      BY <1>3 DEF Pause, Answers
    <2>3. store' = store \/ CheckedStore \/ AtRest(store')
      <3>1. CASE Save(Transition(inst[c], "PAUSED"))
        <4>1. inst[c] \in SagaState
          BY <2>1, Known DEF RecordOK
        <4>2. store' = store \/ store' = Saved(Transition(inst[c], "PAUSED"))
          BY <3>1 DEF Save, Saved
        <4>3. Saved(Transition(inst[c], "PAUSED")).status = "PAUSED"
          BY <4>1, MovedKeeps DEF Statuses
        <4> QED BY <4>2, <4>3 DEF AtRest
      <3> QED BY <1>3, <3>1 DEF Pause
    <2>4. /\ pc'[c] = "done" /\ inst'[c] = a
          /\ \A d \in Callers \ {c} : pc'[d] = pc[d] /\ inst'[d] = inst[d]
      BY <2>1, <2>2, <2>3, OthersStay
    <2> QED BY <2>1, <2>2, <2>3, <2>4, RestStrands DEF Working
  <1>4. CASE Acquire(c)
    <2>1. pc[c] = "locking" /\ crashes' = crashes /\ store' = store
      BY <1>4 DEF Acquire
    <2>2. PICK w \in {"locked", "refused"} : Goes(c, w)
      BY <1>4 DEF Acquire
    <2>3. PICK a : inst' = [inst EXCEPT ![c] = a]
      <3>1. CASE inst' = inst
        <4>1. inst' = [inst EXCEPT ![c] = inst[c]]
          BY <3>1 DEF SagaInv, TypeOK
        <4> QED BY <4>1
      <3> QED BY <1>4, <3>1 DEF Acquire, Answers
    <2>4. /\ pc'[c] = w /\ inst'[c] = a
          /\ \A d \in Callers \ {c} : pc'[d] = pc[d] /\ inst'[d] = inst[d]
      BY <2>1, <2>2, <2>3, OthersStay
    <2> QED BY <2>1, <2>2, <2>3, <2>4, RestStrands DEF Working
  <1>5. CASE Unlock(c)
    <2>1. pc[c] = "unlocking" /\ crashes' = crashes /\ store' = store /\ Goes(c, "done")
      BY <1>5 DEF Unlock
    <2>2. PICK a : inst' = [inst EXCEPT ![c] = a]
      BY <1>5 DEF Unlock, Answers
    <2>3. /\ pc'[c] = "done" /\ inst'[c] = a
          /\ \A d \in Callers \ {c} : pc'[d] = pc[d] /\ inst'[d] = inst[d]
      BY <2>1, <2>2, OthersStay
    <2> QED BY <2>1, <2>2, <2>3, RestStrands DEF Working
  <1> QED BY <1>1, <1>2, <1>3, <1>4, <1>5

\* A caller that saves nothing and keeps its copy.
LEMMA CopyKeptStrands ==
  ASSUME SagaInv, StrandInv, NEW c \in Callers, NEW w, Goes(c, w), UNCHANGED <<store, inst, crashes>>,
         InHand(w, inst[c]), pc[c] \in Working => w \in Working \/ AtRest(inst[c])
  PROVE  StrandInv'
PROOF
  <1>1. pc'[c] = w /\ \A d \in Callers \ {c} : pc'[d] = pc[d] /\ inst'[d] = inst[d]
    BY DEF SagaInv, TypeOK, Goes
  <1> QED BY <1>1, StoreKeptStrands

LEMMA EntersStrands ==
  ASSUME SagaInv, StrandInv, NEW c \in Callers,
         EnterRunning(c) \/ EnterSignal(c) \/ EnterExpire(c)
  PROVE  StrandInv'
PROOF
  <1> DEFINE st == inst[c]
  <1>1. pc[c] = "locked" /\ crashes' = crashes
    BY DEF EnterRunning, EnterSignal, EnterExpire
  <1>2. st \in SagaState /\ (st.status = "WAITING_FOR_EVENT" => st.index <= N)
    BY <1>1, Known DEF RecordOK, Resumable, Inside
  <1> HIDE DEF st
  <1>3. CASE Goes(c, "unlocking") /\ UNCHANGED <<store, inst>>
    <2>1. InHand("unlocking", inst[c])
      BY DEF InHand
    <2> QED BY <1>1, <1>3, <2>1, CopyKeptStrands DEF Working
  <1>4. CASE Persist(c, Transition(st, "RUNNING")) /\ Goes(c, "stepping")
    <2>1. Saved(Transition(st, "RUNNING")).status = "RUNNING"
      BY <1>2, MovedKeeps DEF Statuses
    <2>2. InHand("stepping", Saved(Transition(st, "RUNNING")))
      BY <2>1 DEF InHand
    <2> QED BY <1>4, <2>2, PersistStrands DEF Working
  <1>5. CASE /\ st.status = "WAITING_FOR_EVENT" /\ Goes(c, "stepping")
             /\ Persist(c, Transition([st EXCEPT !.steps[st.index] = "SUCCEEDED", !.index = st.index + 1,
                                                 !.token = FALSE, !.deadline = FALSE], "RUNNING"))
    <2> DEFINE next == [st EXCEPT !.steps[st.index] = "SUCCEEDED", !.index = st.index + 1,
                                  !.token = FALSE, !.deadline = FALSE]
    <2>1. next \in SagaState
      BY <1>2, <1>5, SignalledShape
    <2>2. Persist(c, Transition(next, "RUNNING"))
      BY <1>5
    <2> HIDE DEF next
    <2>3. Saved(Transition(next, "RUNNING")).status = "RUNNING"
      BY <2>1, MovedKeeps DEF Statuses
    <2>4. InHand("stepping", Saved(Transition(next, "RUNNING")))
      BY <2>3 DEF InHand
    <2> QED BY <1>5, <2>2, <2>4, PersistStrands DEF Working
  <1>6. CASE /\ st.status = "WAITING_FOR_EVENT" /\ Goes(c, "failing")
             /\ Persist(c, [st EXCEPT !.steps[st.index] = "FAILED", !.token = FALSE, !.deadline = FALSE])
    <2> DEFINE next == [st EXCEPT !.steps[st.index] = "FAILED", !.token = FALSE, !.deadline = FALSE]
    <2>1. /\ next \in SagaState /\ next.status = st.status /\ next.index = st.index
          /\ next.steps = [st.steps EXCEPT ![st.index] = "FAILED"]
      BY <1>2, WaitChanged DEF StepStatuses
    <2>2. next.token = FALSE
      BY <1>2 DEF SagaState
    <2>3. st.index \in Steps /\ st.steps \in [Steps -> StepStatuses]
      BY <1>2, <1>6, ConstantAssumption DEF SagaState, Steps
    <2>4. next.steps[st.index] = "FAILED"
      BY <2>1, <2>3
    <2>5. Persist(c, next)
      BY <1>6
    <2> HIDE DEF next
    <2>6. Abandoned(Saved(next)) /\ Saved(next).status = "WAITING_FOR_EVENT"
      BY <1>2, <1>6, <2>1, <2>2, <2>4, SavedKeeps DEF Abandoned
    <2>7. InHand("failing", Saved(next))
      BY <2>6 DEF InHand
    <2> QED BY <1>6, <2>5, <2>7, PersistStrands DEF Working
  <1>7. CASE EnterRunning(c)
    BY <1>3, <1>4, <1>7 DEF EnterRunning, st
  <1>8. CASE EnterSignal(c)
    BY <1>3, <1>5, <1>8 DEF EnterSignal, st
  <1>9. CASE EnterExpire(c)
    BY <1>3, <1>6, <1>9 DEF EnterExpire, st
  <1> QED BY <1>7, <1>8, <1>9

LEMMA StepsStrand ==
  ASSUME SagaInv, StrandInv, NEW c \in Callers,
         StartStep(c) \/ StepSucceeds(c) \/ StepWaits(c) \/ StepThrows(c) \/ Complete(c)
  PROVE  StrandInv'
PROOF
  <1>1. InHand(pc[c], inst[c]) /\ crashes' = crashes
    BY DEF StrandInv, HandsOK, StartStep, StepSucceeds, StepWaits, StepThrows, Complete
  <1>2. CASE StartStep(c)
    <2> DEFINE next == [Ready(c) EXCEPT !.status = "STEP_EXECUTING", !.index = NextStep(c)]
    <2>1. Ready(c) \in SagaState /\ NextStep(c) \in 1..(N + 1)
      BY <1>2, BetweenSteps, ConstantAssumption DEF StartStep
    <2>2. next \in SagaState /\ next.status = "STEP_EXECUTING"
      BY <2>1, StartedShape
    <2>3. Persist(c, next) /\ Goes(c, "executing")
      BY <1>2 DEF StartStep
    <2> HIDE DEF next
    <2>4. InHand("executing", Saved(next))
      BY <2>2, SavedKeeps DEF InHand
    <2> QED BY <2>3, <2>4, PersistStrands DEF Working
  <1>3. CASE StepSucceeds(c)
    <2> DEFINE next == Marked(inst[c], "SUCCEEDED")
    <2>1. pc[c] = "executing" /\ Persist(c, next) /\ Goes(c, "stepped")
      BY <1>3 DEF StepSucceeds, Marked
    <2>2. inst[c] \in SagaState /\ inst[c].status = "STEP_EXECUTING"
      BY <1>1, <2>1, Known DEF RecordOK, Inside, InHand
    <2>3. next \in SagaState /\ next.status = "STEP_EXECUTING"
      BY <2>2, MarkedShape DEF StepStatuses
    <2> HIDE DEF next
    <2>4. InHand("stepped", Saved(next))
      BY <2>3, SavedKeeps DEF InHand
    <2> QED BY <2>1, <2>4, PersistStrands DEF Working
  <1>4. CASE StepWaits(c)
    <2>1. PICK deadline \in BOOLEAN :
            Persist(c, Transition([inst[c] EXCEPT !.steps[inst[c].index] = "WAITING_FOR_SIGNAL",
                                                  !.token = TRUE, !.deadline = deadline],
                                  "WAITING_FOR_EVENT"))
      BY <1>4 DEF StepWaits
    <2> DEFINE next == [inst[c] EXCEPT !.steps[inst[c].index] = "WAITING_FOR_SIGNAL",
                                       !.token = TRUE, !.deadline = deadline]
    <2>2. pc[c] = "executing" /\ Goes(c, "unlocking")
      BY <1>4 DEF StepWaits
    <2>3. inst[c] \in SagaState
      BY <2>2, Known DEF RecordOK, Inside
    <2>4. next \in SagaState
      BY <2>3, WaitChanged DEF StepStatuses
    <2>5. next.token = TRUE
      BY <2>3 DEF SagaState
    <2>6. Persist(c, Transition(next, "WAITING_FOR_EVENT"))
      BY <2>1
    <2> HIDE DEF next
    <2>7. AtRest(Saved(Transition(next, "WAITING_FOR_EVENT")))
      BY <2>4, <2>5, MovedKeeps DEF AtRest, Statuses
    <2>8. InHand("unlocking", Saved(Transition(next, "WAITING_FOR_EVENT")))
      BY DEF InHand
    <2> QED BY <2>2, <2>6, <2>7, <2>8, PersistStrands
  <1>5. CASE StepThrows(c)
    <2>1. pc[c] = "executing" /\ Goes(c, "failing") /\ UNCHANGED <<store, inst, crashes>>
      BY <1>5 DEF StepThrows
    <2>2. InHand("failing", inst[c])
      BY <1>1, <2>1 DEF InHand
    <2> QED BY <2>1, <2>2, CopyKeptStrands DEF Working
  <1>6. CASE Complete(c)
    <2>1. pc[c] \in {"stepping", "stepped"} /\ Goes(c, "unlocking")
      BY <1>6 DEF Complete
    <2>2. Ready(c) \in SagaState /\ inst[c] \in SagaState
      BY <2>1, BetweenSteps
    <2>3. CASE Persist(c, Transition(Ready(c), "COMPLETED"))
      <3>1. AtRest(Saved(Transition(Ready(c), "COMPLETED")))
        BY <2>2, MovedKeeps DEF AtRest, Statuses
      <3>2. InHand("unlocking", Saved(Transition(Ready(c), "COMPLETED")))
        BY DEF InHand
      <3> QED BY <2>1, <2>3, <3>1, <3>2, PersistStrands
    <2>4. CASE ~ IsValidTransition(Ready(c).status, "COMPLETED") /\ UNCHANGED <<store, inst>>
      <3>1. Ready(c).status \in {"RUNNING", "PAUSED"}
        <4>1. CASE pc[c] = "stepped"
          BY <2>2, <4>1, TransitionShape DEF Ready, Statuses
        <4>2. CASE pc[c] = "stepping"
          BY <1>1, <4>2 DEF InHand, Ready
        <4> QED BY <2>1, <4>1, <4>2
      <3>2. Ready(c).status = "PAUSED"
        BY <2>4, <3>1 DEF IsValidTransition, Transitions
      <3>3. inst[c].status = "PAUSED"
        <4>1. CASE pc[c] = "stepped"
          BY <2>2, <3>2, <4>1, TransitionShape DEF Ready, Statuses
        <4>2. CASE pc[c] = "stepping"
          BY <3>2, <4>2 DEF Ready
        <4> QED BY <2>1, <4>1, <4>2
      <3>4. InHand("unlocking", inst[c]) /\ AtRest(inst[c])
        BY <3>3 DEF InHand, AtRest
      <3> QED BY <1>1, <2>1, <2>4, <3>4, CopyKeptStrands
    <2> QED BY <1>6, <2>3, <2>4 DEF Complete
  <1> QED BY <1>2, <1>3, <1>4, <1>5, <1>6

LEMMA FailureStrands ==
  ASSUME SagaInv, StrandInv, NEW c \in Callers,
         \/ StepFailed(c) \/ StartCompensation(c) \/ EndCompensation(c)
         \/ \E ok \in BOOLEAN : Compensate(c, ok)
  PROVE  StrandInv'
PROOF
  <1>1. InHand(pc[c], inst[c]) /\ crashes' = crashes
    BY DEF StrandInv, HandsOK, StepFailed, StartCompensation, EndCompensation, Compensate
  <1>2. pc[c] \in {"failing", "failed", "compensating"}
    BY DEF StepFailed, StartCompensation, EndCompensation, Compensate
  <1>3. inst[c] \in SagaState
    BY <1>2, Known DEF RecordOK, Inside
  <1>4. CASE StepFailed(c)
    <2>1. pc[c] = "failing" /\ Persist(c, inst[c]) /\ Goes(c, "failed")
      BY <1>4 DEF StepFailed
    <2>2. InHand("failed", Saved(inst[c]))
      BY <1>1, <1>3, <2>1, SavedKeeps DEF InHand, Abandoned
    <2> QED BY <2>1, <2>2, PersistStrands DEF Working
  <1>5. CASE StartCompensation(c)
    <2>1. pc[c] = "failed" /\ inst[c].status \in {"STEP_EXECUTING", "WAITING_FOR_EVENT"}
      BY <1>1, <1>5 DEF StartCompensation, InHand
    <2>2. IsValidTransition(inst[c].status, "COMPENSATING")
      BY <2>1 DEF IsValidTransition, Transitions
    <2>3. Persist(c, Transition(inst[c], "COMPENSATING")) /\ Goes(c, "compensating")
      BY <1>5, <2>2 DEF StartCompensation
    <2>4. InHand("compensating", Saved(Transition(inst[c], "COMPENSATING")))
      BY <1>3, MovedKeeps DEF InHand, Statuses
    <2> QED BY <2>3, <2>4, PersistStrands DEF Working
  <1>6. CASE EndCompensation(c)
    <2>1. PICK to \in {"PARTIALLY_COMPENSATED", "FAILED"} :
            Persist(c, Transition(Transition(inst[c], "COMPENSATION_DONE"), to))
      BY <1>6 DEF EndCompensation
    <2> DEFINE done == Transition(inst[c], "COMPENSATION_DONE")
    <2>2. done \in SagaState
      BY <1>3, TransitionShape DEF Statuses
    <2>3. Goes(c, "unlocking") /\ Persist(c, Transition(done, to))
      BY <1>6, <2>1 DEF EndCompensation
    <2> HIDE DEF done
    <2>4. AtRest(Saved(Transition(done, to))) /\ InHand("unlocking", Saved(Transition(done, to)))
      BY <2>2, MovedKeeps DEF AtRest, InHand, Statuses
    <2> QED BY <2>3, <2>4, PersistStrands
  <1>7. CASE \E ok \in BOOLEAN : Compensate(c, ok)
    <2>1. UNCHANGED <<store, pc, inst>>
      BY <1>7 DEF Compensate
    <2> QED BY <1>1, <2>1, StoreKeptStrands
  <1> QED BY <1>4, <1>5, <1>6, <1>7

LEMMA PauseInstanceStrands ==
  ASSUME SagaInv, StrandInv, NEW c \in Callers, PauseInstance(c)
  PROVE  StrandInv'
PROOF
  <1> DEFINE next == Transition(inst[c], "PAUSED")
  <1>1. /\ pc[c] \in Inside /\ IsValidTransition(inst[c].status, "PAUSED") /\ Persist(c, next)
        /\ pc' = pc
    BY DEF PauseInstance
  <1>2. inst[c] \in SagaState /\ InHand(pc[c], inst[c])
    BY <1>1, Known DEF RecordOK, StrandInv, HandsOK
  <1>3. inst[c].status = "RUNNING"
    BY <1>1, <1>2 DEF SagaState, Statuses, IsValidTransition, Transitions
  <1>4. Saved(next).status = "PAUSED"
    BY <1>2, MovedKeeps DEF Statuses
  <1>5. Goes(c, pc[c])
    BY <1>1 DEF Goes, SagaInv, TypeOK
  <1> HIDE DEF next
  <1>6. InHand(pc[c], Saved(next)) /\ AtRest(Saved(next))
    BY <1>2, <1>3, <1>4 DEF InHand, AtRest
  <1> QED BY <1>1, <1>5, <1>6, PersistStrands

\* What is in the hand of whoever dies is at rest, or what a crash may leave.
LEMMA CrashStrands ==
  ASSUME SagaInv, StrandInv, NEW c \in Callers, Crash(c)
  PROVE  StrandInv'
PROOF
  <1>1. store' = store /\ Goes(c, "crashed") /\ inst' = [inst EXCEPT ![c] = Nothing] /\ crashes' = crashes + 1
    BY DEF Crash
  <1>2. /\ pc'[c] = "crashed"
        /\ \A d \in Callers \ {c} : pc'[d] = pc[d] /\ inst'[d] = inst[d]
    BY <1>1, OthersStay
  <1>3. InHand(pc'[c], inst'[c])
    BY <1>2 DEF InHand
  <1>4. HandsOK'
    BY <1>2, <1>3, HandsMove DEF StrandInv
  <1>5. crashes' > 0
    BY <1>1 DEF SagaInv, TypeOK
  <1>6. AtWork => AtRest(store) \/ Abandoned(store)
    <2>1. ASSUME NEW d \in Callers, pc[d] \in Working, inst[d] = store
          PROVE  AtRest(store) \/ Abandoned(store)
      BY <2>1 DEF StrandInv, HandsOK, InHand, Working, AtRest, Abandoned, CrashedStatuses
    <2> QED BY <2>1 DEF AtWork, Working
  <1>7. NothingStranded'
    BY <1>1, <1>5, <1>6 DEF StrandInv, NothingStranded, AtRest, Abandoned
  <1> QED BY <1>4, <1>7 DEF StrandInv

LEMMA StrandStep ==
  ASSUME SagaInv, StrandInv, [Next]_vars
  PROVE  StrandInv'
PROOF
  <1>1. ASSUME NEW c \in Callers, CallerStep(c)
        PROVE  StrandInv'
    <2>1. CASE Run(c) \/ Load(c) \/ Pause(c) \/ Acquire(c) \/ Unlock(c)
      BY <2>1, OutsideStrands
    <2>2. CASE EnterRunning(c) \/ EnterSignal(c) \/ EnterExpire(c)
      BY <2>2, EntersStrands
    <2>3. CASE StartStep(c) \/ StepSucceeds(c) \/ StepWaits(c) \/ StepThrows(c) \/ Complete(c)
      BY <2>3, StepsStrand
    <2>4. CASE \/ StepFailed(c) \/ StartCompensation(c) \/ EndCompensation(c)
               \/ \E ok \in BOOLEAN : Compensate(c, ok)
      BY <2>4, FailureStrands
    <2>5. CASE PauseInstance(c) \/ Crash(c)
      BY <2>5, PauseInstanceStrands, CrashStrands
    <2> QED BY <1>1, <2>1, <2>2, <2>3, <2>4, <2>5 DEF CallerStep
  <1>2. CASE Tick \/ UNCHANGED vars
    <2>1. UNCHANGED <<store, pc, inst, crashes>>
      BY <1>2 DEF Tick, vars, callerVars
    <2>2. HandsOK'
      BY <2>1 DEF StrandInv, HandsOK, InHand, Abandoned
    <2>3. NothingStranded'
      BY <2>1 DEF StrandInv, NothingStranded, AtRest, AtWork, Abandoned
    <2> QED BY <2>2, <2>3 DEF StrandInv
  <1> QED BY <1>1, <1>2 DEF Next

\* Whatever dies, and whenever, the stored record is true to its position; and it is in the
\* middle of nothing that nobody is at work on, but for what a crash left (saga-instance.ts:
\* each save, with the index and the status it writes).
THEOREM RecordAlwaysSound == Spec => []RecordSound
PROOF
  <1>1. Init => StrandInv
    BY DEF Init, StrandInv, HandsOK, InHand, NothingStranded
  <1>2. SagaInv /\ StrandInv /\ [Next]_vars => StrandInv'
    BY StrandStep
  <1>3. SagaInv => PositionSound
    BY DEF SagaInv, PositionSound, Resumable, Succeeded
  <1>4. StrandInv => NothingStranded
    BY DEF StrandInv
  <1> QED BY <1>1, <1>2, <1>3, <1>4, SagaInvariance, PTL DEF Spec, RecordSound

-----------------------------------------------------------------------------
(* The lock *)

\* Whoever is inside holds a lock that has not expired, and is alone.
Locked ==
  /\ \A c \in Callers : pc[c] \in Inside => lock \in Nat /\ now < lock
  /\ \A c, d \in Callers : pc[c] \in Inside /\ pc[d] \in Inside => c = d

LEMMA NobodyEnters ==
  ASSUME Locked, UNCHANGED <<lock, now>>, \A c \in Callers : pc'[c] \in Inside => pc[c] \in Inside
  PROVE  Locked'
PROOF
  BY DEF Locked

\* The places between which a caller moves without acquire() and release().
LEMMA StaysOutOrIn ==
  ASSUME pc \in [Callers -> PCs], NEW c \in Callers, NEW w, Goes(c, w),
         w \in Inside => pc[c] \in Inside
  PROVE  \A d \in Callers : pc'[d] \in Inside => pc[d] \in Inside
PROOF
  BY DEF Goes

LEMMA LockStep ==
  ASSUME LockOutlasts, SagaInv, Locked, [Next]_vars
  PROVE  Locked'
PROOF
  <1>1. /\ pc \in [Callers -> PCs] /\ lock \in Nat \cup {Free} /\ now \in Nat
    BY DEF SagaInv, TypeOK
  <1>2. ASSUME NEW c \in Callers, CallerStep(c)
        PROVE  Locked'
    <2>1. CASE Acquire(c)
      <3>1. CASE LockFree
        <4>1. pc' = [pc EXCEPT ![c] = "locked"] /\ lock' = now + Ttl /\ now' = now
          BY <2>1, <3>1 DEF Acquire, LockTaken, Goes
        <4>2. \A d \in Callers : pc[d] \notin Inside
          BY <1>1, <3>1 DEF Locked, LockFree, Free
        <4>3. \A d \in Callers : pc'[d] \in Inside => d = c
          BY <1>1, <4>1, <4>2
        <4>4. lock' \in Nat /\ now' < lock'
          BY <1>1, <4>1, ConstantAssumption
        <4> QED BY <4>3, <4>4 DEF Locked
      <3>2. CASE ~ LockFree
        <4>1. Goes(c, "refused") /\ UNCHANGED <<lock, now>> /\ "refused" \notin Inside
          BY <2>1, <3>2 DEF Acquire, Inside
        <4> QED BY <1>1, <4>1, StaysOutOrIn, NobodyEnters
      <3> QED BY <3>1, <3>2
    <2>2. CASE Unlock(c)
      <3>1. pc[c] = "unlocking" /\ pc' = [pc EXCEPT ![c] = "done"]
        BY <2>2 DEF Unlock, Goes
      <3>2. \A d \in Callers : d # c => pc[d] \notin Inside
        BY <3>1 DEF Locked, Inside
      <3>3. \A d \in Callers : pc'[d] \notin Inside
        BY <1>1, <3>1, <3>2 DEF Inside
      <3> QED BY <3>3 DEF Locked
    <2>3. CASE Run(c) \/ Load(c) \/ Pause(c)
      <3>1. UNCHANGED <<lock, now>>
        BY <2>3 DEF Run, Load, Pause
      <3>2. PICK w \in {"locking", "pausing", "done"} : Goes(c, w)
        BY <2>3 DEF Run, Load, Pause
      <3>3. w \notin Inside
        BY DEF Inside
      <3> QED BY <1>1, <3>1, <3>2, <3>3, StaysOutOrIn, NobodyEnters
    <2>4. CASE \/ EnterRunning(c) \/ EnterSignal(c) \/ EnterExpire(c) \/ StartStep(c)
               \/ StepSucceeds(c) \/ StepWaits(c) \/ StepThrows(c) \/ Complete(c)
      <3>1. UNCHANGED <<lock, now>> /\ pc[c] \in Inside
        BY <2>4 DEF EnterRunning, EnterSignal, EnterExpire, StartStep, StepSucceeds,
                    StepWaits, StepThrows, Complete, Inside
      <3>2. \E w : Goes(c, w)
        BY <2>4 DEF EnterRunning, EnterSignal, EnterExpire, StartStep, StepSucceeds,
                    StepWaits, StepThrows, Complete
      <3> QED BY <1>1, <3>1, <3>2, StaysOutOrIn, NobodyEnters
    <2>5. CASE StepFailed(c) \/ StartCompensation(c) \/ EndCompensation(c) \/ Crash(c)
      <3>1. UNCHANGED <<lock, now>> /\ pc[c] \in Inside
        BY <2>5 DEF StepFailed, StartCompensation, EndCompensation, Crash, Inside
      <3>2. \E w : Goes(c, w)
        BY <2>5 DEF StepFailed, StartCompensation, EndCompensation, Crash
      <3> QED BY <1>1, <3>1, <3>2, StaysOutOrIn, NobodyEnters
    <2>6. CASE (\E ok \in BOOLEAN : Compensate(c, ok)) \/ PauseInstance(c)
      <3>1. UNCHANGED <<lock, now, pc>>
        BY <2>6 DEF Compensate, PauseInstance
      <3> QED BY <3>1 DEF Locked
    <2> QED BY <1>2, <2>1, <2>2, <2>3, <2>4, <2>5, <2>6 DEF CallerStep
  <1>3. CASE Tick
    <2>1. UNCHANGED <<lock, pc>> /\ now' = now + 1
      BY <1>3 DEF Tick, callerVars
    <2>2. \A c \in Callers : pc[c] \in Inside => now + 1 < lock
      BY <1>1, <1>3 DEF Tick, Locked
    <2> QED BY <2>1, <2>2 DEF Locked
  <1>4. CASE UNCHANGED vars
    BY <1>4 DEF vars, callerVars, Locked
  <1> QED BY <1>2, <1>3, <1>4 DEF Next

\* As long as no execution outlasts the time to live, the lock lets one in at a
\* time, crashes included (executeWithLifecycle(), InMemoryLock, RedisLockAdapter).
THEOREM OneAtATime ==
  ASSUME LockOutlasts
  PROVE  Spec => []OneExecutor
PROOF
  <1>1. Init => Locked
    BY DEF Init, Locked, Inside
  <1>2. SagaInv /\ Locked /\ [Next]_vars => Locked'
    BY LockStep
  <1>3. Locked => OneExecutor
    <2>1. SUFFICES ASSUME Locked
                   PROVE  OneExecutor
      OBVIOUS
    <2> DEFINE S == {c \in Callers : pc[c] \in Inside}
    <2>2. CASE S = {}
      BY <2>2, FS_EmptySet DEF OneExecutor
    <2>3. CASE S # {}
      <3>1. PICK c \in S : TRUE
        BY <2>3
      <3>2. S = {c}
        BY <2>1, <3>1 DEF Locked
      <3>3. Cardinality({c}) = 1
        BY FS_Singleton
      <3> QED BY <3>2, <3>3 DEF OneExecutor
    <2> QED BY <2>2, <2>3
  <1> QED BY <1>1, <1>2, <1>3, SagaInvariance, PTL DEF Spec

-----------------------------------------------------------------------------
(* The steps of a group, in module SagaSteps *)

Running(w) == {s \in GroupSteps : w[s] = "running"}
Waiting(w) == {s \in GroupSteps : w[s] = "queued"}

\* SlotsAccounted, of a bulkhead with these slots, this queue and these handlers.
Slots(a, q, w) ==
  /\ a \in 0..MaxConcurrent /\ a = Cardinality(Running(w))
  /\ q \in Seq(GroupSteps) /\ Len(q) <= MaxQueue
  /\ ToSet(q) = Waiting(w) /\ IsInjective(q)
  /\ q # <<>> => a = MaxConcurrent
  /\ w \in [GroupSteps -> Works]

\* An attempt that is still to come is one of those that are left.
Tries ==
  /\ attempts \in [GroupSteps -> 0..MaxAttempts]
  /\ \A s \in GroupSteps : /\ work[s] = "new" => attempts[s] = 0
                           /\ work[s] = "backoff" => attempts[s] < MaxAttempts

\* Only a timeout answers for a handler that is at work.
Answered ==
  /\ last \in [GroupSteps -> Endings \cup {"none"}]
  /\ answer \in [GroupSteps -> StepAnswers]
  /\ \A s \in GroupSteps : /\ answer[s] \in {"ok", "error"} => work[s] = "over"
                           /\ answer[s] = "ok" => last[s] # "throw"

\* The group speaks for all of its steps.
GroupSound ==
  /\ group \in [answer: StepAnswers, step: GroupSteps \cup {0}]
  /\ group.answer # "none" => \A s \in GroupSteps : answer[s] # "none"
  /\ group.answer = "ok" => \A s \in GroupSteps : answer[s] = "ok"

StepsInv == Slots(active, queue, work) /\ Tries /\ Answered /\ GroupSound

-----------------------------------------------------------------------------
(* The queue, and counting the slots *)

\* A step that is not in the queue gets behind everybody else.
LEMMA QueueAppend ==
  ASSUME NEW q \in Seq(GroupSteps), IsInjective(q), NEW s \in GroupSteps, s \notin ToSet(q)
  PROVE  /\ Append(q, s) \in Seq(GroupSteps) /\ Append(q, s) # <<>>
         /\ Len(Append(q, s)) = Len(q) + 1
         /\ ToSet(Append(q, s)) = ToSet(q) \cup {s}
         /\ IsInjective(Append(q, s))
PROOF
  <1> DEFINE next == Append(q, s)
  <1>1. /\ next \in Seq(GroupSteps) /\ next # <<>> /\ Len(next) = Len(q) + 1
        /\ DOMAIN next = 1..(Len(q) + 1) /\ DOMAIN q = 1..Len(q) /\ Len(q) \in Nat
        /\ \A i \in 1..Len(q) : next[i] = q[i]
        /\ next[Len(q) + 1] = s
    OBVIOUS
  <1> HIDE DEF next
  <1>2. ToSet(next) = ToSet(q) \cup {s}
    BY <1>1 DEF ToSet
  <1>3. IsInjective(next)
    <2> SUFFICES ASSUME NEW i \in 1..(Len(q) + 1), NEW j \in 1..(Len(q) + 1), next[i] = next[j]
                 PROVE  i = j
      BY <1>1 DEF IsInjective
    <2>1. CASE i \in 1..Len(q) /\ j \in 1..Len(q)
      BY <2>1, <1>1 DEF IsInjective
    <2>2. CASE i = Len(q) + 1 /\ j \in 1..Len(q)
      BY <2>2, <1>1 DEF ToSet
    <2>3. CASE i \in 1..Len(q) /\ j = Len(q) + 1
      BY <2>3, <1>1 DEF ToSet
    <2>4. CASE i = Len(q) + 1 /\ j = Len(q) + 1
      BY <2>4
    <2> QED BY <1>1, <2>1, <2>2, <2>3, <2>4
  <1> QED BY <1>1, <1>2, <1>3 DEF next

\* Without its head, a queue holds all but the head.
LEMMA QueueTail ==
  ASSUME NEW q \in Seq(GroupSteps), IsInjective(q), q # <<>>
  PROVE  /\ Head(q) \in GroupSteps /\ Head(q) \in ToSet(q)
         /\ Tail(q) \in Seq(GroupSteps) /\ Len(Tail(q)) = Len(q) - 1
         /\ ToSet(Tail(q)) = ToSet(q) \ {Head(q)}
         /\ IsInjective(Tail(q))
PROOF
  <1> DEFINE next == Tail(q)
  <1>1. /\ next \in Seq(GroupSteps) /\ Len(next) = Len(q) - 1 /\ Len(q) \in Nat \ {0}
        /\ DOMAIN next = 1..(Len(q) - 1) /\ DOMAIN q = 1..Len(q)
        /\ \A i \in 1..(Len(q) - 1) : next[i] = q[i + 1]
        /\ Head(q) = q[1] /\ Head(q) \in GroupSteps
    OBVIOUS
  <1> HIDE DEF next
  <1>2. Head(q) \in ToSet(q)
    BY <1>1 DEF ToSet
  <1>3. IsInjective(next)
    <2> SUFFICES ASSUME NEW i \in 1..(Len(q) - 1), NEW j \in 1..(Len(q) - 1), next[i] = next[j]
                 PROVE  i = j
      BY <1>1 DEF IsInjective
    <2>1. q[i + 1] = q[j + 1] /\ i + 1 \in DOMAIN q /\ j + 1 \in DOMAIN q
      BY <1>1
    <2>2. i + 1 = j + 1
      BY <2>1 DEF IsInjective
    <2> QED BY <2>2
  <1>4. ToSet(next) = ToSet(q) \ {Head(q)}
    <2>1. ASSUME NEW i \in 1..(Len(q) - 1) PROVE next[i] \in ToSet(q) /\ next[i] # Head(q)
      <3>1. next[i] = q[i + 1] /\ i + 1 \in DOMAIN q /\ 1 \in DOMAIN q /\ i + 1 # 1
        BY <1>1
      <3> QED BY <3>1, <1>1 DEF ToSet, IsInjective
    <2>2. ASSUME NEW j \in 1..Len(q), q[j] # Head(q) PROVE q[j] \in ToSet(next)
      <3>1. j - 1 \in 1..(Len(q) - 1) /\ next[j - 1] = q[(j - 1) + 1] /\ (j - 1) + 1 = j
        BY <2>2, <1>1
      <3> QED BY <3>1, <1>1 DEF ToSet
    <2> QED BY <2>1, <2>2, <1>1 DEF ToSet
  <1> QED BY <1>1, <1>2, <1>3, <1>4 DEF next

\* One handler more at work, or one less.
LEMMA RunningCount ==
  ASSUME NEW w \in [GroupSteps -> Works], NEW s \in GroupSteps, NEW to \in Works
  PROVE  /\ IsFiniteSet(Running(w)) /\ Cardinality(Running(w)) \in Nat
         /\ w[s] # "running" /\ to = "running" =>
              Cardinality(Running([w EXCEPT ![s] = to])) = Cardinality(Running(w)) + 1
         /\ w[s] = "running" /\ to # "running" =>
              Cardinality(Running([w EXCEPT ![s] = to])) = Cardinality(Running(w)) - 1
         /\ (w[s] = "running" <=> to = "running") => Running([w EXCEPT ![s] = to]) = Running(w)
PROOF
  <1>1. IsFiniteSet(Running(w))
    <2>1. IsFiniteSet(GroupSteps)
      BY StepsAssumption, FS_Interval DEF StepsAssumption, GroupSteps
    <2> QED BY <2>1, FS_Subset DEF Running
  <1>2. Cardinality(Running(w)) \in Nat
    BY <1>1, FS_CardinalityType
  <1>3. w[s] # "running" /\ to = "running" =>
          Running([w EXCEPT ![s] = to]) = Running(w) \cup {s} /\ s \notin Running(w)
    BY DEF Running
  <1>4. w[s] = "running" /\ to # "running" =>
          Running([w EXCEPT ![s] = to]) = Running(w) \ {s} /\ s \in Running(w)
    BY DEF Running
  <1>5. (w[s] = "running" <=> to = "running") => Running([w EXCEPT ![s] = to]) = Running(w)
    BY DEF Running
  <1>6. Cardinality(Running(w) \cup {s}) =
          IF s \in Running(w) THEN Cardinality(Running(w)) ELSE Cardinality(Running(w)) + 1
    BY <1>1, FS_AddElement
  <1>7. Cardinality(Running(w) \ {s}) =
          IF s \in Running(w) THEN Cardinality(Running(w)) - 1 ELSE Cardinality(Running(w))
    BY <1>1, FS_RemoveElement
  <1>8. w[s] # "running" /\ to = "running" =>
          Cardinality(Running([w EXCEPT ![s] = to])) = Cardinality(Running(w)) + 1
    BY <1>3, <1>6
  <1>9. w[s] = "running" /\ to # "running" =>
          Cardinality(Running([w EXCEPT ![s] = to])) = Cardinality(Running(w)) - 1
    BY <1>4, <1>7
  <1> QED BY <1>1, <1>2, <1>5, <1>8, <1>9

-----------------------------------------------------------------------------
(* What the parts of the actions keep *)

\* SagaBulkhead.execute() takes a slot, or a place in the queue, or refuses.
LEMMA AttemptSlots ==
  ASSUME StepsInv, NEW s \in GroupSteps, work[s] \in {"new", "backoff"}, Attempt(s)
  PROVE  Slots(active', queue', work')
PROOF
  <1> USE StepsAssumption DEF StepsAssumption, Works
  <1>1. Slots(active, queue, work)
    BY DEF StepsInv
  <1>2. active \in Nat /\ work \in [GroupSteps -> Works] /\ work[s] # "running" /\ work[s] # "queued"
    BY <1>1 DEF Slots
  <1>3. CASE /\ active < MaxConcurrent /\ active' = active + 1
             /\ work' = [work EXCEPT ![s] = "running"] /\ queue' = queue
    <2>1. work' \in [GroupSteps -> Works] /\ Waiting(work') = Waiting(work)
      BY <1>2, <1>3 DEF Waiting
    <2>2. Cardinality(Running(work')) = Cardinality(Running(work)) + 1
      BY <1>2, <1>3, RunningCount
    <2> QED BY <1>1, <1>3, <2>1, <2>2 DEF Slots
  <1>4. CASE /\ active >= MaxConcurrent /\ Len(queue) < MaxQueue /\ queue' = Append(queue, s)
             /\ work' = [work EXCEPT ![s] = "queued"] /\ active' = active
    <2>1. work' \in [GroupSteps -> Works] /\ Waiting(work') = Waiting(work) \cup {s}
      BY <1>2, <1>4 DEF Waiting
    <2>2. Running(work') = Running(work)
      BY <1>2, <1>4, RunningCount
    <2>3. s \notin ToSet(queue)
      BY <1>1, <1>2 DEF Slots, Waiting
    <2>4. /\ queue' \in Seq(GroupSteps) /\ Len(queue') = Len(queue) + 1
          /\ ToSet(queue') = ToSet(queue) \cup {s} /\ IsInjective(queue')
      BY <1>1, <1>4, <2>3, QueueAppend DEF Slots
    <2>5. active' = MaxConcurrent /\ Len(queue') <= MaxQueue
          /\ active' = Cardinality(Running(work'))
      BY <1>1, <1>4, <2>2, <2>4 DEF Slots
    <2>6. ToSet(queue') = Waiting(work')
      BY <1>1, <2>1, <2>4 DEF Slots
    <2> QED BY <1>1, <2>1, <2>4, <2>5, <2>6 DEF Slots
  <1>5. CASE work' = [work EXCEPT ![s] = "over"] /\ active' = active /\ queue' = queue
    <2>1. work' \in [GroupSteps -> Works] /\ Waiting(work') = Waiting(work)
      BY <1>2, <1>5 DEF Waiting
    <2>2. Running(work') = Running(work)
      BY <1>2, <1>5, RunningCount
    <2> QED BY <1>1, <1>5, <2>1, <2>2 DEF Slots
  <1> QED BY <1>3, <1>4, <1>5 DEF Attempt

\* The slot of a handler that ends goes to the head of the queue, or back.
LEMMA QueueSlots ==
  ASSUME StepsInv, NEW s \in GroupSteps, work[s] = "running", NEW to \in {"backoff", "over"},
         ProcessQueue([work EXCEPT ![s] = to])
  PROVE  /\ Slots(active', queue', work')
         /\ work'[s] = to
         /\ \A t \in GroupSteps \ {s} : \/ work'[t] = work[t]
                                        \/ work[t] = "queued" /\ work'[t] = "running"
PROOF
  <1> USE StepsAssumption DEF StepsAssumption, Works
  <1> DEFINE w == [work EXCEPT ![s] = to]
  <1>1. Slots(active, queue, work) /\ work \in [GroupSteps -> Works] /\ active \in 0..MaxConcurrent
    BY DEF StepsInv, Slots
  <1>2. /\ w \in [GroupSteps -> Works] /\ w[s] = to /\ \A t \in GroupSteps \ {s} : w[t] = work[t]
        /\ Waiting(w) = Waiting(work)
    BY <1>1 DEF Waiting
  <1>3. Cardinality(Running(w)) = active - 1 /\ active - 1 \in Nat
    <2>1. Cardinality(Running(w)) = Cardinality(Running(work)) - 1
      BY <1>1, RunningCount
    <2>2. Cardinality(Running(w)) \in Nat
      BY <1>2, RunningCount
    <2> QED BY <1>1, <2>1, <2>2 DEF Slots
  <1>4. ProcessQueue(w)
    OBVIOUS
  <1> HIDE DEF w
  <1>5. CASE queue = <<>>
    <2>1. active' = active - 1 /\ work' = w /\ queue' = queue
      BY <1>4, <1>5 DEF ProcessQueue
    <2> QED BY <1>1, <1>2, <1>3, <1>5, <2>1 DEF Slots
  <1>6. CASE queue # <<>>
    <2> DEFINE h == Head(queue)
    <2>1. /\ h \in GroupSteps /\ h \in ToSet(queue) /\ Tail(queue) \in Seq(GroupSteps)
          /\ Len(Tail(queue)) = Len(queue) - 1 /\ ToSet(Tail(queue)) = ToSet(queue) \ {h}
          /\ IsInjective(Tail(queue))
      BY <1>1, <1>6, QueueTail DEF Slots
    <2>2. queue' = Tail(queue) /\ active' = active /\ work' = [w EXCEPT ![h] = "running"]
      BY <1>4, <1>6 DEF ProcessQueue
    <2> HIDE DEF h
    <2>3. work[h] = "queued" /\ h # s /\ w[h] = "queued"
      BY <1>1, <1>2, <2>1 DEF Slots, Waiting
    <2>4. Cardinality(Running(work')) = (active - 1) + 1
      BY <1>2, <1>3, <2>1, <2>2, <2>3, RunningCount
    <2>5. work' \in [GroupSteps -> Works] /\ Waiting(work') = Waiting(w) \ {h}
      BY <1>2, <2>1, <2>2 DEF Waiting
    <2>6. work'[s] = to /\ \A t \in GroupSteps \ {s} : \/ work'[t] = work[t]
                                                       \/ work[t] = "queued" /\ work'[t] = "running"
      BY <1>2, <2>2, <2>3
    <2>7. active' = MaxConcurrent /\ Len(queue') <= MaxQueue /\ Cardinality(Running(work')) = active'
      BY <1>1, <1>6, <2>1, <2>2, <2>4 DEF Slots
    <2>8. ToSet(queue') = Waiting(work')
      BY <1>1, <1>2, <2>1, <2>2, <2>5 DEF Slots
    <2> QED BY <1>1, <2>1, <2>2, <2>5, <2>6, <2>7, <2>8 DEF Slots
  <1> QED BY <1>5, <1>6

\* Where a handler is over, it was not before, and only the timeout may have answered.
LEMMA SettledAnswers ==
  ASSUME Answered, NEW s \in GroupSteps, work[s] # "over", NEW ending \in Endings,
         answer' = Settled(answer, s, ending), last' = [last EXCEPT ![s] = ending],
         work'[s] = "over", \A t \in GroupSteps \ {s} : work[t] = "over" => work'[t] = "over"
  PROVE  /\ Answered'
         /\ \A t \in GroupSteps : answer[t] # "none" => answer'[t] = answer[t]
PROOF
  <1> USE DEF Answered, StepAnswers, Endings
  <1>1. answer[s] \in {"none", "timeout"} /\ AnswerTo(ending) \in {"ok", "error"}
        /\ (AnswerTo(ending) = "ok" => ending # "throw")
    BY DEF AnswerTo
  <1>2. CASE answer[s] # "none"
    <2>1. answer' = answer
      BY <1>2 DEF Settled
    <2> QED BY <1>1, <1>2, <2>1
  <1>3. CASE answer[s] = "none"
    <2>1. answer' = [answer EXCEPT ![s] = AnswerTo(ending)]
      BY <1>3 DEF Settled
    <2> HIDE DEF Endings
    <2> QED BY <1>1, <1>3, <2>1
  <1> QED BY <1>2, <1>3

-----------------------------------------------------------------------------
(* The invariant *)

LEMMA InitInv == GroupInit => StepsInv
PROOF
  <1> SUFFICES ASSUME GroupInit PROVE StepsInv
    OBVIOUS
  <1> USE StepsAssumption DEF StepsAssumption, GroupInit
  <1>1. Slots(active, queue, work)
    <2>1. Running(work) = {} /\ Waiting(work) = {} /\ Cardinality({}) = 0
      BY FS_EmptySet DEF Running, Waiting
    <2>2. queue \in Seq(GroupSteps) /\ Len(queue) = 0 /\ ToSet(queue) = {} /\ IsInjective(queue)
      BY DEF ToSet, IsInjective
    <2>3. work \in [GroupSteps -> Works]
      BY DEF Works
    <2>4. 0 \in 0..MaxConcurrent /\ active = 0 /\ Len(queue) <= MaxQueue
      BY <2>2
    <2>5. queue = <<>>
      OBVIOUS
    <2> HIDE DEF GroupInit
    <2> QED BY <2>1, <2>2, <2>3, <2>4, <2>5 DEF Slots
  <1>2. Tries
    BY DEF Tries
  <1>3. Answered
    BY DEF Answered, StepAnswers
  <1>4. GroupSound
    BY DEF GroupSound, StepAnswers
  <1> QED BY <1>1, <1>2, <1>3, <1>4 DEF StepsInv

\* An attempt begins: the first of a step, or the next after a backoff.
LEMMA AttemptInv ==
  ASSUME StepsInv, NEW s \in GroupSteps, work[s] \in {"new", "backoff"}, Attempt(s), UNCHANGED group
  PROVE  StepsInv'
PROOF
  <1> USE StepsAssumption DEF StepsAssumption
  <1>1. Slots(active', queue', work')
    BY AttemptSlots
  <1>2. work \in [GroupSteps -> Works] /\ Tries /\ Answered /\ GroupSound
    BY DEF StepsInv, Slots
  <1>3. attempts[s] \in 0..(MaxAttempts - 1)
    BY <1>2 DEF Tries
  <1>4. attempts' = [attempts EXCEPT ![s] = attempts[s] + 1]
    BY DEF Attempt
  <1>5. work'[s] \in {"running", "queued", "over"} /\ \A t \in GroupSteps \ {s} : work'[t] = work[t]
    BY <1>2 DEF Attempt
  <1>6. Tries'
    BY <1>2, <1>3, <1>4, <1>5 DEF Tries
  <1>7. Answered' /\ \A t \in GroupSteps : answer[t] # "none" => answer'[t] = answer[t]
    <2>1. CASE UNCHANGED <<answer, last>>
      <3>1. answer[s] \notin {"ok", "error"}
        BY <1>2 DEF Answered
      <3> QED BY <1>2, <1>5, <2>1, <3>1 DEF Answered
    <2>2. CASE /\ work' = [work EXCEPT ![s] = "over"] /\ last' = [last EXCEPT ![s] = "throw"]
               /\ answer' = Settled(answer, s, "throw")
      <3>1. "throw" \in Endings /\ work[s] # "over" /\ work'[s] = "over"
        BY <1>2, <2>2 DEF Endings
      <3> QED BY <1>2, <1>5, <2>2, <3>1, SettledAnswers
    <2> QED BY <2>1, <2>2 DEF Attempt
  <1>8. GroupSound'
    BY <1>2, <1>7 DEF GroupSound
  <1> QED BY <1>1, <1>6, <1>7, <1>8 DEF StepsInv

\* An attempt ends: with the answer of its handler, or in a backoff.
LEMMA AttemptEndsInv ==
  ASSUME StepsInv, NEW s \in GroupSteps, NEW ending \in Endings, AttemptEnds(s, ending)
  PROVE  StepsInv'
PROOF
  <1> USE StepsAssumption DEF StepsAssumption
  <1>1. /\ work \in [GroupSteps -> Works] /\ Tries /\ Answered /\ GroupSound
        /\ work[s] = "running" /\ last' = [last EXCEPT ![s] = ending]
        /\ attempts' = attempts /\ group' = group
    BY DEF StepsInv, Slots, AttemptEnds
  <1>2. CASE Retried(s, ending) /\ ProcessQueue([work EXCEPT ![s] = "backoff"]) /\ answer' = answer
    <2>1. /\ Slots(active', queue', work') /\ work'[s] = "backoff"
          /\ \A t \in GroupSteps \ {s} : \/ work'[t] = work[t]
                                         \/ work[t] = "queued" /\ work'[t] = "running"
      BY <1>1, <1>2, QueueSlots
    <2>2. Tries'
      BY <1>1, <1>2, <2>1 DEF Tries, Retried
    <2>3. Answered'
      BY <1>1, <1>2, <2>1 DEF Answered
    <2>4. GroupSound'
      BY <1>1, <1>2 DEF GroupSound
    <2> QED BY <2>1, <2>2, <2>3, <2>4 DEF StepsInv
  <1>3. CASE ProcessQueue([work EXCEPT ![s] = "over"]) /\ answer' = Settled(answer, s, ending)
    <2>1. /\ Slots(active', queue', work') /\ work'[s] = "over"
          /\ \A t \in GroupSteps \ {s} : \/ work'[t] = work[t]
                                         \/ work[t] = "queued" /\ work'[t] = "running"
      BY <1>1, <1>3, QueueSlots
    <2>2. Tries'
      BY <1>1, <2>1 DEF Tries
    <2>3. Answered' /\ \A t \in GroupSteps : answer[t] # "none" => answer'[t] = answer[t]
      BY <1>1, <1>3, <2>1, SettledAnswers
    <2>4. GroupSound'
      BY <1>1, <2>3 DEF GroupSound
    <2> QED BY <2>1, <2>2, <2>3, <2>4 DEF StepsInv
  <1> QED BY <1>2, <1>3 DEF AttemptEnds

\* StepRunner's timer answers for a handler, which stays where it is.
LEMMA TimesOutInv ==
  ASSUME StepsInv, NEW s \in GroupSteps, TimesOut(s)
  PROVE  StepsInv'
PROOF
  <1>1. /\ Slots(active, queue, work) /\ Tries /\ Answered /\ GroupSound
        /\ answer[s] = "none" /\ answer' = [answer EXCEPT ![s] = "timeout"]
        /\ UNCHANGED <<active, queue, work, attempts, last, group>>
    BY DEF StepsInv, TimesOut
  <1>2. Slots(active', queue', work') /\ Tries'
    BY <1>1 DEF Tries
  <1>3. Answered'
    BY <1>1 DEF Answered, StepAnswers
  <1>4. GroupSound'
    BY <1>1 DEF GroupSound, Answered
  <1> QED BY <1>2, <1>3, <1>4 DEF StepsInv

\* The first failed step, if there is one, is a step that failed.
LEMMA FirstFailed ==
  ASSUME Failed # {}
  PROVE  Min(Failed) \in Failed
PROOF
  <1>1. Failed \subseteq Nat
    BY StepsAssumption DEF Failed, GroupSteps, StepsAssumption
  <1> DEFINE less == {ss \in Nat \X Nat : ss[1] < ss[2]}
  <1>2. IsWellFoundedOn(less, Nat)
    BY NatLessThanWellFounded, Zenon DEF OpToRel
  <1>3. \A x, y \in Nat : <<y, x>> \notin less => x <= y
    OBVIOUS
  <1> HIDE DEF less
  <1>4. PICK x \in Failed : \A y \in Failed : ~ (<<y, x>> \in less)
    BY <1>1, <1>2, WFMin
  <1>5. \A y \in Failed : x <= y
    BY <1>1, <1>3, <1>4
  <1> QED BY <1>5 DEF Min

\* ParallelExecutor has all the answers.
LEMMA GroupAnswersInv ==
  ASSUME StepsInv, GroupAnswers
  PROVE  StepsInv'
PROOF
  <1> USE StepsAssumption DEF StepsAssumption
  <1>1. /\ Slots(active, queue, work) /\ Tries /\ Answered /\ GroupSound
        /\ \A s \in GroupSteps : answer[s] # "none"
        /\ UNCHANGED <<active, queue, work, attempts, last, answer>>
    BY DEF StepsInv, GroupAnswers
  <1>2. Slots(active', queue', work') /\ Tries' /\ Answered'
    BY <1>1 DEF Tries, Answered
  <1>3. GroupSound'
    <2>1. CASE Failed = {}
      <3>1. group' = [answer |-> "ok", step |-> 1] /\ 1 \in GroupSteps
        BY <2>1 DEF GroupAnswers, GroupSteps
      <3>2. \A s \in GroupSteps : answer[s] = "ok"
        BY <1>1, <2>1 DEF Failed, Answered, StepAnswers
      <3> QED BY <1>1, <3>1, <3>2 DEF GroupSound, StepAnswers
    <2>2. CASE Failed # {}
      <3> DEFINE f == Min(Failed)
      <3>1. f \in GroupSteps /\ answer[f] \in {"error", "timeout"}
        BY <2>2, FirstFailed DEF Failed
      <3>2. group' = [answer |-> answer[f], step |-> f]
        BY <2>2 DEF GroupAnswers
      <3> HIDE DEF f
      <3> QED BY <1>1, <3>1, <3>2 DEF GroupSound, StepAnswers
    <2> QED BY <2>1, <2>2
  <1> QED BY <1>2, <1>3 DEF StepsInv

LEMMA StepInv == StepsInv /\ [GroupNext]_groupVars => StepsInv'
PROOF
  <1> SUFFICES ASSUME StepsInv, [GroupNext]_groupVars PROVE StepsInv'
    OBVIOUS
  <1>1. ASSUME NEW s \in GroupSteps, Start(s) \/ BackoffEnds(s) PROVE StepsInv'
    BY <1>1, AttemptInv DEF Start, BackoffEnds
  <1>2. ASSUME NEW s \in GroupSteps, TimesOut(s) PROVE StepsInv'
    BY <1>2, TimesOutInv
  <1>3. ASSUME NEW s \in GroupSteps, NEW ending \in Endings, AttemptEnds(s, ending) PROVE StepsInv'
    BY <1>3, AttemptEndsInv
  <1>4. CASE GroupAnswers
    BY <1>4, GroupAnswersInv
  <1>5. CASE UNCHANGED groupVars
    BY <1>5 DEF groupVars, StepsInv, Slots, Tries, Answered, GroupSound
  <1> QED BY <1>1, <1>2, <1>3, <1>4, <1>5 DEF GroupNext, Done

THEOREM StepsAlwaysInv == GroupSpec => []StepsInv
PROOF
  <1> QED BY InitInv, StepInv, PTL DEF GroupSpec

-----------------------------------------------------------------------------
(* The properties *)

\* Whatever the handlers do, and however many are late: the bulkhead's slots are those
\* of the attempts that run, its queue holds everybody who waits, once, and nobody waits
\* next to a free slot.
THEOREM SlotsAlwaysAccounted == GroupSpec => []SlotsAccounted
PROOF
  <1>1. StepsInv => SlotsAccounted
    <2> SUFFICES ASSUME StepsInv PROVE SlotsAccounted
      OBVIOUS
    <2> USE StepsAssumption DEF StepsAssumption
    <2>1. GroupTypeOK
      BY DEF StepsInv, Slots, Tries, Answered, GroupSound, GroupTypeOK
    <2>2. Slots(active, queue, work)
      BY DEF StepsInv
    <2> QED BY <2>1, <2>2 DEF Slots, Running, Waiting, SlotsAccounted
  <1> QED BY <1>1, StepsAlwaysInv, PTL

\* A group that has answered leaves only what has timed out at work, and one that has
\* answered ok leaves nothing: for any number of steps, slots and attempts.
THEOREM OnlyLateWork == GroupSpec => []OnlyLateWorkGoesOn
PROOF
  <1>1. StepsInv => OnlyLateWorkGoesOn
    BY DEF StepsInv, Answered, StepAnswers, GroupSound, OnlyLateWorkGoesOn
  <1> QED BY <1>1, StepsAlwaysInv, PTL
=============================================================================

--------------------------------- MODULE SagaSteps ---------------------------------
(***************************************************************************)
(* How a saga performs one group of steps: ParallelExecutor starts them    *)
(* all, StepRunner races each against its timeout, and the handlers go     *)
(* through the retryMiddleware and, attempt by attempt, a SagaBulkhead     *)
(* they share.  A handler that timed out is not stopped: it goes on in     *)
(* the queue, in its attempts and in its slot.  The formulas carry the     *)
(* group in their names, so that one module of proofs can extend this      *)
(* module and Saga, which also has a Spec.                                 *)
(***************************************************************************)
EXTENDS Integers, FiniteSetsExt, SequencesExt

CONSTANTS GroupSize,        \* the group is the steps 1..GroupSize
          Timed,            \* the steps with a timeoutMs
          MaxConcurrent, MaxQueue,     \* BulkheadConfig
          MaxAttempts       \* of the retryMiddleware

ASSUME StepsAssumption ==
  /\ GroupSize \in Nat \ {0} /\ Timed \subseteq 1..GroupSize
  /\ MaxConcurrent \in Nat \ {0} /\ MaxQueue \in Nat /\ MaxAttempts \in Nat \ {0}

GroupSteps == 1..GroupSize

VARIABLES active, queue,    \* SagaBulkhead
          work,             \* where the handler of each step is
          attempts,
          last,             \* how its last attempt ended
          answer,           \* what StepRunner.execute() answered for it
          group             \* what ParallelExecutor.execute() answered

groupVars == <<active, queue, work, attempts, last, answer, group>>

Works       == {"new", "queued", "running", "backoff", "over"}
Endings     == {"ok", "infrastructure", "business", "throw"}
StepAnswers == {"none", "ok", "error", "timeout"}

GroupTypeOK ==
  /\ active \in 0..MaxConcurrent
  /\ queue \in Seq(GroupSteps) /\ Len(queue) <= MaxQueue
  /\ work \in [GroupSteps -> Works]
  /\ attempts \in [GroupSteps -> 0..MaxAttempts]
  /\ last \in [GroupSteps -> Endings \cup {"none"}]
  /\ answer \in [GroupSteps -> StepAnswers]
  /\ group \in [answer: StepAnswers, step: GroupSteps \cup {0}]

GroupInit ==
  /\ active = 0 /\ queue = <<>>
  /\ work = [s \in GroupSteps |-> "new"]
  /\ attempts = [s \in GroupSteps |-> 0]
  /\ last = [s \in GroupSteps |-> "none"]
  /\ answer = [s \in GroupSteps |-> "none"]
  /\ group = [answer |-> "none", step |-> 0]

-----------------------------------------------------------------------------
(* Where a handler's promise settles, StepRunner has its answer, unless the   *)
(* timer was first.  A handler that answers fail() is as good as ok: its      *)
(* answer is wrapped as the output of the step.                               *)

AnswerTo(ending) == IF ending = "throw" THEN "error" ELSE "ok"

Settled(old, s, ending) ==
  IF old[s] # "none" THEN old ELSE [old EXCEPT ![s] = AnswerTo(ending)]

\* SagaBulkhead.execute(): a full queue throws, through the middleware, which
\* calls next() outside of any try.
Attempt(s) ==
  /\ \/ /\ active < MaxConcurrent
        /\ active' = active + 1
        /\ work' = [work EXCEPT ![s] = "running"]
        /\ UNCHANGED <<queue, answer, last>>
     \/ /\ active >= MaxConcurrent /\ Len(queue) < MaxQueue
        /\ queue' = Append(queue, s)
        /\ work' = [work EXCEPT ![s] = "queued"]
        /\ UNCHANGED <<active, answer, last>>
     \/ /\ active >= MaxConcurrent /\ Len(queue) >= MaxQueue
        /\ work' = [work EXCEPT ![s] = "over"]
        /\ last' = [last EXCEPT ![s] = "throw"]
        /\ answer' = Settled(answer, s, "throw")
        /\ UNCHANGED <<active, queue>>
  /\ attempts' = [attempts EXCEPT ![s] = @ + 1]

\* ParallelExecutor calls every runner before it awaits any.
Start(s) ==
  /\ work[s] = "new" /\ \A r \in 1..(s - 1) : work[r] # "new"
  /\ Attempt(s)
  /\ UNCHANGED group

Started == \A s \in GroupSteps : work[s] # "new"

-----------------------------------------------------------------------------
(* SagaBulkhead.run() ends: its slot goes to the next in the queue *)

MutProcessQueue(w) ==     \* an attempt that ends wakes nobody
  /\ active' = active - 1 /\ work' = w /\ UNCHANGED queue

ProcessQueue(w) ==
  IF queue = <<>> THEN /\ active' = active - 1
                       /\ work' = w
                       /\ UNCHANGED queue
  ELSE /\ queue' = Tail(queue)
       /\ work' = [w EXCEPT ![Head(queue)] = "running"]
       /\ UNCHANGED active

\* retryMiddleware: fail() with one of two types is tried again, a throw goes through.
Retried(s, ending) == ending = "infrastructure" /\ attempts[s] < MaxAttempts

AttemptEnds(s, ending) ==
  /\ Started /\ work[s] = "running"
  /\ last' = [last EXCEPT ![s] = ending]
  /\ \/ /\ Retried(s, ending)
        /\ ProcessQueue([work EXCEPT ![s] = "backoff"])
        /\ UNCHANGED answer
     \/ /\ ~ Retried(s, ending)
        /\ ProcessQueue([work EXCEPT ![s] = "over"])
        /\ answer' = Settled(answer, s, ending)
  /\ UNCHANGED <<attempts, group>>

BackoffEnds(s) ==
  /\ Started /\ work[s] = "backoff"
  /\ Attempt(s)
  /\ UNCHANGED group

MutTimesOut(s) ==     \* the timer starts with the attempt, not with the step
  /\ Started /\ s \in Timed /\ answer[s] = "none" /\ work[s] # "queued"
  /\ answer' = [answer EXCEPT ![s] = "timeout"]
  /\ UNCHANGED <<active, queue, work, attempts, last, group>>

\* The timer of StepRunner, which the handler never hears of.
TimesOut(s) ==
  /\ Started /\ s \in Timed /\ answer[s] = "none"
  /\ answer' = [answer EXCEPT ![s] = "timeout"]
  /\ UNCHANGED <<active, queue, work, attempts, last, group>>

Failed == {s \in GroupSteps : answer[s] \in {"error", "timeout"}}

MutGroupAnswers ==     \* Promise.all instead of allSettled
  /\ Started /\ group.answer = "none"
  /\ Failed # {} \/ \A s \in GroupSteps : answer[s] # "none"
  /\ group' = IF Failed = {} THEN [answer |-> "ok", step |-> 1]
              ELSE [answer |-> answer[Min(Failed)], step |-> Min(Failed)]
  /\ UNCHANGED <<active, queue, work, attempts, last, answer>>

\* ParallelExecutor: all have settled; the first error in order, or the first output.
GroupAnswers ==
  /\ Started /\ group.answer = "none"
  /\ \A s \in GroupSteps : answer[s] # "none"
  /\ group' = IF Failed = {} THEN [answer |-> "ok", step |-> 1]
              ELSE [answer |-> answer[Min(Failed)], step |-> Min(Failed)]
  /\ UNCHANGED <<active, queue, work, attempts, last, answer>>

\* All is over.
Done == group.answer # "none" /\ (\A s \in GroupSteps : work[s] = "over") /\ UNCHANGED groupVars

GroupNext ==
  \/ \E s \in GroupSteps : \/ Start(s) \/ BackoffEnds(s) \/ TimesOut(s)
                           \/ \E ending \in Endings : AttemptEnds(s, ending)
  \/ GroupAnswers
  \/ Done

GroupSpec == GroupInit /\ [][GroupNext]_groupVars

\* The code itself and its timers: a handler need not end at all.
TimersRun ==
  \A s \in GroupSteps : WF_groupVars(Start(s)) /\ WF_groupVars(BackoffEnds(s)) /\ WF_groupVars(TimesOut(s))

FairSpec == GroupSpec /\ TimersRun /\ WF_groupVars(GroupAnswers)

-----------------------------------------------------------------------------
(* Properties *)

\* Every slot of the bulkhead is held by an attempt that runs, nobody waits next to a
\* free one, and everybody in the queue is there once.
SlotsAccounted ==
  /\ GroupTypeOK
  /\ active = Cardinality({s \in GroupSteps : work[s] = "running"}) /\ active <= MaxConcurrent
  /\ ToSet(queue) = {s \in GroupSteps : work[s] = "queued"} /\ IsInjective(queue)
  /\ Len(queue) <= MaxQueue
  /\ queue # <<>> => active = MaxConcurrent

\* When the group has answered, as the engine goes on to the next step or to the
\* compensations, only what has timed out is still at work; and it has answered ok only
\* if everything was done, in whatever order things ended.
OnlyLateWorkGoesOn ==
  group.answer # "none" =>
    /\ \A s \in GroupSteps : work[s] # "over" => answer[s] = "timeout"
    /\ group.answer = "ok" => \A s \in GroupSteps : work[s] = "over" /\ last[s] # "throw"

\* If every step has a timeout, the group answers, though handlers hang with all slots
\* of the bulkhead and others wait for them in the queue.
GroupSettles == Timed = GroupSteps => <>(group.answer # "none")

=====================================================================================

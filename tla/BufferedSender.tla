----------------------------- MODULE BufferedSender -----------------------------
(***************************************************************************)
(* The two buffers of the observability package that ship entries to an    *)
(* HTTP endpoint through a circuit breaker: WinstonHttpTransport, which    *)
(* also flushes when a batch is full, and MetricsService, which flushes on *)
(* its timer only.  Entries are numbered in the order they are recorded.   *)
(* The formulas carry the sender in their names, so that one module of     *)
(* proofs can extend this module and HttpClient, which also has a Spec.    *)
(***************************************************************************)
EXTENDS CircuitBreakerCore, Filters, SequencesExt

CONSTANTS Senders,         \* which of the two: \subseteq {"transport", "metrics"}
          BatchSize, MaxBufferSize, MaxRetries, MaxAge,
          CircuitConfig,
          Flights,         \* the flushes that may overlap: a bound
          MaxEntries, MaxClock    \* bounds

ASSUME SenderAssumption ==
  /\ Senders \subseteq {"transport", "metrics"}
  /\ BatchSize \in Nat \ {0} /\ MaxBufferSize \in Nat \ {0}
  /\ MaxRetries \in Nat /\ MaxAge \in Nat \ {0}
  /\ CircuitConfig \in Config /\ ValidateConfig(CircuitConfig)
  /\ MaxEntries \in Nat /\ MaxClock \in Nat

VARIABLES sender,
          recorded,    \* how many entries there were
          born,        \* when each was recorded
          buffer,
          retries,
          flight,      \* the batch of each flush that waits for its answer, and its generation
          circuit, clock,
          closed,
          acked,       \* the entries of a batch that was answered
          lost         \* the entries given up, by reason

senderVars == <<sender, recorded, born, buffer, retries, flight, circuit, clock, closed, acked, lost>>

Entries == 1..MaxEntries
Idle == [batch |-> <<>>, gen |-> -1]
Waits(f) == flight[f].gen # -1

\* Why an entry may be given up.
NoLoss == [full |-> {}, old |-> {}, retries |-> {}, room |-> {}]

Lose(more) == lost' = [r \in DOMAIN NoLoss |-> lost[r] \cup more[r]]

SenderInit ==
  /\ sender \in Senders
  /\ recorded = 0
  /\ born = [e \in Entries |-> 0]
  /\ buffer = <<>>
  /\ retries = [e \in Entries |-> 0]
  /\ flight = [f \in Flights |-> Idle]
  /\ circuit = NewBreaker /\ clock = 0
  /\ closed = FALSE
  /\ acked = {} /\ lost = NoLoss

\* What the breaker counts is left out: nobody asks it.
Uncounted(b) == [b EXCEPT !.counters = NoCalls]

Prefix(s, n) == SubSeq(s, 1, IF Len(s) < n THEN Len(s) ELSE n)
Suffix(s, n) == SubSeq(s, n + 1, Len(s))

Old(e) == clock - born[e] >= MaxAge

-----------------------------------------------------------------------------
(* flush() *)

Aged == {e \in Entries : Old(e)}
Spent == {e \in Entries : retries[e] >= MaxRetries}

\* Mistake: the batch is put back and the buffer cut to its size.
MutRequeue(batch, buf, more) ==
  LET again == Only(batch, Entries \ Spent)
  IN  /\ buffer' = Prefix(again \o buf, MaxBufferSize)
      /\ retries' = [e \in Entries |-> IF e \in ToSet(batch) \ Spent THEN retries[e] + 1 ELSE retries[e]]
      /\ Lose([more EXCEPT !.retries = ToSet(batch) \cap Spent])

\* The batch goes back to the head of the buffer, as far as there is room.
Requeue(batch, buf, more) ==
  LET again == Only(batch, Entries \ Spent)
      room  == MaxBufferSize - Len(buf)
  IN  /\ buffer' = Prefix(again, room) \o buf
      /\ retries' = [e \in Entries |-> IF e \in ToSet(batch) \ Spent THEN retries[e] + 1 ELSE retries[e]]
      /\ Lose([more EXCEPT !.retries = ToSet(batch) \cap Spent, !.room = ToSet(Suffix(again, room))])

\* A flush of `buf': what is young of it is sent, even if that is nothing; an open breaker
\* refuses it, which costs the entries one of their retries, too.
Flush(buf, more) ==
  LET young == Only(buf, Entries \ Aged)
      gone  == [more EXCEPT !.old = ToSet(buf) \cap Aged]
      b     == SyncState(circuit, CircuitConfig, clock)
  IN  \/ /\ Permitted(b, CircuitConfig)
         /\ circuit' = Uncounted(Admitted(b))
         /\ buffer' = Suffix(young, BatchSize)
         /\ \E f \in Flights :
              /\ ~Waits(f)
              /\ flight' = [flight EXCEPT ![f] = [batch |-> Prefix(young, BatchSize), gen |-> b.generation]]
         /\ Lose(gone)
         /\ UNCHANGED retries
      \/ /\ ~Permitted(b, CircuitConfig)
         /\ circuit' = b
         /\ Requeue(Prefix(young, BatchSize), Suffix(young, BatchSize), gone)
         /\ UNCHANGED flight

Answered(f) ==
  /\ Waits(f)
  /\ circuit' = Uncounted(Settle(circuit, "ok", 0, flight[f].gen, CircuitConfig, clock))
  /\ acked' = acked \cup ToSet(flight[f].batch)
  /\ flight' = [flight EXCEPT ![f] = Idle]
  /\ UNCHANGED <<sender, recorded, born, buffer, retries, clock, closed, lost>>

\* An error, a status >= 400 or a time-out: every one is an infrastructure failure.
Fails(f) ==
  /\ Waits(f)
  /\ circuit' = Uncounted(Settle(circuit, "infra", 0, flight[f].gen, CircuitConfig, clock))
  /\ Requeue(flight[f].batch, buffer, NoLoss)
  /\ flight' = [flight EXCEPT ![f] = Idle]
  /\ UNCHANGED <<sender, recorded, born, clock, closed, acked>>

-----------------------------------------------------------------------------
(* What the application and the timer do *)

NextEntry == recorded + 1

Recorded ==
  /\ recorded < MaxEntries
  /\ recorded' = NextEntry
  /\ born' = [born EXCEPT ![NextEntry] = clock]

Full == Len(buffer) >= MaxBufferSize
Dropped == IF Full THEN [NoLoss EXCEPT !.full = {NextEntry}] ELSE NoLoss
Taken == IF Full THEN buffer ELSE Append(buffer, NextEntry)

\* log(): an entry that is dropped may still be the occasion of a flush.
Log ==
  /\ sender = "transport"
  /\ Recorded
  /\ \/ Len(Taken) >= BatchSize /\ Flush(Taken, Dropped)
     \/ /\ Len(Taken) < BatchSize
        /\ buffer' = Taken
        /\ Lose(Dropped)
        /\ UNCHANGED <<retries, flight, circuit>>
  /\ UNCHANGED <<sender, clock, closed, acked>>

\* record()
RecordMetric ==
  /\ sender = "metrics"
  /\ Recorded
  /\ buffer' = Taken
  /\ Lose(Dropped)
  /\ UNCHANGED <<sender, retries, flight, circuit, clock, closed, acked>>

\* Mistake: the timer waits until a batch is full.
MutTimerFlush ==
  /\ ~closed
  /\ Len(buffer) >= BatchSize
  /\ Flush(buffer, NoLoss)
  /\ UNCHANGED <<sender, recorded, born, clock, closed, acked>>

TimerFlush ==
  /\ ~closed
  /\ buffer # <<>>
  /\ Flush(buffer, NoLoss)
  /\ UNCHANGED <<sender, recorded, born, clock, closed, acked>>

\* close(), onModuleDestroy(): the timer is stopped, one batch is flushed.
Close ==
  /\ ~closed
  /\ closed' = TRUE
  /\ IF buffer = <<>> THEN UNCHANGED <<buffer, retries, flight, circuit, lost>> ELSE Flush(buffer, NoLoss)
  /\ UNCHANGED <<sender, recorded, born, clock, acked>>

ClockTick ==
  /\ clock < MaxClock
  /\ clock' = clock + 1
  /\ UNCHANGED <<sender, recorded, born, buffer, retries, flight, circuit, closed, acked, lost>>

SenderNext ==
  \/ Log \/ RecordMetric \/ TimerFlush \/ Close \/ ClockTick
  \/ \E f \in Flights : Answered(f) \/ Fails(f)

SenderSpec == SenderInit /\ [][SenderNext]_senderVars

\* The interval timer fires for as long as it is not cleared, and a post has a time-out.
FairSpec ==
  /\ SenderSpec
  /\ WF_senderVars(TimerFlush)
  /\ \A f \in Flights : WF_senderVars(Answered(f) \/ Fails(f))

-----------------------------------------------------------------------------
(* Properties *)

Carrying(e) == {f \in Flights : e \in ToSet(flight[f].batch)}
LostFor(e) == {r \in DOMAIN lost : e \in lost[r]}

SenderTypeOK ==
  /\ sender \in Senders
  /\ recorded \in 0..MaxEntries
  /\ ToSet(buffer) \subseteq 1..recorded
  /\ retries \in [Entries -> 0..MaxRetries]
  /\ circuit \in Breaker
  /\ acked \subseteq 1..recorded

\* However flushes overlap, fail and put their batches back, the buffer keeps its bound, and
\* every entry is in one place and there once: in the buffer, in one batch on its way,
\* delivered, or given up for one reason.
EntriesAccounted ==
  /\ SenderTypeOK
  /\ Len(buffer) <= MaxBufferSize
  /\ IsInjective(buffer)
  /\ \A e \in 1..recorded :
       1 = (IF e \in ToSet(buffer) THEN 1 ELSE 0) + Cardinality(Carrying(e))
           + (IF e \in acked THEN 1 ELSE 0) + Cardinality(LostFor(e))

\* "Infinite re-enqueue" is prevented (winston-http.transport.ts:161, metrics.service.ts:143):
\* as long as the timer runs and nothing new is recorded, the buffer gets empty, even if
\* every post fails.
EntriesLeave == buffer # <<>> ~> buffer = <<>> \/ closed

\* "The service flushes remaining events on onModuleDestroy (graceful shutdown)" (README.md:226),
\* "Flush remaining buffer on graceful shutdown" (winston-http.transport.ts:141): with
\* nothing refused or failed, nothing is left behind.
ShutdownFlushes ==
  closed /\ recorded = MaxEntries /\ (\A e \in Entries : retries[e] = 0) => buffer = <<>>
=============================================================================

-------------------------------- MODULE SagaReads --------------------------------
(***************************************************************************)
(* The stores of the saga package with readers among their clients:        *)
(* list(filter), as the recovery sends it, and findByEventToken(), which   *)
(* signal() starts with.  The store in memory and the SQL one answer a     *)
(* read at one moment.  The Redis one reads an index first and then the    *)
(* state of each saga it named, with a save, a removal or an expiry        *)
(* anywhere between, and compares no state with what was asked.            *)
(***************************************************************************)
EXTENDS SagaStores

CONSTANTS Readers

VARIABLES query,      \* what each reader asks for
          narrowing,  \* has it a second index to read?
          left,       \* the sagas it was named whose state it has yet to read
          found,      \* the states it has read, by saga
          \* history of each read since it began
          steady,     \* the sagas nobody was writing, nor had left half-written
          kept,       \* the sagas that were there all the time
          matched     \* the sagas that were what is asked for, at some moment

answers == <<query, narrowing, left, found>>
past    == <<steady, kept, matched>>

NoQuery == [by |-> "nothing"]

\* By status, by saga typeAndStatus, by event token; all of a type (the model has one); all.
Queries ==
  [by : {"status", "typeAndStatus"}, key : Statuses]
    \cup [by : {"token"}, key : Tokens] \cup [by : {"type", "all"}]

\* Is st what q asks for?
Wants(q, st) ==
  /\ st # Nothing /\ q # NoQuery
  /\ q.by \in {"status", "typeAndStatus"} => st.status = q.key
  /\ q.by = "token" => st.token = q.key

NoneFound == [s \in Sagas |-> Nothing]

ReadInit ==
  /\ Init
  /\ query = [r \in Readers |-> NoQuery]
  /\ narrowing = [r \in Readers |-> FALSE]
  /\ left = [r \in Readers |-> {}]
  /\ found = [r \in Readers |-> NoneFound]
  /\ steady = [r \in Readers |-> {}]
  /\ kept = [r \in Readers |-> {}]
  /\ matched = [r \in Readers |-> {}]

Answered(r) == query[r] # NoQuery /\ ~ narrowing[r] /\ left[r] = {}

\* A read of q starts: what its first command answers is N, to be read, and F, read at once.
Starts(r, q, N, F) ==
  /\ query[r] = NoQuery \/ Answered(r)
  /\ query' = [query EXCEPT ![r] = q]
  /\ narrowing' = [narrowing EXCEPT ![r] = kind = "redis" /\ q.by = "typeAndStatus"]
  /\ left' = [left EXCEPT ![r] = N]
  /\ found' = [found EXCEPT ![r] = F]
  /\ steady' = [steady EXCEPT ![r] = {s \in Sagas : Busy(s) = {} /\ s \notin torn}]
  /\ kept' = [kept EXCEPT ![r] = {s \in Sagas : records[s] # Nothing}]
  /\ matched' = [matched EXCEPT ![r] = {s \in Sagas : Wants(q, records[s])}]

\* InMemoryStore filters its map and looks a token up in its index; SqlAdapter sends one query.
Selects(q, s) ==
  IF q.by = "token" /\ kind = "memory" THEN tokens[q.key] = s ELSE Wants(q, records[s])

ReadAtOnce(r, q) ==
  /\ kind # "redis"
  /\ Starts(r, q, {}, [s \in Sagas |-> IF Selects(q, s) THEN records[s] ELSE Nothing])

\* RedisAdapter: the index its first command reads.
Index1(q) ==
  {s \in Sagas :
     \/ q.by = "status" /\ s \in byStatus[q.key]
     \/ q.by = "token" /\ tokens[q.key] = s
     \/ q.by = "all" /\ s \in all
     \/ q.by \in {"type", "typeAndStatus"} /\ s \in byType}

ReadIndex(r, q) ==
  /\ kind = "redis"
  /\ Starts(r, q, Index1(q), NoneFound)

\* With both a type and a status, a second SMEMBERS narrows the first.
Narrow(r) ==
  /\ narrowing[r]
  /\ narrowing' = [narrowing EXCEPT ![r] = FALSE]
  /\ left' = [left EXCEPT ![r] = @ \cap byStatus[query[r].key]]
  /\ UNCHANGED <<query, found, past>>

\* One GET for each saga named; one that is gone is passed over, and whatever is there is taken.
Load(r, s) ==
  /\ ~ narrowing[r] /\ s \in left[r]
  /\ left' = [left EXCEPT ![r] = @ \ {s}]
  /\ found' = [found EXCEPT ![r] = [@ EXCEPT ![s] = records[s]]]
  /\ UNCHANGED <<query, narrowing, past>>

Going(r) == query[r] # NoQuery /\ ~ Answered(r)

\* A command fails, and the read with it.
ReadFails(r) ==
  /\ Going(r)
  /\ query' = [query EXCEPT ![r] = NoQuery]
  /\ narrowing' = [narrowing EXCEPT ![r] = FALSE]
  /\ left' = [left EXCEPT ![r] = {}]
  /\ found' = [found EXCEPT ![r] = NoneFound]
  /\ steady' = [steady EXCEPT ![r] = {}]
  /\ kept' = [kept EXCEPT ![r] = {}]
  /\ matched' = [matched EXCEPT ![r] = {}]

\* What the writers do, and what the history of a read makes of it.  The answer of a read that
\* is over has been handed to the caller.
Write ==
  /\ Next
  /\ query' = [r \in Readers |-> IF Going(r) THEN query[r] ELSE NoQuery]
  /\ found' = [r \in Readers |-> IF Going(r) THEN found[r] ELSE NoneFound]
  /\ steady' = [r \in Readers |->
       {s \in steady[r] : Going(r) /\ records'[s] = records[s] /\ Busy(s)' = {} /\ s \notin torn'}]
  /\ kept' = [r \in Readers |-> {s \in kept[r] : Going(r) /\ records'[s] # Nothing}]
  /\ matched' = [r \in Readers |->
       {s \in Sagas : Going(r) /\ (s \in matched[r] \/ Wants(query[r], records'[s]))}]
  /\ UNCHANGED <<narrowing, left>>

Read(r) ==
  /\ \/ \E q \in Queries : ReadAtOnce(r, q) \/ ReadIndex(r, q)
     \/ Narrow(r) \/ ReadFails(r)
     \/ \E s \in Sagas : Load(r, s)
  /\ UNCHANGED vars

ReadNext == Write \/ \E r \in Readers : Read(r)

ReadSpec == ReadInit /\ [][ReadNext]_<<vars, answers, past>>

-----------------------------------------------------------------------------
(* Properties *)

\* A read misses nothing that stood still: a saga that nobody writes while it goes on, and whose
\* last save was not cut off, is found as it is if it is what was asked for.
ReadsComplete ==
  \A r \in Readers : Answered(r) =>
    \A s \in steady[r] : Wants(query[r], records[s]) => found[r][s] = records[s]

\* A read names nothing without reason: a saga that was there all the while it went on is named
\* or found only if it was, at some moment since the read began, what was asked for.  (What is
\* found need not be that any more, see AnswersMatch.)  Excepted is a saga whose indexes
\* once outlived its state, by expiry or an interrupted delete().
ReadsGenuine ==
  \A r \in Readers : ~ narrowing[r] =>
    \A s \in kept[r] \ orphaned :
      s \in left[r] \/ found[r][s] # Nothing => s \in matched[r]

\* list() and findByEventToken() against saves that are going on, in every store: recovery is
\* offered, and signal() given, every saga that stands still and matches, and none that never did.
ReadsAgree == ReadsComplete /\ ReadsGenuine

\* What a reader would expect: every state it is given is what it asked for.  Redis breaks it.
AnswersMatch ==
  \A r \in Readers, s \in Sagas : found[r][s] # Nothing => Wants(query[r], found[r][s])

==================================================================================

-------------------------------- MODULE SagaStores --------------------------------
(***************************************************************************)
(* The three stores of the saga package under concurrent clients.  The one *)
(* in memory answers at once, the SQL one takes a query and a statement,   *)
(* the Redis one a command per key, and a client may be cut off between    *)
(* any two of them.  Its readers are in SagaReads.                         *)
(***************************************************************************)
EXTENDS Integers, SequencesExt

CONSTANTS Clients, Sagas, Statuses,
          TokensOf,        \* the event tokens of each saga
          NoToken,
          Deployments,     \* \subseteq {"memory", "sql", "redis"} \X BOOLEAN: the store, and do
                           \* its callers hold the saga's lock, as executeWithLifecycle() does?
          MaxVersion, MaxFaults     \* bounds

Nobody  == "nobody"

ASSUME StoreAssumption ==
  /\ Nobody \notin Sagas
  /\ Deployments \subseteq {"memory", "sql", "redis"} \X BOOLEAN
  /\ \A s, r \in Sagas : s # r => TokensOf[s] \cap TokensOf[r] = {}
  /\ \A s \in Sagas : NoToken \notin TokensOf[s]
  /\ MaxVersion \in Nat /\ MaxFaults \in Nat

VARIABLES kind, locked,
          records,      \* the states by id: the Map, the table, or the keys saga:state:*
          tokens,       \* the sagas by token: tokenIndex, or the keys of tokenKey()
          all, byStatus, byType,     \* the index sets of Redis
          todo,         \* the commands each client has yet to send
          call,         \* the saga and the state its call is about
          answer,
          \* history
          landed,       \* did the last call write what it should?
          torn,         \* the sagas whose last save or removal was cut off
          orphaned,     \* the sagas whose indexes survived their state
          faults

redis   == <<tokens, all, byStatus, byType>>
clients == <<todo, call, answer, landed>>
history == <<torn, orphaned, faults>>
vars == <<kind, locked, records, redis, clients, history>>

Tokens  == UNION {TokensOf[s] : s \in Sagas}

SagaStates == [version : 1..MaxVersion, status : Statuses, token : Tokens \cup {NoToken}]

Contract == INSTANCE StoreContract

Nothing == Contract!Nothing
NoCall  == [saga |-> Nobody, new |-> Nothing]

Init ==
  /\ \E d \in Deployments : kind = d[1] /\ locked = d[2]
  /\ records = [s \in Sagas |-> Nothing]
  /\ tokens = [t \in Tokens |-> Nobody]
  /\ all = {} /\ byType = {}
  /\ byStatus = [x \in Statuses |-> {}]
  /\ todo = [c \in Clients |-> <<>>]
  /\ call = [c \in Clients |-> NoCall]
  /\ answer = [c \in Clients |-> "none"]
  /\ landed = [c \in Clients |-> FALSE]
  /\ torn = {} /\ orphaned = {} /\ faults = 0

Busy(s) == {c \in Clients : call[c].saga = s}

Answer(c, what) == answer' = [answer EXCEPT ![c] = what]

\* The call is over: nothing is sent any more.
Ends(c, what) ==
  /\ todo' = [todo EXCEPT ![c] = <<>>]
  /\ call' = [call EXCEPT ![c] = NoCall]
  /\ Answer(c, what)

\* A call starts, with its first command; `plan' is left to do.
Calls(c, s, new, plan) ==
  /\ todo[c] = <<>>
  /\ locked => Busy(s) = {}
  /\ call' = [call EXCEPT ![c] = IF plan = <<>> THEN NoCall ELSE [saga |-> s, new |-> new]]
  /\ todo' = [todo EXCEPT ![c] = plan]

-----------------------------------------------------------------------------
(* InMemoryStore, which does not wait *)

MutConflict(prev, new) == prev # Nothing /\ prev.version >= new.version   \* older ones only

Conflict(prev, new) == prev # Nothing /\ prev.version # new.version - 1

MemorySave(c, s, new) ==
  /\ kind = "memory"
  /\ Calls(c, s, new, <<>>)
  /\ IF Conflict(records[s], new)
     THEN /\ Answer(c, "failed")
          /\ landed' = [landed EXCEPT ![c] = FALSE]
          /\ UNCHANGED <<records, tokens>>
     ELSE /\ Answer(c, "ok")
          /\ landed' = [landed EXCEPT ![c] = TRUE]
          /\ records' = [records EXCEPT ![s] = new]
          /\ tokens' = [t \in Tokens |->
                          IF t = new.token THEN s
                          ELSE IF records[s] # Nothing /\ records[s].token = t THEN Nobody
                          ELSE tokens[t]]
  /\ UNCHANGED <<kind, locked, all, byStatus, byType, history>>

MemoryDelete(c, s) ==
  /\ kind = "memory" /\ records[s] # Nothing
  /\ Calls(c, s, Nothing, <<>>)
  /\ Answer(c, "ok")
  /\ landed' = [landed EXCEPT ![c] = TRUE]
  /\ records' = [records EXCEPT ![s] = Nothing]
  /\ tokens' = [t \in Tokens |-> IF records[s].token = t THEN Nobody ELSE tokens[t]]
  /\ UNCHANGED <<kind, locked, all, byStatus, byType, history>>

-----------------------------------------------------------------------------
(* The commands of SqlAdapter and RedisAdapter *)

When(condition, command) == IF condition THEN <<command>> ELSE <<>>

SqlPlan(prev, new) == IF prev = Nothing THEN <<[cmd |-> "INSERT"]>> ELSE <<[cmd |-> "UPDATE"]>>

MutRedisPlan(prev, new) ==     \* the status index is written before the old entry is removed
  <<[cmd |-> "set state"]>> \o When(new.token # NoToken, [cmd |-> "set token"])
  \o <<[cmd |-> "zadd all"], [cmd |-> "sadd status"], [cmd |-> "sadd type"]>>
  \o When(prev # Nothing, [cmd |-> "srem status", status |-> prev.status])

\* save() after its get: each line is an await.
RedisPlan(prev, new) ==
     When(prev # Nothing, [cmd |-> "srem status", status |-> prev.status])
  \o When(prev # Nothing /\ prev.token \notin {NoToken, new.token},
          [cmd |-> "del token", token |-> prev.token])
  \o <<[cmd |-> "set state"]>>
  \o When(new.token # NoToken, [cmd |-> "set token"])
  \o <<[cmd |-> "zadd all"], [cmd |-> "sadd status"], [cmd |-> "sadd type"]>>

RemovalPlan(prev) ==
     When(prev.token # NoToken, [cmd |-> "del token", token |-> prev.token])
  \o <<[cmd |-> "del state"], [cmd |-> "zrem all"],
       [cmd |-> "srem status", status |-> prev.status], [cmd |-> "srem type"]>>

\* delete(); a saga in the table is one row.
SqlRemovalPlan == <<[cmd |-> "DELETE"]>>

\* A version that does not follow is refused on the spot, by both.
Save(c, s, new) ==
  /\ kind # "memory"
  /\ Calls(c, s, new,
           IF Conflict(records[s], new) THEN <<>>
           ELSE IF kind = "sql" THEN SqlPlan(records[s], new) ELSE RedisPlan(records[s], new))
  /\ Answer(c, IF Conflict(records[s], new) THEN "failed" ELSE "none")
  /\ landed' = [landed EXCEPT ![c] = FALSE]
  /\ UNCHANGED <<kind, locked, records, redis, history>>

\* delete() of a saga that is not there changes nothing.
Delete(c, s) ==
  /\ kind # "memory" /\ records[s] # Nothing
  /\ Calls(c, s, Nothing,
           IF kind = "sql" THEN SqlRemovalPlan ELSE RemovalPlan(records[s]))
  /\ Answer(c, "none")
  /\ landed' = [landed EXCEPT ![c] = FALSE]
  /\ UNCHANGED <<kind, locked, records, redis, history>>

-----------------------------------------------------------------------------
(* What a command does *)

Writes(c, s, to) ==
  /\ records' = [records EXCEPT ![s] = to]
  /\ landed' = [landed EXCEPT ![c] = TRUE]
  /\ UNCHANGED redis

MutSqlUpdate(c, s) == Writes(c, s, call[c].new)     \* the WHERE names the id only

\* UPDATE ... WHERE id = s AND version = new.version - 1; nobody looks how many rows it changed.
SqlUpdate(c, s) ==
  IF records[s] # Nothing /\ records[s].version = call[c].new.version - 1
  THEN Writes(c, s, call[c].new)
  ELSE UNCHANGED <<records, landed, redis>>

Token(c, t, s) ==
  /\ tokens' = [tokens EXCEPT ![t] = s]
  /\ UNCHANGED <<records, landed, all, byStatus, byType>>

Index(A, B, S) ==
  /\ all' = A /\ byType' = B /\ byStatus' = S
  /\ UNCHANGED <<records, landed, tokens>>

Executes(c, s, k) ==
  \/ k.cmd = "INSERT" /\ Writes(c, s, call[c].new)
  \/ k.cmd = "UPDATE" /\ SqlUpdate(c, s)
  \/ k.cmd = "DELETE" /\ Writes(c, s, Nothing)
  \/ k.cmd = "set state" /\ Writes(c, s, call[c].new)
  \/ k.cmd = "del state" /\ Writes(c, s, Nothing)
  \/ k.cmd = "set token" /\ Token(c, call[c].new.token, s)
  \/ k.cmd = "del token" /\ Token(c, k.token, Nobody)
  \/ k.cmd = "zadd all" /\ Index(all \cup {s}, byType, byStatus)
  \/ k.cmd = "zrem all" /\ Index(all \ {s}, byType, byStatus)
  \/ k.cmd = "sadd type" /\ Index(all, byType \cup {s}, byStatus)
  \/ k.cmd = "srem type" /\ Index(all, byType \ {s}, byStatus)
  \/ k.cmd = "sadd status" /\ Index(all, byType, [byStatus EXCEPT ![call[c].new.status] = @ \cup {s}])
  \/ k.cmd = "srem status" /\ Index(all, byType, [byStatus EXCEPT ![k.status] = @ \ {s}])

\* The next command is executed; after the last one the call answers.
Command(c) ==
  LET s == call[c].saga
      k == Head(todo[c])
  IN  /\ todo[c] # <<>>
      /\ k.cmd = "INSERT" => records[s] = Nothing
      /\ Executes(c, s, k)
      /\ \/ /\ Len(todo[c]) = 1
            /\ Ends(c, "ok")
            /\ torn' = torn \ {s}
         \/ /\ Len(todo[c]) > 1
            /\ todo' = [todo EXCEPT ![c] = Tail(@)]
            /\ UNCHANGED <<call, answer, torn>>
      /\ UNCHANGED <<kind, locked, orphaned, faults>>

\* An INSERT of an id that is there already.
Duplicate(c) ==
  /\ todo[c] # <<>> /\ Head(todo[c]).cmd = "INSERT" /\ records[call[c].saga] # Nothing
  /\ Ends(c, "failed")
  /\ UNCHANGED <<kind, locked, records, redis, landed, history>>

\* A client stops sending: an error it answers with, or a crash.
CutOff(c) ==
  LET s == call[c].saga
  IN  /\ todo[c] # <<>> /\ faults < MaxFaults
      /\ faults' = faults + 1
      /\ Ends(c, "failed")
      /\ torn' = torn \cup {s}
      /\ orphaned' = IF call[c].new = Nothing THEN orphaned \cup {s} ELSE orphaned
      /\ UNCHANGED <<kind, locked, records, redis, landed>>

\* With ttlSeconds, Redis forgets a state (and its token, which was set later) but no index.
Expire(s) ==
  /\ kind = "redis" /\ records[s] # Nothing /\ faults < MaxFaults
  /\ faults' = faults + 1
  /\ records' = [records EXCEPT ![s] = Nothing]
  /\ \/ tokens' = [t \in Tokens |-> IF t \in TokensOf[s] THEN Nobody ELSE tokens[t]]
     \/ tokens' = tokens
  /\ orphaned' = orphaned \cup {s}
  /\ UNCHANGED <<kind, locked, all, byStatus, byType, clients, torn>>

Next ==
  \/ \E c \in Clients, s \in Sagas :
       \/ \E new \in SagaStates :
            /\ new.token \in TokensOf[s] \cup {NoToken}
            /\ MemorySave(c, s, new) \/ Save(c, s, new)
       \/ MemoryDelete(c, s) \/ Delete(c, s)
  \/ \E c \in Clients : Command(c) \/ Duplicate(c) \/ CutOff(c)
  \/ \E s \in Sagas : Expire(s)

Spec == Init /\ [][Next]_vars

-----------------------------------------------------------------------------
(* Properties *)

\* Each store is a store of versions: no state replaces one it was not computed from.
\* (The one of Redis only under the lock.)
ImplementsContract == Contract!Spec

\* A save or removal that is answered ok has written its state.
\* (Not the SQL one without the lock, which ignores an UPDATE of no row.)
OkMeansWritten ==
  (kind = "sql" => locked) => \A c \in Clients : answer[c] = "ok" => landed[c]

==================================================================================

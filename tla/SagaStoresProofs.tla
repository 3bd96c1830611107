---------------------------- MODULE SagaStoresProofs ----------------------------
(***************************************************************************)
(* The stores of SagaStores implement StoreContract, an answered save is   *)
(* written, and a saga is found by what it is and by nothing else, for any *)
(* clients, sagas, statuses, tokens and faults.                            *)
(***************************************************************************)
EXTENDS SagaReads, SequenceTheorems, TLAPS

CommandNames ==
  {"INSERT", "UPDATE", "DELETE", "set state", "del state", "set token", "del token",
   "zadd all", "zrem all", "sadd status", "srem status", "sadd type", "srem type"}

Commands ==
  [cmd : CommandNames] \cup [cmd : CommandNames, status : Statuses]
  \cup [cmd : CommandNames, token : Tokens \cup {NoToken}]

SqlCommands == {[cmd |-> "INSERT"], [cmd |-> "UPDATE"], [cmd |-> "DELETE"]}

\* The commands of Redis that write the state itself.
Writers == {"set state", "del state"}

HasWriter(plan) == \E i \in 1..Len(plan) : plan[i].cmd \in Writers

\* new was computed from old, or is there already, or old is gone.
Follows(old, new) ==
  new # Nothing => old \in {Nothing, new} \/ old.version = new.version - 1

InCall(c) == todo[c] # <<>>

Types ==
  /\ kind \in {"memory", "sql", "redis"} /\ locked \in BOOLEAN /\ <<kind, locked>> \in Deployments
  /\ records \in Contract!Stored
  /\ todo \in [Clients -> Seq(Commands)]
  /\ call \in [Clients -> [saga : Sagas \cup {Nobody}, new : SagaStates \cup {Nothing}]]
  /\ landed \in [Clients -> BOOLEAN]
  /\ answer \in [Clients -> {"none", "ok", "failed"}]

\* Under the lock, the calls about one saga follow each other.
OneCall ==
  locked => \A c, d \in Clients : InCall(c) /\ InCall(d) /\ call[c].saga = call[d].saga => c = d

\* What a call will write still follows from what is there.
CallOK(c) ==
  InCall(c) =>
    /\ call[c].saga \in Sagas
    /\ kind = "sql" => Len(todo[c]) = 1 /\ todo[c][1] \in SqlCommands
    /\ kind = "redis" /\ locked => Follows(records[call[c].saga], call[c].new)

StoreInv ==
  /\ Types /\ OneCall
  /\ kind = "memory" => \A c \in Clients : ~ InCall(c)
  /\ \A c \in Clients : CallOK(c)

-----------------------------------------------------------------------------
(* The plans *)

LEMMA WritersStay ==
  ASSUME NEW p \in Seq(Commands), NEW q \in Seq(Commands)
  PROVE  /\ p \o q \in Seq(Commands)
         /\ HasWriter(p) \/ HasWriter(q) => HasWriter(p \o q)
PROOF
  <1>1. /\ p \o q \in Seq(Commands) /\ Len(p \o q) = Len(p) + Len(q)
        /\ \A i \in 1..(Len(p) + Len(q)) :
             (p \o q)[i] = IF i <= Len(p) THEN p[i] ELSE q[i - Len(p)]
    BY ConcatProperties
  <1>2. Len(p) \in Nat /\ Len(q) \in Nat
    OBVIOUS
  <1>3. ASSUME HasWriter(p)
        PROVE  HasWriter(p \o q)
    <2>1. PICK i \in 1..Len(p) : p[i].cmd \in Writers
      BY <1>3 DEF HasWriter
    <2>2. i \in 1..(Len(p) + Len(q)) /\ (p \o q)[i] = p[i]
      BY <1>1, <1>2
    <2> QED BY <1>1, <2>1, <2>2 DEF HasWriter
  <1>4. ASSUME HasWriter(q)
        PROVE  HasWriter(p \o q)
    <2>1. PICK i \in 1..Len(q) : q[i].cmd \in Writers
      BY <1>4 DEF HasWriter
    <2>2. /\ i + Len(p) \in 1..(Len(p) + Len(q)) /\ ~ (i + Len(p) <= Len(p))
          /\ i + Len(p) - Len(p) = i
      BY <1>2
    <2>3. (p \o q)[i + Len(p)] = q[i]
      BY <1>1, <2>2
    <2> QED BY <1>1, <2>1, <2>2, <2>3 DEF HasWriter
  <1> QED BY <1>1, <1>3, <1>4

LEMMA OneCommand ==
  ASSUME NEW k \in Commands
  PROVE  /\ <<k>> \in Seq(Commands)
         /\ k.cmd \in Writers => HasWriter(<<k>>)
PROOF
  BY DEF HasWriter

LEMMA SomeCommands ==
  ASSUME NEW k \in Commands, NEW l \in Commands, NEW m \in Commands, NEW n \in Commands
  PROVE  /\ <<k, l, m>> \in Seq(Commands)
         /\ <<k, l, m, n>> \in Seq(Commands)
         /\ k.cmd \in Writers => HasWriter(<<k, l, m, n>>)
PROOF
  <1>1. 1 \in 1..Len(<<k, l, m, n>>) /\ <<k, l, m, n>>[1] = k
    OBVIOUS
  <1> QED BY <1>1 DEF HasWriter

LEMMA Conditional ==
  ASSUME NEW condition \in BOOLEAN, NEW k, condition => k \in Commands
  PROVE  When(condition, k) \in Seq(Commands)
PROOF
  <1>1. CASE condition
    BY <1>1 DEF When
  <1>2. CASE ~condition
    BY <1>2 DEF When
  <1> QED BY <1>1, <1>2

LEMMA KnownCommands ==
  /\ \A x \in {"set state", "set token", "zadd all", "sadd status", "sadd type", "del state",
               "zrem all", "srem type", "INSERT", "UPDATE", "DELETE"} : [cmd |-> x] \in Commands
  /\ \A x \in Statuses : [cmd |-> "srem status", status |-> x] \in Commands
  /\ \A t \in Tokens \cup {NoToken} : [cmd |-> "del token", token |-> t] \in Commands
PROOF
  BY DEF Commands, CommandNames

\* What a store may hold, and its parts the plans look at.
LEMMA StateParts ==
  ASSUME NEW st \in SagaStates \cup {Nothing}
  PROVE  /\ st # Nothing => /\ st \in SagaStates /\ st.status \in Statuses
                            /\ st.token \in Tokens \cup {NoToken}
         /\ st.version \in Nat
PROOF
  BY StoreAssumption DEF SagaStates, Nothing, Contract!Nothing

LEMMA RedisPlanFacts ==
  ASSUME NEW prev \in SagaStates \cup {Nothing}, NEW new \in SagaStates
  PROVE  RedisPlan(prev, new) \in Seq(Commands) /\ HasWriter(RedisPlan(prev, new))
PROOF
  <1> DEFINE a == When(prev # Nothing, [cmd |-> "srem status", status |-> prev.status])
             b == When(prev # Nothing /\ prev.token \notin {NoToken, new.token},
                       [cmd |-> "del token", token |-> prev.token])
             d == <<[cmd |-> "set state"]>>
             e == When(new.token # NoToken, [cmd |-> "set token"])
             f == <<[cmd |-> "zadd all"], [cmd |-> "sadd status"], [cmd |-> "sadd type"]>>
  <1>1. RedisPlan(prev, new) = (((a \o b) \o d) \o e) \o f
    BY DEF RedisPlan
  <1>2. a \in Seq(Commands)
    BY KnownCommands, StateParts, Conditional
  <1>3. b \in Seq(Commands)
    BY KnownCommands, StateParts, Conditional
  <1>4. e \in Seq(Commands)
    BY KnownCommands, Conditional
  <1>5. [cmd |-> "set state"] \in Commands
    BY KnownCommands
  <1>6. d \in Seq(Commands) /\ HasWriter(d)
    <2>1. [cmd |-> "set state"].cmd \in Writers
      BY DEF Writers
    <2> QED BY <1>5, <2>1, OneCommand
  <1>7. f \in Seq(Commands)
    <2>1. /\ [cmd |-> "zadd all"] \in Commands /\ [cmd |-> "sadd status"] \in Commands
          /\ [cmd |-> "sadd type"] \in Commands
      BY KnownCommands
    <2> QED BY <2>1, SomeCommands
  <1> HIDE DEF a, b, d, e, f
  <1>8. a \o b \in Seq(Commands)
    BY <1>2, <1>3, WritersStay
  <1>9. (a \o b) \o d \in Seq(Commands) /\ HasWriter((a \o b) \o d)
    BY <1>6, <1>8, WritersStay
  <1>10. ((a \o b) \o d) \o e \in Seq(Commands) /\ HasWriter(((a \o b) \o d) \o e)
    BY <1>4, <1>9, WritersStay
  <1>11. /\ (((a \o b) \o d) \o e) \o f \in Seq(Commands)
         /\ HasWriter((((a \o b) \o d) \o e) \o f)
    BY <1>7, <1>10, WritersStay
  <1> QED BY <1>1, <1>11

LEMMA RemovalPlanFacts ==
  ASSUME NEW prev \in SagaStates
  PROVE  RemovalPlan(prev) \in Seq(Commands) /\ HasWriter(RemovalPlan(prev))
PROOF
  <1> DEFINE a == When(prev.token # NoToken, [cmd |-> "del token", token |-> prev.token])
             b == <<[cmd |-> "del state"], [cmd |-> "zrem all"],
                    [cmd |-> "srem status", status |-> prev.status], [cmd |-> "srem type"]>>
  <1>1. RemovalPlan(prev) = a \o b
    BY DEF RemovalPlan
  <1>2. prev.status \in Statuses /\ prev.token \in Tokens \cup {NoToken}
    BY DEF SagaStates
  <1>3. a \in Seq(Commands)
    BY <1>2, KnownCommands, Conditional
  <1>4. b \in Seq(Commands) /\ HasWriter(b)
    <2>1. /\ [cmd |-> "del state"] \in Commands /\ [cmd |-> "zrem all"] \in Commands
          /\ [cmd |-> "srem status", status |-> prev.status] \in Commands
          /\ [cmd |-> "srem type"] \in Commands
      BY <1>2, KnownCommands
    <2>2. [cmd |-> "del state"].cmd \in Writers
      BY DEF Writers
    <2> QED BY <2>1, <2>2, SomeCommands
  <1> HIDE DEF a, b
  <1> QED BY <1>1, <1>3, <1>4, WritersStay

LEMMA SqlPlanFacts ==
  ASSUME NEW prev \in SagaStates \cup {Nothing}, NEW new \in SagaStates,
         NEW plan \in {SqlPlan(prev, new), SqlRemovalPlan}
  PROVE  /\ plan \in Seq(Commands)
         /\ Len(plan) = 1 /\ plan[1] \in SqlCommands
         /\ plan[1].cmd = "UPDATE" => prev # Nothing
PROOF
  <1>1. PICK k \in SqlCommands : plan = <<k>> /\ (k.cmd = "UPDATE" => prev # Nothing)
    <2>1. CASE plan = SqlRemovalPlan
      BY <2>1 DEF SqlRemovalPlan, SqlCommands
    <2>2. CASE plan = SqlPlan(prev, new) /\ prev = Nothing
      BY <2>2 DEF SqlPlan, SqlCommands
    <2>3. CASE plan = SqlPlan(prev, new) /\ prev # Nothing
      BY <2>3 DEF SqlPlan, SqlCommands
    <2> QED BY <2>1, <2>2, <2>3
  <1>2. SqlCommands \subseteq Commands
    BY KnownCommands, Zenon DEF SqlCommands
  <1>3. Len(plan) = 1 /\ plan[1] = k
    BY <1>1
  <1> QED BY <1>1, <1>2, <1>3, OneCommand

-----------------------------------------------------------------------------
(* A call starts, or ends *)

LEMMA Known ==
  ASSUME StoreInv, NEW c \in Clients
  PROVE  /\ todo[c] \in Seq(Commands) /\ landed[c] \in BOOLEAN
         /\ call[c].saga \in Sagas \cup {Nobody} /\ call[c].new \in SagaStates \cup {Nothing}
         /\ records \in [Sagas -> SagaStates \cup {Nothing}]
         /\ CallOK(c) /\ kind \in {"memory", "sql", "redis"}
         /\ kind = "memory" => ~ InCall(c)
PROOF
  BY DEF StoreInv, Types, Contract!Stored, Nothing

\* A call with nothing left to do.
LEMMA NothingLeft ==
  /\ <<>> \in Seq(Commands)
  /\ NoCall \in [saga : Sagas \cup {Nobody}, new : SagaStates \cup {Nothing}]
PROOF
  BY DEF NoCall

LEMMA CallStarts ==
  ASSUME StoreInv, NEW c \in Clients, NEW s \in Sagas, NEW new \in SagaStates \cup {Nothing},
         NEW plan \in Seq(Commands), Calls(c, s, new, plan),
         UNCHANGED <<kind, locked, records>>,
         landed' \in [Clients -> BOOLEAN], answer' \in [Clients -> {"none", "ok", "failed"}],
         kind = "memory" => plan = <<>>,
         kind = "sql" /\ plan # <<>> => Len(plan) = 1 /\ plan[1] \in SqlCommands,
         plan # <<>> => Follows(records[s], new)
  PROVE  StoreInv'
PROOF
  <1>1. /\ todo[c] = <<>> /\ todo' = [todo EXCEPT ![c] = plan] /\ (locked => Busy(s) = {})
        /\ call' = [call EXCEPT ![c] = IF plan = <<>> THEN NoCall ELSE [saga |-> s, new |-> new]]
    BY DEF Calls
  <1> DEFINE about == IF plan = <<>> THEN NoCall ELSE [saga |-> s, new |-> new]
  <1>2. about \in [saga : Sagas \cup {Nobody}, new : SagaStates \cup {Nothing}]
    BY NothingLeft
  <1>3. plan # <<>> => about.saga = s /\ about.new = new
    OBVIOUS
  <1>4. call' = [call EXCEPT ![c] = about]
    BY <1>1
  <1> HIDE DEF about
  <1>5. /\ todo \in [Clients -> Seq(Commands)]
        /\ call \in [Clients -> [saga : Sagas \cup {Nobody}, new : SagaStates \cup {Nothing}]]
    BY DEF StoreInv, Types
  <1>6. /\ todo' \in [Clients -> Seq(Commands)]
        /\ call' \in [Clients -> [saga : Sagas \cup {Nobody}, new : SagaStates \cup {Nothing}]]
        /\ todo'[c] = plan /\ call'[c] = about
        /\ \A d \in Clients \ {c} : todo'[d] = todo[d] /\ call'[d] = call[d]
    BY <1>1, <1>2, <1>4, <1>5
  <1>7. Types'
    BY <1>6 DEF StoreInv, Types
  <1>8. OneCall'
    <2>1. ASSUME locked, NEW d \in Clients, d # c, plan # <<>>
          PROVE  call'[d].saga # call'[c].saga
      BY <1>1, <1>3, <1>6, <2>1 DEF Busy
    <2> QED BY <1>6, <2>1 DEF OneCall, StoreInv, InCall
  <1>9. (kind = "memory" => \A d \in Clients : ~ InCall(d))'
    BY <1>6 DEF StoreInv, InCall
  <1>10. ASSUME NEW d \in Clients
         PROVE  CallOK(d)'
    <2>1. CASE d = c
      BY <1>3, <1>6, <2>1 DEF CallOK, InCall
    <2>2. CASE d # c
      BY <1>6, <2>2 DEF StoreInv, CallOK, InCall
    <2> QED BY <2>1, <2>2
  <1> QED BY <1>7, <1>8, <1>9, <1>10 DEF StoreInv

\* A call ends, whatever it has done to the records of its saga.
LEMMA CallEnds ==
  ASSUME StoreInv, NEW c \in Clients, todo' = [todo EXCEPT ![c] = <<>>], call' = [call EXCEPT ![c] = NoCall],
         UNCHANGED <<kind, locked>>, records' \in Contract!Stored,
         landed' \in [Clients -> BOOLEAN], answer' \in [Clients -> {"none", "ok", "failed"}],
         \A d \in Clients \ {c} : kind = "redis" /\ locked /\ InCall(d) =>
            records'[call[d].saga] = records[call[d].saga]
  PROVE  StoreInv'
PROOF
  <1>1. /\ todo \in [Clients -> Seq(Commands)]
        /\ call \in [Clients -> [saga : Sagas \cup {Nobody}, new : SagaStates \cup {Nothing}]]
    BY DEF StoreInv, Types
  <1>2. /\ todo' \in [Clients -> Seq(Commands)]
        /\ call' \in [Clients -> [saga : Sagas \cup {Nobody}, new : SagaStates \cup {Nothing}]]
        /\ todo'[c] = <<>>
        /\ \A d \in Clients \ {c} : todo'[d] = todo[d] /\ call'[d] = call[d]
    BY <1>1, NothingLeft
  <1>3. Types'
    BY <1>2 DEF StoreInv, Types
  <1>4. OneCall'
    BY <1>2 DEF OneCall, StoreInv, InCall
  <1>5. (kind = "memory" => \A d \in Clients : ~ InCall(d))'
    BY <1>2 DEF StoreInv, InCall
  <1>6. ASSUME NEW d \in Clients
        PROVE  CallOK(d)'
    <2>1. CASE d = c
      BY <1>2, <2>1 DEF CallOK, InCall
    <2>2. CASE d # c
      BY <1>2, <2>2 DEF StoreInv, CallOK, InCall
    <2> QED BY <2>1, <2>2
  <1> QED BY <1>3, <1>4, <1>5, <1>6 DEF StoreInv

-----------------------------------------------------------------------------
(* The steps, and what they are for the contract *)

\* RedisAdapter keeps the contract only for callers that hold the saga's lock.
RedisIsLocked == <<"redis", FALSE>> \notin Deployments

Refines == Contract!Next \/ UNCHANGED records

LEMMA RedisLocked ==
  ASSUME RedisIsLocked, StoreInv, kind = "redis"
  PROVE  locked
PROOF
  BY DEF RedisIsLocked, StoreInv, Types

\* A record that is removed, or replaced by one that follows it, is one step of the contract.
LEMMA ContractStep ==
  ASSUME records \in Contract!Stored, NEW s \in Sagas, NEW to \in SagaStates \cup {Nothing},
         records' = [records EXCEPT ![s] = to], Follows(records[s], to)
  PROVE  Refines
PROOF
  <1>1. records \in [Sagas -> SagaStates \cup {Nothing}] /\ Nothing = Contract!Nothing
    BY DEF Contract!Stored, Nothing
  <1>2. CASE records[s] = to
    <2>1. records' = records
      BY <1>1, <1>2
    <2> QED BY <2>1 DEF Refines
  <1>3. CASE to = Nothing /\ records[s] # Nothing
    <2>1. Contract!Remove(s)
      BY <1>1, <1>3 DEF Contract!Remove
    <2> QED BY <2>1 DEF Refines, Contract!Next
  <1>4. CASE to # Nothing /\ records[s] = Nothing
    <2>1. Contract!Create(s, to) /\ to \in SagaStates
      BY <1>1, <1>4 DEF Contract!Create
    <2> QED BY <2>1 DEF Refines, Contract!Next
  <1>5. CASE to # Nothing /\ records[s] \notin {Nothing, to}
    <2>1. to \in SagaStates /\ records[s] \in SagaStates /\ records[s].version = to.version - 1
      BY <1>1, <1>5 DEF Follows
    <2>2. to.version = records[s].version + 1
      BY <2>1, StoreAssumption DEF SagaStates
    <2>3. Contract!Advance(s, to)
      BY <1>1, <1>5, <2>2 DEF Contract!Advance
    <2> QED BY <2>1, <2>3 DEF Refines, Contract!Next
  <1> QED BY <1>2, <1>3, <1>4, <1>5

LEMMA NoConflictFollows ==
  ASSUME StoreInv, NEW s \in Sagas, NEW new \in SagaStates, ~ Conflict(records[s], new)
  PROVE  Follows(records[s], new)
PROOF
  BY DEF Conflict, Follows

LEMMA MemoryStep ==
  ASSUME StoreInv, NEW c \in Clients, NEW s \in Sagas,
         \/ \E new \in SagaStates : MemorySave(c, s, new)
         \/ MemoryDelete(c, s)
  PROVE  StoreInv' /\ Refines
PROOF
  <1>1. /\ kind = "memory" /\ UNCHANGED <<kind, locked>>
        /\ todo' = [todo EXCEPT ![c] = <<>>] /\ call' = [call EXCEPT ![c] = NoCall]
        /\ answer' = [answer EXCEPT ![c] = "ok"] \/ answer' = [answer EXCEPT ![c] = "failed"]
        /\ landed' = [landed EXCEPT ![c] = TRUE] \/ landed' = [landed EXCEPT ![c] = FALSE]
    BY DEF MemorySave, MemoryDelete, Calls, Answer
  <1>2. /\ answer \in [Clients -> {"none", "ok", "failed"}] /\ landed \in [Clients -> BOOLEAN]
        /\ records \in Contract!Stored
    BY DEF StoreInv, Types
  <1>3. answer' \in [Clients -> {"none", "ok", "failed"}]
    BY <1>1, <1>2
  <1>4. landed' \in [Clients -> BOOLEAN]
    BY <1>1, <1>2
  <1>5. \/ records' = records
        \/ \E to \in SagaStates \cup {Nothing} :
             records' = [records EXCEPT ![s] = to] /\ Follows(records[s], to)
    BY NoConflictFollows DEF MemorySave, MemoryDelete, Follows
  <1>6. records' \in Contract!Stored
    BY <1>2, <1>5 DEF Contract!Stored, Nothing
  <1>7. StoreInv'
    BY <1>1, <1>3, <1>4, <1>6, CallEnds
  <1>8. Refines
    BY <1>2, <1>5, ContractStep DEF Refines
  <1> QED BY <1>7, <1>8

LEMMA SaveStep ==
  ASSUME StoreInv, NEW c \in Clients, NEW s \in Sagas, NEW new \in SagaStates, Save(c, s, new)
  PROVE  StoreInv' /\ UNCHANGED records
PROOF
  <1> DEFINE plan == IF Conflict(records[s], new) THEN <<>>
                     ELSE IF kind = "sql" THEN SqlPlan(records[s], new)
                     ELSE RedisPlan(records[s], new)
  <1>1. /\ kind # "memory" /\ Calls(c, s, new, plan) /\ UNCHANGED <<kind, locked, records>>
        /\ answer' = [answer EXCEPT ![c] = "failed"] \/ answer' = [answer EXCEPT ![c] = "none"]
        /\ landed' = [landed EXCEPT ![c] = FALSE]
    BY DEF Save, Answer
  <1>2. records[s] \in SagaStates \cup {Nothing}
    BY Known
  <1>3. /\ plan \in Seq(Commands)
        /\ kind = "sql" /\ plan # <<>> => Len(plan) = 1 /\ plan[1] \in SqlCommands
        /\ plan # <<>> => Follows(records[s], new)
    <2>1. CASE Conflict(records[s], new)
      BY <2>1
    <2>2. CASE ~ Conflict(records[s], new) /\ kind = "sql"
      BY <1>2, <2>2, SqlPlanFacts, NoConflictFollows
    <2>3. CASE ~ Conflict(records[s], new) /\ kind # "sql"
      BY <1>2, <2>3, RedisPlanFacts, NoConflictFollows
    <2> QED BY <2>1, <2>2, <2>3
  <1> HIDE DEF plan
  <1>4. answer' \in [Clients -> {"none", "ok", "failed"}] /\ landed' \in [Clients -> BOOLEAN]
    BY <1>1 DEF StoreInv, Types
  <1> QED BY <1>1, <1>3, <1>4, CallStarts

LEMMA DeleteStep ==
  ASSUME StoreInv, NEW c \in Clients, NEW s \in Sagas, Delete(c, s)
  PROVE  StoreInv' /\ UNCHANGED records
PROOF
  <1> DEFINE plan == IF kind = "sql" THEN SqlRemovalPlan ELSE RemovalPlan(records[s])
  <1>1. /\ kind # "memory" /\ records[s] # Nothing
        /\ Calls(c, s, Nothing, plan) /\ UNCHANGED <<kind, locked, records>>
        /\ answer' = [answer EXCEPT ![c] = "none"] /\ landed' = [landed EXCEPT ![c] = FALSE]
    BY DEF Delete, Answer
  <1>2. records[s] \in SagaStates
    BY <1>1, Known
  <1>3. /\ plan \in Seq(Commands)
        /\ kind = "sql" => Len(plan) = 1 /\ plan[1] \in SqlCommands
    BY <1>2, SqlPlanFacts, RemovalPlanFacts
  <1> HIDE DEF plan
  <1>4. answer' \in [Clients -> {"none", "ok", "failed"}] /\ landed' \in [Clients -> BOOLEAN]
    BY <1>1 DEF StoreInv, Types
  <1>5. Follows(records[s], Nothing)
    BY DEF Follows
  <1> QED BY <1>1, <1>3, <1>4, <1>5, CallStarts

\* A command writes the state of its saga, or none.
LEMMA CommandWrites ==
  ASSUME StoreInv, NEW c \in Clients, Command(c)
  PROVE  /\ InCall(c) /\ call[c].saga \in Sagas
         /\ \/ records' = records /\ landed' = landed
            \/ \E to \in {call[c].new, Nothing} :
                 records' = [records EXCEPT ![call[c].saga] = to] /\ landed' = [landed EXCEPT ![c] = TRUE]
PROOF
  <1> DEFINE s == call[c].saga
             k == Head(todo[c])
  <1>1. InCall(c) /\ Executes(c, s, k)
    BY DEF Command, InCall
  <1>2. s \in Sagas
    BY <1>1, Known DEF CallOK
  <1> HIDE DEF s, k
  <1>3. \/ records' = records /\ landed' = landed
        \/ \E to \in {call[c].new, Nothing} :
             records' = [records EXCEPT ![s] = to] /\ landed' = [landed EXCEPT ![c] = TRUE]
    BY <1>1 DEF Executes, Writes, SqlUpdate, Token, Index
  <1> QED BY <1>1, <1>2, <1>3 DEF s

LEMMA CommandFollows ==
  ASSUME RedisIsLocked, StoreInv, NEW c \in Clients, Command(c)
  PROVE  \/ records' = records
         \/ \E to \in SagaStates \cup {Nothing} :
              records' = [records EXCEPT ![call[c].saga] = to] /\ Follows(records[call[c].saga], to)
PROOF
  <1> DEFINE s == call[c].saga
             k == Head(todo[c])
             new == call[c].new
  <1>1. InCall(c) /\ Executes(c, s, k) /\ (k.cmd = "INSERT" => records[s] = Nothing)
    BY DEF Command, InCall
  <1>2. /\ new \in SagaStates \cup {Nothing} /\ kind \in {"sql", "redis"}
        /\ kind = "sql" => todo[c][1] \in SqlCommands
        /\ kind = "redis" => Follows(records[s], new)
    BY <1>1, Known, RedisLocked DEF CallOK
  <1>3. kind = "sql" => k.cmd # "set state"
    <2>1. k = todo[c][1]
      BY <1>1, Known DEF InCall
    <2>2. ASSUME kind = "sql"
          PROVE  k.cmd # "set state"
      <3>1. PICK x \in {"INSERT", "UPDATE", "DELETE"} : todo[c][1] = [cmd |-> x]
        BY <1>2, <2>2 DEF SqlCommands
      <3>2. k = [cmd |-> x]
        BY <2>1, <3>1
      <3> HIDE DEF k
      <3> QED BY <3>1, <3>2
    <2> QED BY <2>2
  <1>4. Follows(records[s], Nothing)
    BY DEF Follows
  <1> HIDE DEF k
  <1>5. CASE k.cmd = "INSERT" /\ Writes(c, s, new)
    BY <1>1, <1>2, <1>5 DEF Writes, Follows
  <1>6. CASE k.cmd = "UPDATE" /\ SqlUpdate(c, s)
    <2>1. CASE records[s] # Nothing /\ records[s].version = new.version - 1
      <3>1. records' = [records EXCEPT ![s] = new] /\ Follows(records[s], new)
        BY <1>6, <2>1 DEF SqlUpdate, Writes, Follows
      <3> QED BY <1>2, <3>1
    <2>2. CASE ~ (records[s] # Nothing /\ records[s].version = new.version - 1)
      BY <1>6, <2>2 DEF SqlUpdate
    <2> QED BY <2>1, <2>2
  <1>7. CASE k.cmd = "set state" /\ Writes(c, s, new)
    BY <1>2, <1>3, <1>7 DEF Writes
  <1>8. CASE Writes(c, s, Nothing)
    BY <1>4, <1>8 DEF Writes
  <1>9. CASE UNCHANGED records
    BY <1>9
  <1>10. \/ k.cmd = "INSERT" /\ Writes(c, s, new)
         \/ k.cmd = "UPDATE" /\ SqlUpdate(c, s)
         \/ k.cmd = "set state" /\ Writes(c, s, new)
         \/ Writes(c, s, Nothing)
         \/ UNCHANGED records
    BY <1>1 DEF Executes, Token, Index
  <1> QED BY <1>5, <1>6, <1>7, <1>8, <1>9, <1>10

LEMMA CommandStep ==
  ASSUME StoreInv, NEW c \in Clients, Command(c)
  PROVE  StoreInv'
PROOF
  <1> DEFINE s == call[c].saga
  <1>1. /\ InCall(c) /\ s \in Sagas
        /\ \/ records' = records /\ landed' = landed
           \/ \E to \in {call[c].new, Nothing} :
                records' = [records EXCEPT ![s] = to] /\ landed' = [landed EXCEPT ![c] = TRUE]
    BY CommandWrites
  <1>2. /\ todo \in [Clients -> Seq(Commands)]
        /\ call \in [Clients -> [saga : Sagas \cup {Nobody}, new : SagaStates \cup {Nothing}]]
        /\ landed \in [Clients -> BOOLEAN] /\ answer \in [Clients -> {"none", "ok", "failed"}]
        /\ call[c].new \in SagaStates \cup {Nothing}
        /\ records \in [Sagas -> SagaStates \cup {Nothing}]
        /\ Contract!Stored = [Sagas -> SagaStates \cup {Nothing}]
    BY Known DEF StoreInv, Types, Contract!Stored, Nothing
  <1>3. /\ landed' \in [Clients -> BOOLEAN] /\ records' \in Contract!Stored
        /\ \A r \in Sagas \ {s} : records'[r] = records[r]
        /\ records'[s] \in {records[s], call[c].new, Nothing}
    BY <1>1, <1>2
  <1>4. ASSUME NEW d \in Clients \ {c}, kind = "redis", locked, InCall(d)
        PROVE  records'[call[d].saga] = records[call[d].saga]
    <2>1. call[d].saga # s
      BY <1>1, <1>4 DEF StoreInv, OneCall
    <2>2. call[d].saga \in Sagas
      BY <1>4, Known DEF CallOK
    <2> QED BY <1>3, <2>1, <2>2
  <1>5. UNCHANGED <<kind, locked>>
    BY DEF Command
  <1>6. CASE Ends(c, "ok")
    <2>1. /\ todo' = [todo EXCEPT ![c] = <<>>] /\ call' = [call EXCEPT ![c] = NoCall]
          /\ answer' \in [Clients -> {"none", "ok", "failed"}]
      BY <1>2, <1>6 DEF Ends, Answer
    <2> QED BY <1>3, <1>4, <1>5, <2>1, CallEnds
  <1>7. CASE /\ Len(todo[c]) > 1 /\ todo' = [todo EXCEPT ![c] = Tail(todo[c])]
             /\ UNCHANGED <<call, answer>>
    <2>1. Tail(todo[c]) \in Seq(Commands)
      BY <1>1, <1>2 DEF InCall
    <2>2. /\ todo' \in [Clients -> Seq(Commands)]
          /\ \A d \in Clients \ {c} : todo'[d] = todo[d]
      BY <1>2, <1>7, <2>1
    <2>3. Types'
      BY <1>3, <1>5, <1>7, <2>2 DEF StoreInv, Types
    <2>4. OneCall'
      BY <1>1, <1>5, <1>7, <2>2 DEF StoreInv, OneCall, InCall
    <2>5. (kind = "memory" => \A d \in Clients : ~ InCall(d))'
      BY <1>1, <1>5 DEF StoreInv
    <2>6. ASSUME NEW d \in Clients
          PROVE  CallOK(d)'
      <3>1. CASE d = c
        <4>1. kind # "sql"
          <5>1. InCall(c) /\ CallOK(c)
            BY <1>1, Known
          <5>2. kind = "sql" => Len(todo[c]) = 1
            BY <5>1 DEF CallOK
          <5>3. Len(todo[c]) \in Nat /\ Len(todo[c]) > 1
            BY <1>2, <1>7
          <5>4. \A n \in Nat : n > 1 => n # 1
            OBVIOUS
          <5> QED BY <5>2, <5>3, <5>4, Zenon
        <4>2. kind = "redis" /\ locked => Follows(records'[s], call[c].new)
          <5>1. kind = "redis" /\ locked => Follows(records[s], call[c].new)
            BY <1>1, Known DEF CallOK
          <5> QED BY <1>3, <5>1 DEF Follows
        <4>3. call' = call /\ kind' = kind /\ locked' = locked
          BY <1>5, <1>7
        <4> QED BY <1>1, <3>1, <4>1, <4>2, <4>3 DEF CallOK
      <3>2. CASE d # c
        BY <1>4, <1>5, <1>7, <2>2, <3>2 DEF StoreInv, CallOK, InCall
      <3> QED BY <3>1, <3>2
    <2> QED BY <2>3, <2>4, <2>5, <2>6 DEF StoreInv
  <1> QED BY <1>6, <1>7 DEF Command

LEMMA GivesUpStep ==
  ASSUME StoreInv, NEW c \in Clients, Duplicate(c) \/ CutOff(c)
  PROVE  StoreInv' /\ UNCHANGED records
PROOF
  <1>1. /\ todo' = [todo EXCEPT ![c] = <<>>] /\ call' = [call EXCEPT ![c] = NoCall]
        /\ answer' = [answer EXCEPT ![c] = "failed"] /\ UNCHANGED <<kind, locked, records, landed>>
    BY DEF Duplicate, CutOff, Ends, Answer
  <1>2. /\ answer' \in [Clients -> {"none", "ok", "failed"}]
        /\ landed' \in [Clients -> BOOLEAN] /\ records' \in Contract!Stored
    BY <1>1 DEF StoreInv, Types
  <1> QED BY <1>1, <1>2, CallEnds

LEMMA ExpireStep ==
  ASSUME StoreInv, NEW s \in Sagas, Expire(s)
  PROVE  StoreInv' /\ Refines
PROOF
  <1>1. /\ records' = [records EXCEPT ![s] = Nothing]
        /\ UNCHANGED <<kind, locked, todo, call, answer, landed>>
    BY DEF Expire, clients
  <1>2. /\ records \in [Sagas -> SagaStates \cup {Nothing}]
        /\ Contract!Stored = [Sagas -> SagaStates \cup {Nothing}]
    BY DEF StoreInv, Types, Contract!Stored, Nothing
  <1>3. records' \in Contract!Stored /\ \A r \in Sagas : records'[r] \in {records[r], Nothing}
    BY <1>1, <1>2
  <1>4. Types' /\ OneCall'
    BY <1>1, <1>3 DEF StoreInv, Types, OneCall, InCall
  <1>5. ASSUME NEW c \in Clients
        PROVE  CallOK(c)'
    BY <1>1, <1>3 DEF StoreInv, CallOK, InCall, Follows
  <1>6. StoreInv'
    BY <1>1, <1>4, <1>5 DEF StoreInv, InCall
  <1>7. Refines
    BY <1>1, <1>2, ContractStep DEF Follows
  <1> QED BY <1>6, <1>7

-----------------------------------------------------------------------------
(* The refinement *)

LEMMA StoreInit ==
  ASSUME Init
  PROVE  StoreInv /\ Contract!Init
PROOF
  <1>1. PICK d \in Deployments : kind = d[1] /\ locked = d[2]
    BY DEF Init
  <1>2. d = <<kind, locked>> /\ kind \in {"memory", "sql", "redis"} /\ locked \in BOOLEAN
    BY <1>1, StoreAssumption
  <1>3. records \in Contract!Stored
    BY DEF Init, Contract!Stored, Nothing
  <1>4. Types
    BY <1>2, <1>3, NothingLeft DEF Init, Types
  <1>5. \A c \in Clients : ~ InCall(c)
    BY DEF Init, InCall
  <1>6. Contract!Init
    BY DEF Init, Contract!Init, Nothing
  <1> QED BY <1>4, <1>5, <1>6 DEF StoreInv, OneCall, CallOK

LEMMA StoreStep ==
  ASSUME StoreInv, [Next]_vars
  PROVE  StoreInv' /\ (RedisIsLocked => Refines)
PROOF
  <1>1. CASE \E c \in Clients, s \in Sagas :
               \/ \E new \in SagaStates : MemorySave(c, s, new)
               \/ MemoryDelete(c, s)
    BY <1>1, MemoryStep
  <1>2. CASE \E c \in Clients, s \in Sagas : \E new \in SagaStates : Save(c, s, new)
    BY <1>2, SaveStep DEF Refines
  <1>3. CASE \E c \in Clients, s \in Sagas : Delete(c, s)
    BY <1>3, DeleteStep DEF Refines
  <1>4. CASE \E c \in Clients : Command(c)
    <2>1. PICK c \in Clients : Command(c)
      BY <1>4
    <2>2. StoreInv'
      BY <2>1, CommandStep
    <2>3. ASSUME RedisIsLocked
          PROVE  Refines
      <3>1. call[c].saga \in Sagas /\ records \in Contract!Stored
        BY <2>1, CommandWrites DEF StoreInv, Types
      <3>2. \/ records' = records
            \/ \E to \in SagaStates \cup {Nothing} :
                 records' = [records EXCEPT ![call[c].saga] = to] /\ Follows(records[call[c].saga], to)
        BY <2>1, <2>3, CommandFollows
      <3> QED BY <3>1, <3>2, ContractStep DEF Refines
    <2> QED BY <2>2, <2>3
  <1>5. CASE \E c \in Clients : Duplicate(c) \/ CutOff(c)
    BY <1>5, GivesUpStep DEF Refines
  <1>6. CASE \E s \in Sagas : Expire(s)
    BY <1>6, ExpireStep
  <1>7. CASE UNCHANGED vars
    <2>1. UNCHANGED <<kind, locked, records, todo, call, landed, answer>>
      BY <1>7 DEF vars, clients
    <2>2. StoreInv'
      BY <2>1 DEF StoreInv, Types, OneCall, CallOK, InCall
    <2> QED BY <2>1, <2>2 DEF Refines
  <1> QED BY <1>1, <1>2, <1>3, <1>4, <1>5, <1>6, <1>7 DEF Next

\* The inductive invariant of the stores: what a save() or delete() in Redis is about to
\* write, under the lock, follows from the state that is there; in SQL it is one command.
THEOREM StoreInvariance == Spec => []StoreInv
PROOF
  <1>1. Init => StoreInv
    BY StoreInit
  <1>2. StoreInv /\ [Next]_vars => StoreInv'
    BY StoreStep
  <1> QED BY <1>1, <1>2, PTL DEF Spec

\* InMemoryStore, SqlAdapter and, for callers that hold the saga's lock, RedisAdapter
\* replace a state only by its next version, however calls are interleaved, cut off
\* and overtaken by expiry (their save() and delete()).
THEOREM StoresImplementContract ==
  ASSUME RedisIsLocked
  PROVE  Spec => ImplementsContract
PROOF
  <1>1. Init => Contract!Init
    BY StoreInit
  <1>2. StoreInv /\ [Next]_vars => [Contract!Next]_records
    BY StoreStep DEF Refines
  <1> QED BY <1>1, <1>2, StoreInvariance, PTL DEF Spec, ImplementsContract, Contract!Spec

-----------------------------------------------------------------------------
(* What an answer means *)

\* A call that has not written yet has a command left that will.
AnswerOK(c) ==
  /\ answer[c] = "ok" => landed[c]
  /\ kind = "redis" /\ InCall(c) => landed[c] \/ HasWriter(todo[c])
  /\ kind = "sql" /\ InCall(c) /\ todo[c][1].cmd = "UPDATE" =>
       records[call[c].saga] # Nothing /\ records[call[c].saga].version = call[c].new.version - 1

SqlIsLocked == kind = "sql" => locked

AnswerInv == SqlIsLocked => \A c \in Clients : AnswerOK(c)

\* A client whose call is not touched, and whose saga's record is not.
LEMMA OthersAnswer ==
  ASSUME NEW c \in Clients, AnswerOK(c), kind' = kind,
         answer'[c] = answer[c], landed'[c] = landed[c], todo'[c] = todo[c], call'[c] = call[c],
         kind = "sql" /\ InCall(c) => records'[call[c].saga] = records[call[c].saga]
  PROVE  AnswerOK(c)'
PROOF
  BY DEF AnswerOK, InCall

LEMMA Unanswered ==
  ASSUME NEW c \in Clients, answer'[c] # "ok", todo'[c] = <<>>
  PROVE  AnswerOK(c)'
PROOF
  BY DEF AnswerOK, InCall

LEMMA ClientTypes ==
  ASSUME StoreInv
  PROVE  /\ answer \in [Clients -> {"none", "ok", "failed"}] /\ landed \in [Clients -> BOOLEAN]
         /\ todo \in [Clients -> Seq(Commands)]
         /\ call \in [Clients -> [saga : Sagas \cup {Nobody}, new : SagaStates \cup {Nothing}]]
PROOF
  BY DEF StoreInv, Types

LEMMA MemoryAnswers ==
  ASSUME StoreInv, AnswerInv, SqlIsLocked, NEW c \in Clients, NEW s \in Sagas,
         \/ \E new \in SagaStates : MemorySave(c, s, new)
         \/ MemoryDelete(c, s)
  PROVE  \A d \in Clients : AnswerOK(d)'
PROOF
  <1>1. /\ kind = "memory" /\ kind' = kind
        /\ todo' = [todo EXCEPT ![c] = <<>>] /\ call' = [call EXCEPT ![c] = NoCall]
        /\ \/ /\ answer' = [answer EXCEPT ![c] = "ok"] /\ landed' = [landed EXCEPT ![c] = TRUE]
           \/ /\ answer' = [answer EXCEPT ![c] = "failed"] /\ landed' = [landed EXCEPT ![c] = FALSE]
    BY DEF MemorySave, MemoryDelete, Calls, Answer
  <1>2. ASSUME NEW d \in Clients
        PROVE  AnswerOK(d)'
    <2>1. CASE d = c
      BY <1>1, <2>1, ClientTypes DEF AnswerOK
    <2>2. CASE d # c
      <3>1. /\ answer'[d] = answer[d] /\ landed'[d] = landed[d]
            /\ todo'[d] = todo[d] /\ call'[d] = call[d]
        BY <1>1, <2>2, ClientTypes
      <3> QED BY <1>1, <3>1, OthersAnswer DEF AnswerInv
    <2> QED BY <2>1, <2>2
  <1> QED BY <1>2

\* A call starts: what it has to do it has before it.
LEMMA StartAnswers ==
  ASSUME StoreInv, AnswerInv, SqlIsLocked, NEW c \in Clients, NEW s \in Sagas,
         NEW new, NEW plan \in Seq(Commands), Calls(c, s, new, plan),
         UNCHANGED <<kind, locked, records>>,
         NEW what \in {"none", "failed"}, answer' = [answer EXCEPT ![c] = what],
         landed' = [landed EXCEPT ![c] = FALSE],
         kind = "redis" /\ plan # <<>> => HasWriter(plan),
         kind = "sql" /\ plan # <<>> /\ plan[1].cmd = "UPDATE" =>
            records[s] # Nothing /\ records[s].version = new.version - 1
  PROVE  \A d \in Clients : AnswerOK(d)'
PROOF
  <1>1. /\ todo' = [todo EXCEPT ![c] = plan]
        /\ call' = [call EXCEPT ![c] = IF plan = <<>> THEN NoCall ELSE [saga |-> s, new |-> new]]
    BY DEF Calls
  <1>2. /\ answer'[c] = what /\ todo'[c] = plan
        /\ plan # <<>> => call'[c].saga = s /\ call'[c].new = new
    BY <1>1, ClientTypes
  <1>3. AnswerOK(c)'
    BY <1>2 DEF AnswerOK, InCall
  <1>4. ASSUME NEW d \in Clients, d # c
        PROVE  AnswerOK(d)'
    <2>1. /\ answer'[d] = answer[d] /\ landed'[d] = landed[d]
          /\ todo'[d] = todo[d] /\ call'[d] = call[d]
      BY <1>1, <1>4, ClientTypes
    <2> QED BY <2>1, OthersAnswer DEF AnswerInv
  <1> QED BY <1>3, <1>4

LEMMA SaveAnswers ==
  ASSUME StoreInv, AnswerInv, SqlIsLocked, NEW c \in Clients, NEW s \in Sagas,
         NEW new \in SagaStates, Save(c, s, new)
  PROVE  \A d \in Clients : AnswerOK(d)'
PROOF
  <1> DEFINE plan == IF Conflict(records[s], new) THEN <<>>
                     ELSE IF kind = "sql" THEN SqlPlan(records[s], new)
                     ELSE RedisPlan(records[s], new)
             what == IF Conflict(records[s], new) THEN "failed" ELSE "none"
  <1>1. /\ kind # "memory" /\ Calls(c, s, new, plan) /\ UNCHANGED <<kind, locked, records>>
        /\ answer' = [answer EXCEPT ![c] = what] /\ landed' = [landed EXCEPT ![c] = FALSE]
    BY DEF Save, Answer
  <1>2. records[s] \in SagaStates \cup {Nothing} /\ what \in {"none", "failed"}
    BY Known
  <1>3. /\ plan \in Seq(Commands)
        /\ kind = "redis" /\ plan # <<>> => HasWriter(plan)
        /\ kind = "sql" /\ plan # <<>> /\ plan[1].cmd = "UPDATE" =>
             records[s] # Nothing /\ records[s].version = new.version - 1
    <2>1. CASE Conflict(records[s], new)
      BY <2>1
    <2>2. CASE ~ Conflict(records[s], new) /\ kind = "sql"
      BY <1>2, <2>2, SqlPlanFacts DEF Conflict
    <2>3. CASE ~ Conflict(records[s], new) /\ kind # "sql"
      BY <1>2, <2>3, RedisPlanFacts
    <2> QED BY <2>1, <2>2, <2>3
  <1> HIDE DEF plan, what
  <1> QED BY <1>1, <1>2, <1>3, StartAnswers

LEMMA DeleteAnswers ==
  ASSUME StoreInv, AnswerInv, SqlIsLocked, NEW c \in Clients, NEW s \in Sagas, Delete(c, s)
  PROVE  \A d \in Clients : AnswerOK(d)'
PROOF
  <1> DEFINE plan == IF kind = "sql" THEN SqlRemovalPlan ELSE RemovalPlan(records[s])
  <1>1. /\ kind # "memory" /\ records[s] # Nothing
        /\ Calls(c, s, Nothing, plan) /\ UNCHANGED <<kind, locked, records>>
        /\ answer' = [answer EXCEPT ![c] = "none"] /\ landed' = [landed EXCEPT ![c] = FALSE]
    BY DEF Delete, Answer
  <1>2. records[s] \in SagaStates
    BY <1>1, Known
  <1>3. SqlRemovalPlan[1].cmd = "DELETE" /\ SqlRemovalPlan \in Seq(Commands)
    <2>1. [cmd |-> "DELETE"] \in Commands
      BY KnownCommands
    <2> QED BY <2>1 DEF SqlRemovalPlan
  <1>4. /\ plan \in Seq(Commands)
        /\ kind = "redis" => HasWriter(plan)
        /\ kind = "sql" => plan[1].cmd # "UPDATE"
    BY <1>2, <1>3, RemovalPlanFacts
  <1> HIDE DEF plan
  <1> QED BY <1>1, <1>4, StartAnswers

\* A command that writes the state has landed; an UPDATE, if the row is the one it was made for.
LEMMA WriterLands ==
  ASSUME NEW c \in Clients, NEW s, NEW k, Executes(c, s, k), landed \in [Clients -> BOOLEAN],
         \/ k.cmd \in {"set state", "del state", "INSERT", "DELETE"}
         \/ k.cmd = "UPDATE" /\ records[s] # Nothing /\ records[s].version = call[c].new.version - 1
  PROVE  landed'[c] = TRUE
PROOF
  <1>1. CASE k.cmd \in {"set state", "del state", "INSERT", "DELETE"}
    <2>1. \E to : Writes(c, s, to)
      BY <1>1 DEF Executes
    <2> QED BY <2>1 DEF Writes
  <1>2. CASE k.cmd = "UPDATE" /\ records[s] # Nothing /\ records[s].version = call[c].new.version - 1
    <2>1. SqlUpdate(c, s)
      BY <1>2 DEF Executes
    <2>2. Writes(c, s, call[c].new)
      BY <1>2, <2>1 DEF SqlUpdate
    <2> QED BY <2>2 DEF Writes
  <1> QED BY <1>1, <1>2

LEMMA WriterLeft ==
  ASSUME NEW plan \in Seq(Commands), plan # <<>>, HasWriter(plan)
  PROVE  \/ Head(plan).cmd \in Writers
         \/ Len(plan) > 1 /\ HasWriter(Tail(plan))
PROOF
  <1>1. PICK i \in 1..Len(plan) : plan[i].cmd \in Writers
    BY DEF HasWriter
  <1>2. CASE i = 1
    <2>1. Head(plan) = plan[1]
      OBVIOUS
    <2> QED BY <1>1, <1>2, <2>1
  <1>3. CASE i # 1
    <2>1. /\ Len(plan) \in Nat /\ Len(Tail(plan)) = Len(plan) - 1
          /\ \A j \in 1..Len(Tail(plan)) : Tail(plan)[j] = plan[j + 1]
      BY HeadTailProperties
    <2>2. i - 1 \in 1..Len(Tail(plan)) /\ (i - 1) + 1 = i /\ Len(plan) > 1
      BY <1>3, <2>1
    <2>3. Tail(plan)[i - 1] = plan[i]
      BY <2>1, <2>2
    <2> QED BY <1>1, <2>2, <2>3 DEF HasWriter
  <1> QED BY <1>2, <1>3

LEMMA CommandAnswers ==
  ASSUME StoreInv, AnswerInv, SqlIsLocked, NEW c \in Clients, Command(c)
  PROVE  \A d \in Clients : AnswerOK(d)'
PROOF
  <1> DEFINE s == call[c].saga
             k == Head(todo[c])
  <1>1. InCall(c) /\ Executes(c, s, k) /\ kind' = kind
    BY DEF Command, InCall
  <1>2. /\ todo[c] \in Seq(Commands) /\ CallOK(c) /\ AnswerOK(c) /\ kind \in {"sql", "redis"}
        /\ landed \in [Clients -> BOOLEAN] /\ records \in [Sagas -> SagaStates \cup {Nothing}]
    BY <1>1, Known, ClientTypes DEF AnswerInv
  <1>3. k = todo[c][1] /\ todo[c] # <<>>
    BY <1>1, <1>2 DEF InCall
  <1> HIDE DEF s, k
  <1>4. landed'[c] = landed[c] \/ landed'[c] = TRUE
    BY <1>2, CommandWrites
  <1>5. ASSUME kind = "sql"
        PROVE  landed'[c] = TRUE /\ Len(todo[c]) = 1
    <2>1. Len(todo[c]) = 1 /\ todo[c][1] \in SqlCommands
      BY <1>1, <1>2, <1>5 DEF CallOK
    <2>2. PICK x \in {"INSERT", "UPDATE", "DELETE"} : k = [cmd |-> x]
      BY <1>3, <2>1 DEF SqlCommands
    <2>3. k.cmd \in {"INSERT", "UPDATE", "DELETE"}
      BY <2>2
    <2>4. k.cmd = "UPDATE" => /\ records[s] # Nothing
                              /\ records[s].version = call[c].new.version - 1
      BY <1>1, <1>2, <1>3, <1>5 DEF AnswerOK, s
    <2> QED BY <1>1, <1>2, <2>1, <2>3, <2>4, WriterLands
  <1>6. ASSUME kind = "redis"
        PROVE  landed'[c] = TRUE \/ (Len(todo[c]) > 1 /\ HasWriter(Tail(todo[c])))
    <2>1. CASE landed[c]
      BY <1>2, <1>4, <2>1
    <2>2. CASE k.cmd \in Writers
      BY <1>1, <1>2, <2>2, WriterLands DEF Writers
    <2>3. CASE HasWriter(todo[c])
      BY <1>2, <1>3, <2>2, <2>3, WriterLeft DEF k
    <2> QED BY <1>1, <1>2, <1>6, <2>1, <2>3 DEF AnswerOK
  <1>7. AnswerOK(c)'
    <2>1. CASE Len(todo[c]) = 1 /\ Ends(c, "ok")
      <3>1. todo'[c] = <<>>
        BY <2>1, ClientTypes DEF Ends
      <3>2. CASE kind = "sql"
        BY <1>5, <3>1, <3>2 DEF AnswerOK, InCall
      <3>3. CASE kind = "redis"
        <4>1. ~ (1 > 1)
          OBVIOUS
        <4>2. ~ (Len(todo[c]) > 1)
          BY <2>1, <4>1, Zenon
        <4>3. landed'[c] = TRUE
          BY <1>6, <3>3, <4>2, Zenon
        <4> QED BY <3>1, <4>3 DEF AnswerOK, InCall
      <3> QED BY <1>2, <3>2, <3>3
    <2>2. CASE /\ Len(todo[c]) > 1 /\ todo' = [todo EXCEPT ![c] = Tail(todo[c])]
               /\ UNCHANGED <<call, answer>>
      <3>1. todo'[c] = Tail(todo[c]) /\ answer'[c] = answer[c]
        BY <2>2, ClientTypes
      <3>2. kind # "sql"
        <4>1. Len(todo[c]) \in Nat /\ Len(todo[c]) > 1
          BY <1>2, <2>2
        <4>2. \A n \in Nat : n > 1 => n # 1
          OBVIOUS
        <4> QED BY <1>5, <4>1, <4>2, Zenon
      <3>3. kind = "redis" => landed'[c] = TRUE \/ HasWriter(Tail(todo[c]))
        BY <1>6
      <3>4. answer[c] = "ok" => landed'[c] = TRUE
        BY <1>2, <1>4 DEF AnswerOK
      <3> QED BY <1>1, <3>1, <3>2, <3>3, <3>4 DEF AnswerOK
    <2> QED BY <2>1, <2>2 DEF Command
  <1>8. ASSUME NEW d \in Clients, d # c
        PROVE  AnswerOK(d)'
    <2>1. /\ todo'[d] = todo[d] /\ call'[d] = call[d] /\ answer'[d] = answer[d]
      <3>1. CASE Ends(c, "ok")
        BY <1>8, <3>1, ClientTypes DEF Ends, Answer
      <3>2. CASE todo' = [todo EXCEPT ![c] = Tail(todo[c])] /\ UNCHANGED <<call, answer>>
        BY <1>8, <3>2, ClientTypes
      <3> QED BY <3>1, <3>2 DEF Command
    <2>2. landed'[d] = landed[d]
      BY <1>2, <1>8, CommandWrites
    <2>3. kind = "sql" /\ InCall(d) => records'[call[d].saga] = records[call[d].saga]
      <3>1. ASSUME kind = "sql", InCall(d)
            PROVE  call[d].saga # s /\ call[d].saga \in Sagas
        <4>1. CallOK(d)
          BY Known
        <4>2. locked
          BY <3>1 DEF SqlIsLocked
        <4> QED BY <1>1, <1>8, <3>1, <4>1, <4>2 DEF StoreInv, OneCall, CallOK, s
      <3>2. \A r \in Sagas \ {s} : records'[r] = records[r]
        BY <1>2, CommandWrites DEF s
      <3> QED BY <3>1, <3>2
    <2> QED BY <1>1, <2>1, <2>2, <2>3, OthersAnswer DEF AnswerInv
  <1> QED BY <1>7, <1>8

LEMMA GivesUpAnswers ==
  ASSUME StoreInv, AnswerInv, SqlIsLocked, NEW c \in Clients, Duplicate(c) \/ CutOff(c)
  PROVE  \A d \in Clients : AnswerOK(d)'
PROOF
  <1>1. /\ todo' = [todo EXCEPT ![c] = <<>>] /\ call' = [call EXCEPT ![c] = NoCall]
        /\ answer' = [answer EXCEPT ![c] = "failed"] /\ UNCHANGED <<kind, locked, records, landed>>
    BY DEF Duplicate, CutOff, Ends, Answer
  <1>2. ASSUME NEW d \in Clients
        PROVE  AnswerOK(d)'
    <2>1. CASE d = c
      BY <1>1, <2>1, ClientTypes, Unanswered
    <2>2. CASE d # c
      <3>1. answer'[d] = answer[d] /\ todo'[d] = todo[d] /\ call'[d] = call[d]
        BY <1>1, <2>2, ClientTypes
      <3> QED BY <1>1, <3>1, OthersAnswer DEF AnswerInv
    <2> QED BY <2>1, <2>2
  <1> QED BY <1>2

LEMMA ExpireAnswers ==
  ASSUME StoreInv, AnswerInv, SqlIsLocked, NEW s \in Sagas, Expire(s)
  PROVE  \A d \in Clients : AnswerOK(d)'
PROOF
  <1>1. kind = "redis" /\ UNCHANGED <<kind, todo, call, answer, landed>>
    BY DEF Expire, clients
  <1> QED BY <1>1, OthersAnswer DEF AnswerInv

LEMMA AnswerStep ==
  ASSUME StoreInv, AnswerInv, [Next]_vars
  PROVE  AnswerInv'
PROOF
  <1>1. SqlIsLocked' => SqlIsLocked
    BY DEF SqlIsLocked, Next, MemorySave, Save, MemoryDelete, Delete, Command, Duplicate, CutOff,
           Expire, vars
  <1>2. ASSUME SqlIsLocked, Next
        PROVE  \A d \in Clients : AnswerOK(d)'
    <2>1. CASE \E c \in Clients, s \in Sagas :
                 \/ \E new \in SagaStates : MemorySave(c, s, new)
                 \/ MemoryDelete(c, s)
      BY <1>2, <2>1, MemoryAnswers
    <2>2. CASE \E c \in Clients, s \in Sagas : \E new \in SagaStates : Save(c, s, new)
      BY <1>2, <2>2, SaveAnswers
    <2>3. CASE \E c \in Clients, s \in Sagas : Delete(c, s)
      BY <1>2, <2>3, DeleteAnswers
    <2>4. CASE \E c \in Clients : Command(c)
      BY <1>2, <2>4, CommandAnswers
    <2>5. CASE \E c \in Clients : Duplicate(c) \/ CutOff(c)
      BY <1>2, <2>5, GivesUpAnswers
    <2>6. CASE \E s \in Sagas : Expire(s)
      BY <1>2, <2>6, ExpireAnswers
    <2> QED BY <1>2, <2>1, <2>2, <2>3, <2>4, <2>5, <2>6 DEF Next
  <1>3. ASSUME SqlIsLocked, UNCHANGED vars
        PROVE  \A d \in Clients : AnswerOK(d)'
    <2>1. UNCHANGED <<kind, records, todo, call, landed, answer>>
      BY <1>3 DEF vars, clients
    <2> QED BY <1>3, <2>1, OthersAnswer DEF AnswerInv
  <1> QED BY <1>1, <1>2, <1>3 DEF AnswerInv

\* A save or removal that answers ok has written its state: in memory, in Redis with
\* or without the lock, and in SQL under the lock.
THEOREM AnsweredIsWritten == Spec => []OkMeansWritten
PROOF
  <1>1. Init => AnswerInv
    BY DEF Init, AnswerInv, AnswerOK, InCall
  <1>2. StoreInv /\ AnswerInv /\ [Next]_vars => AnswerInv'
    BY AnswerStep
  <1>3. AnswerInv => OkMeansWritten
    BY DEF AnswerInv, AnswerOK, OkMeansWritten, SqlIsLocked
  <1> QED BY <1>1, <1>2, <1>3, StoreInvariance, PTL DEF Spec

-----------------------------------------------------------------------------
(* Indexes and states.  A plan of Redis has three stages: it clears what the old *)
(* state says, it writes the state, and then it settles the indexes.             *)

Left(plan) == {plan[i] : i \in 1..Len(plan)}

\* What writes the state, and what may come after it, in a save() and in a delete().
StateWriter(new) == IF new = Nothing THEN "del state" ELSE "set state"

Settling(new) ==
  IF new = Nothing THEN {"zrem all", "srem status", "srem type"}
  ELSE {"set token", "zadd all", "sadd status", "sadd type"}

Clearing(new) == IF new = Nothing THEN {"del token"} ELSE {"srem status", "del token"}

\* Once the state is written, the plan only settles.
Staged(plan, new) ==
  \A i, j \in 1..Len(plan) :
    i < j /\ plan[i].cmd \notin Clearing(new) => plan[j].cmd \in Settling(new)

Srem(x) == [cmd |-> "srem status", status |-> x]
DelToken(t) == [cmd |-> "del token", token |-> t]
Cmd(x) == [cmd |-> x]

Loaded(s) == records[s] # Nothing

TokenOf(s, st) == st # Nothing => st.token \in TokensOf[s] \cup {NoToken}

\* A plan for saga s that is under way.
PlanOK(s, plan, new) ==
  /\ Staged(plan, new)
  /\ \A k \in Left(plan) :
       /\ k.cmd \in Clearing(new) \cup {StateWriter(new)} \cup Settling(new)
       /\ k.cmd = "del token" => k.token \in TokensOf[s]
       /\ k.cmd = StateWriter(new) => k = Cmd(StateWriter(new))
       /\ Cmd(StateWriter(new)) \notin Left(plan) => k.cmd \in Settling(new)
  /\ Cmd(StateWriter(new)) \in Left(plan) /\ new # Nothing =>
       /\ {Cmd("zadd all"), Cmd("sadd status"), Cmd("sadd type")} \subseteq Left(plan)
       /\ new.token # NoToken => Cmd("set token") \in Left(plan)

\* s is found as st, but for what the plan has yet to index.
FoundAs(s, st, plan) ==
  /\ Cmd("zadd all") \in plan \/ s \in all
  /\ Cmd("sadd type") \in plan \/ s \in byType
  /\ Cmd("sadd status") \in plan \/ s \in byStatus[st.status]
  /\ st.token = NoToken \/ Cmd("set token") \in plan \/ tokens[st.token] = s

\* The indexes name s only for what it is, or the plan is going to remove it.
IndexedAs(s, plan) ==
  /\ \A x \in Statuses : s \in byStatus[x] =>
       IF Loaded(s) THEN records[s].status = x ELSE Srem(x) \in plan
  /\ \A t \in Tokens : tokens[t] = s => Loaded(s) /\ records[s].token = t

\* Of a saga no call is about.
AtRest(s) ==
  /\ s \notin torn /\ Loaded(s) => FoundAs(s, records[s], {})
  /\ s \notin orphaned => IndexedAs(s, {})

\* Of the saga a call is about.
InWork(s, plan, new) ==
  /\ PlanOK(s, plan, new)
  /\ Cmd(StateWriter(new)) \notin Left(plan) =>
       /\ Loaded(s) => new # Nothing /\ records[s] = new /\ FoundAs(s, new, Left(plan))
       /\ new # Nothing /\ s \notin orphaned => Loaded(s)
  /\ s \notin orphaned =>
       /\ IndexedAs(s, IF new = Nothing THEN Left(plan) ELSE {})
       /\ Cmd(StateWriter(new)) \in Left(plan) =>
            /\ \A x \in Statuses : s \in byStatus[x] => Srem(x) \in Left(plan)
            /\ \A t \in Tokens : tokens[t] = s =>
                 DelToken(t) \in Left(plan) \/ (new # Nothing /\ t = new.token)

RedisInv ==
  kind = "redis" =>
    /\ \A s \in Sagas : (\A c \in Clients : ~ (InCall(c) /\ call[c].saga = s)) => AtRest(s)
    /\ \A c \in Clients : InCall(c) => InWork(call[c].saga, todo[c], call[c].new)

\* The token index of InMemoryStore.
MemoryInv ==
  kind = "memory" =>
    \A s \in Sagas, t \in Tokens : tokens[t] = s <=> Loaded(s) /\ records[s].token = t

IndexTypes ==
  /\ tokens \in [Tokens -> Sagas \cup {Nobody}]
  /\ byStatus \in [Statuses -> SUBSET Sagas]

\* A saga has tokens of its own only.
OwnTokens ==
  /\ \A s \in Sagas, t \in Tokens : tokens[t] = s => t \in TokensOf[s]
  /\ \A s \in Sagas : TokenOf(s, records[s])
  /\ \A c \in Clients : InCall(c) => TokenOf(call[c].saga, call[c].new)

IndexInv == IndexTypes /\ RedisInv /\ MemoryInv /\ OwnTokens

-----------------------------------------------------------------------------
(* What is left of a plan *)

\* A plan that is not done is its head and what is left then.
LEMMA LeftTail ==
  ASSUME NEW plan \in Seq(Commands), plan # <<>>
  PROVE  /\ Tail(plan) \in Seq(Commands)
         /\ Left(plan) = {Head(plan)} \cup Left(Tail(plan))
         /\ Len(plan) = 1 => Left(Tail(plan)) = {}
PROOF
  <1>1. /\ Tail(plan) \in Seq(Commands) /\ Head(plan) = plan[1]
        /\ Len(plan) \in Nat /\ Len(plan) >= 1 /\ Len(Tail(plan)) = Len(plan) - 1
        /\ \A j \in 1..Len(Tail(plan)) : Tail(plan)[j] = plan[j + 1]
    BY HeadTailProperties
  <1>2. ASSUME NEW i \in 1..Len(plan)
        PROVE  plan[i] \in {Head(plan)} \cup Left(Tail(plan))
    <2>1. CASE i = 1
      BY <1>1, <2>1
    <2>2. CASE i # 1
      <3>1. i - 1 \in 1..Len(Tail(plan)) /\ (i - 1) + 1 = i
        BY <1>1, <2>2
      <3>2. Tail(plan)[i - 1] = plan[i]
        BY <1>1, <3>1
      <3> QED BY <3>1, <3>2 DEF Left
    <2> QED BY <2>1, <2>2
  <1>3. Head(plan) \in Left(plan)
    <2>1. 1 \in 1..Len(plan)
      BY <1>1
    <2> QED BY <1>1, <2>1 DEF Left
  <1>4. ASSUME NEW j \in 1..Len(Tail(plan))
        PROVE  Tail(plan)[j] \in Left(plan)
    <2>1. j + 1 \in 1..Len(plan)
      BY <1>1
    <2> QED BY <1>1, <2>1 DEF Left
  <1>5. Left(plan) = {Head(plan)} \cup Left(Tail(plan))
    BY <1>2, <1>3, <1>4 DEF Left
  <1>6. Len(plan) = 1 => Left(Tail(plan)) = {}
    <2>1. ASSUME Len(plan) = 1, NEW i \in 1..Len(Tail(plan))
          PROVE  FALSE
      <3>1. \A n \in Nat : n = 1 => n - 1 = 0
        OBVIOUS
      <3>2. Len(Tail(plan)) = 0
        BY <1>1, <2>1, <3>1, Zenon
      <3>3. \A n \in 1..0 : FALSE
        OBVIOUS
      <3> QED BY <3>2, <3>3, Zenon
    <2> QED BY <2>1 DEF Left
  <1> QED BY <1>1, <1>5, <1>6

\* Behind a command that does not clear, a staged plan only settles.
LEMMA StagedTail ==
  ASSUME NEW plan \in Seq(Commands), plan # <<>>, NEW new, Staged(plan, new)
  PROVE  /\ Staged(Tail(plan), new)
         /\ Head(plan).cmd \notin Clearing(new) =>
              \A k \in Left(Tail(plan)) : k.cmd \in Settling(new)
PROOF
  <1>1. /\ Head(plan) = plan[1] /\ Len(plan) \in Nat /\ Len(plan) >= 1
        /\ Len(Tail(plan)) = Len(plan) - 1
        /\ \A j \in 1..Len(Tail(plan)) : Tail(plan)[j] = plan[j + 1]
    BY HeadTailProperties
  <1>2. ASSUME NEW i \in 1..Len(Tail(plan)), NEW j \in 1..Len(Tail(plan)), i < j,
               Tail(plan)[i].cmd \notin Clearing(new)
        PROVE  Tail(plan)[j].cmd \in Settling(new)
    <2>1. i + 1 \in 1..Len(plan) /\ j + 1 \in 1..Len(plan) /\ i + 1 < j + 1
      BY <1>1, <1>2
    <2>2. Tail(plan)[i] = plan[i + 1] /\ Tail(plan)[j] = plan[j + 1]
      BY <1>1
    <2> QED BY <1>2, <2>1, <2>2 DEF Staged
  <1>3. ASSUME Head(plan).cmd \notin Clearing(new), NEW j \in 1..Len(Tail(plan))
        PROVE  Tail(plan)[j].cmd \in Settling(new)
    <2>1. 1 \in 1..Len(plan) /\ j + 1 \in 1..Len(plan) /\ 1 < j + 1
      BY <1>1
    <2> QED BY <1>1, <1>3, <2>1 DEF Staged
  <1> QED BY <1>2, <1>3 DEF Staged, Left

LEMMA Fields ==
  /\ Cmd("set state").cmd = "set state" /\ Cmd("set token").cmd = "set token"
  /\ Cmd("zadd all").cmd = "zadd all" /\ Cmd("sadd status").cmd = "sadd status"
  /\ Cmd("sadd type").cmd = "sadd type" /\ Cmd("del state").cmd = "del state"
  /\ Cmd("zrem all").cmd = "zrem all" /\ Cmd("srem type").cmd = "srem type"
  /\ \A x : Srem(x).cmd = "srem status" /\ Srem(x).status = x
  /\ \A t : DelToken(t).cmd = "del token" /\ DelToken(t).token = t
PROOF
  BY DEF Cmd, Srem, DelToken

\* The names of the stages are distinct.
LEMMA Stages ==
  ASSUME NEW new
  PROVE  /\ StateWriter(new) \notin Clearing(new) \cup Settling(new)
         /\ Clearing(new) \cap Settling(new) = {}
         /\ \A x : Cmd(x).cmd = x
PROOF
  <1>1. StateWriter(new) \notin Clearing(new) \cup Settling(new)
    BY DEF StateWriter, Clearing, Settling
  <1>2. Clearing(new) \cap Settling(new) = {}
    BY DEF Clearing, Settling
  <1>3. \A x : Cmd(x).cmd = x
    BY DEF Cmd
  <1> QED BY <1>1, <1>2, <1>3

\* What is left of a good plan is one; and where the plan stands, by its head.
LEMMA PlanTail ==
  ASSUME NEW s \in Sagas, NEW plan \in Seq(Commands), plan # <<>>, NEW new, PlanOK(s, plan, new)
  PROVE  /\ PlanOK(s, Tail(plan), new)
         /\ Head(plan).cmd = StateWriter(new) =>
              /\ Head(plan) = Cmd(StateWriter(new))
              /\ Cmd(StateWriter(new)) \notin Left(Tail(plan))
         /\ Head(plan).cmd \in Settling(new) => Cmd(StateWriter(new)) \notin Left(plan)
         /\ Head(plan).cmd \in Clearing(new) => Cmd(StateWriter(new)) \in Left(Tail(plan))
         /\ Head(plan).cmd \in Clearing(new) \cup {StateWriter(new)} \cup Settling(new)
PROOF
  <1> DEFINE k == Head(plan)
             rest == Tail(plan)
             w == Cmd(StateWriter(new))
  <1>1. Left(plan) = {k} \cup Left(rest)
    BY LeftTail
  <1>2. /\ Staged(rest, new)
        /\ k.cmd \notin Clearing(new) => \A l \in Left(rest) : l.cmd \in Settling(new)
    BY StagedTail DEF PlanOK
  <1>3. /\ w.cmd = StateWriter(new) /\ StateWriter(new) \notin Clearing(new)
        /\ StateWriter(new) \notin Settling(new) /\ Clearing(new) \cap Settling(new) = {}
    BY Stages
  <1>4. /\ k \in Left(plan)
        /\ k.cmd \in Clearing(new) \cup {StateWriter(new)} \cup Settling(new)
        /\ k.cmd = StateWriter(new) => k = w
    BY <1>1 DEF PlanOK
  <1> HIDE DEF k, rest, w
  <1>5. k.cmd \notin Clearing(new) => w \notin Left(rest)
    BY <1>2, <1>3
  <1>6. k.cmd \in Settling(new) => w \notin Left(plan)
    BY <1>1, <1>3, <1>5
  <1>7. k.cmd \in Clearing(new) => w \in Left(plan)
    BY <1>3, <1>4 DEF PlanOK, w
  <1>8. k.cmd \in Clearing(new) => w \in Left(rest)
    BY <1>1, <1>3, <1>7
  <1>9. \A l \in Left(rest) :
          /\ l.cmd \in Clearing(new) \cup {StateWriter(new)} \cup Settling(new)
          /\ l.cmd = "del token" => l.token \in TokensOf[s]
          /\ l.cmd = StateWriter(new) => l = w
          /\ w \notin Left(rest) => l.cmd \in Settling(new)
    BY <1>1, <1>2, <1>8 DEF PlanOK, w
  <1>10. ASSUME w \in Left(rest), new # Nothing
         PROVE  /\ {Cmd("zadd all"), Cmd("sadd status"), Cmd("sadd type")} \subseteq Left(rest)
                /\ new.token # NoToken => Cmd("set token") \in Left(rest)
    <2>1. k.cmd \in Clearing(new) /\ w \in Left(plan)
      BY <1>1, <1>5, <1>10
    <2>2. /\ {Cmd("zadd all"), Cmd("sadd status"), Cmd("sadd type")} \subseteq Left(plan)
          /\ new.token # NoToken => Cmd("set token") \in Left(plan)
      BY <1>10, <2>1 DEF PlanOK, w
    <2>3. k.cmd \in {"srem status", "del token"}
      BY <1>10, <2>1 DEF Clearing
    <2>4. k \notin {Cmd("zadd all"), Cmd("sadd status"), Cmd("sadd type"), Cmd("set token")}
      <3>1. \A x : x \notin {"srem status", "del token"} => k # Cmd(x)
        BY <2>3, Stages
      <3> QED BY <3>1, Zenon
    <2> QED BY <1>1, <2>2, <2>4
  <1>11. PlanOK(s, rest, new)
    BY <1>2, <1>9, <1>10 DEF PlanOK, w
  <1> QED BY <1>4, <1>5, <1>6, <1>8, <1>11, <1>3 DEF k, rest, w

-----------------------------------------------------------------------------
(* The plans of RedisAdapter *)

LEMMA Joined ==
  ASSUME NEW p \in Seq(Commands), NEW q \in Seq(Commands), NEW new, Staged(p, new), Staged(q, new),
         \/ \A k \in Left(p) : k.cmd \in Clearing(new)
         \/ \A k \in Left(q) : k.cmd \in Settling(new)
  PROVE  /\ p \o q \in Seq(Commands) /\ Left(p \o q) = Left(p) \cup Left(q)
         /\ Staged(p \o q, new)
PROOF
  <1>1. /\ p \o q \in Seq(Commands) /\ Len(p \o q) = Len(p) + Len(q)
        /\ \A i \in 1..(Len(p) + Len(q)) :
             (p \o q)[i] = IF i <= Len(p) THEN p[i] ELSE q[i - Len(p)]
    BY ConcatProperties
  <1>2. Len(p) \in Nat /\ Len(q) \in Nat
    OBVIOUS
  <1>3. ASSUME NEW i \in 1..Len(p \o q)
        PROVE  \/ i \in 1..Len(p) /\ (p \o q)[i] = p[i]
               \/ /\ i > Len(p) /\ i - Len(p) \in 1..Len(q)
                  /\ (p \o q)[i] = q[i - Len(p)]
    BY <1>1, <1>2
  <1>4. ASSUME NEW i \in 1..Len(p)
        PROVE  i \in 1..Len(p \o q) /\ (p \o q)[i] = p[i]
    BY <1>1, <1>2
  <1>5. ASSUME NEW i \in 1..Len(q)
        PROVE  i + Len(p) \in 1..Len(p \o q) /\ (p \o q)[i + Len(p)] = q[i]
    <2>1. i + Len(p) \in 1..(Len(p) + Len(q)) /\ ~ (i + Len(p) <= Len(p)) /\ i + Len(p) - Len(p) = i
      BY <1>2
    <2> QED BY <1>1, <2>1
  <1>6. Left(p \o q) = Left(p) \cup Left(q)
    BY <1>3, <1>4, <1>5 DEF Left
  <1>7. ASSUME NEW i \in 1..Len(p \o q), NEW j \in 1..Len(p \o q), i < j,
               (p \o q)[i].cmd \notin Clearing(new)
        PROVE  (p \o q)[j].cmd \in Settling(new)
    <2>1. CASE j \in 1..Len(p) /\ (p \o q)[j] = p[j]
      <3>1. i \in 1..Len(p)
        BY <1>1, <1>2, <1>7, <2>1
      <3>2. (p \o q)[i] = p[i]
        BY <1>4, <3>1
      <3> QED BY <1>7, <2>1, <3>1, <3>2 DEF Staged
    <2>2. CASE j > Len(p) /\ j - Len(p) \in 1..Len(q) /\ (p \o q)[j] = q[j - Len(p)]
      <3>1. CASE \A k \in Left(q) : k.cmd \in Settling(new)
        BY <2>2, <3>1 DEF Left
      <3>2. CASE \A k \in Left(p) : k.cmd \in Clearing(new)
        <4>1. i - Len(p) \in 1..Len(q) /\ (p \o q)[i] = q[i - Len(p)]
          BY <1>3, <1>7, <3>2 DEF Left
        <4>2. i - Len(p) < j - Len(p)
          BY <1>1, <1>2, <1>7
        <4> QED BY <1>7, <2>2, <4>1, <4>2 DEF Staged
      <3> QED BY <3>1, <3>2
    <2> QED BY <1>3, <2>1, <2>2
  <1> QED BY <1>1, <1>6, <1>7 DEF Staged

LEMMA SmallPlans ==
  ASSUME NEW new, NEW k
  PROVE  /\ Left(<<k>>) = {k} /\ Staged(<<k>>, new)
         /\ Left(<<>>) = {} /\ Staged(<<>>, new)
PROOF
  BY DEF Left, Staged

LEMMA ThreeCommands ==
  ASSUME NEW j, NEW k, NEW l
  PROVE  Left(<<j, k, l>>) = {j, k, l}
PROOF
  <1>1. 1..3 = {1, 2, 3}
    OBVIOUS
  <1>2. /\ Len(<<j, k, l>>) = 3
        /\ <<j, k, l>>[1] = j /\ <<j, k, l>>[2] = k /\ <<j, k, l>>[3] = l
    OBVIOUS
  <1>3. Left(<<j, k, l>>) = {<<j, k, l>>[i] : i \in {1, 2, 3}}
    BY <1>1, <1>2 DEF Left
  <1> QED BY <1>2, <1>3

LEMMA FourCommands ==
  ASSUME NEW j, NEW k, NEW l, NEW m
  PROVE  Left(<<j, k, l, m>>) = {j, k, l, m}
PROOF
  <1>1. 1..4 = {1, 2, 3, 4}
    OBVIOUS
  <1>2. /\ Len(<<j, k, l, m>>) = 4 /\ <<j, k, l, m>>[1] = j /\ <<j, k, l, m>>[2] = k
        /\ <<j, k, l, m>>[3] = l /\ <<j, k, l, m>>[4] = m
    OBVIOUS
  <1>3. Left(<<j, k, l, m>>) = {<<j, k, l, m>>[i] : i \in {1, 2, 3, 4}}
    BY <1>1, <1>2 DEF Left
  <1> QED BY <1>2, <1>3

LEMMA WhenPlans ==
  ASSUME NEW new, NEW condition \in BOOLEAN, NEW k, condition => k \in Commands
  PROVE  /\ When(condition, k) \in Seq(Commands)
         /\ Left(When(condition, k)) = IF condition THEN {k} ELSE {}
         /\ Staged(When(condition, k), new)
PROOF
  <1>1. CASE condition
    BY <1>1, SmallPlans, Conditional DEF When
  <1>2. CASE ~ condition
    BY <1>2, SmallPlans, Conditional DEF When
  <1> QED BY <1>1, <1>2

\* save(): old entries are cleared, the state is written, the new entries are made.
LEMMA SavePlan ==
  ASSUME NEW s \in Sagas, NEW prev \in SagaStates \cup {Nothing}, NEW new \in SagaStates, new # Nothing,
         TokenOf(s, prev), NEW plan, plan = RedisPlan(prev, new)
  PROVE  /\ PlanOK(s, plan, new) /\ plan \in Seq(Commands) /\ plan # <<>>
         /\ Cmd(StateWriter(new)) \in Left(plan)
         /\ prev # Nothing => /\ Srem(prev.status) \in Left(plan)
                              /\ prev.token \notin {NoToken, new.token} =>
                                   DelToken(prev.token) \in Left(plan)
PROOF
  <1> DEFINE clears == prev # Nothing /\ prev.token \notin {NoToken, new.token}
             a == When(prev # Nothing, [cmd |-> "srem status", status |-> prev.status])
             b == When(prev # Nothing /\ prev.token \notin {NoToken, new.token},
                       [cmd |-> "del token", token |-> prev.token])
             d == <<[cmd |-> "set state"]>>
             e == When(new.token # NoToken, [cmd |-> "set token"])
             f == <<[cmd |-> "zadd all"], [cmd |-> "sadd status"], [cmd |-> "sadd type"]>>
             joined == (((a \o b) \o d) \o e) \o f
  <1>1. /\ Clearing(new) = {"srem status", "del token"} /\ StateWriter(new) = "set state"
        /\ Settling(new) = {"set token", "zadd all", "sadd status", "sadd type"}
    BY DEF Clearing, StateWriter, Settling
  <1>2. /\ a \in Seq(Commands) /\ Staged(a, new)
        /\ Left(a) = IF prev # Nothing THEN {Srem(prev.status)} ELSE {}
    BY KnownCommands, StateParts, WhenPlans DEF Srem
  <1>3. /\ b \in Seq(Commands) /\ Staged(b, new)
        /\ Left(b) = IF clears THEN {DelToken(prev.token)} ELSE {}
    BY KnownCommands, StateParts, WhenPlans DEF DelToken
  <1>4. /\ e \in Seq(Commands) /\ Staged(e, new)
        /\ Left(e) = IF new.token # NoToken THEN {Cmd("set token")} ELSE {}
    BY KnownCommands, WhenPlans DEF Cmd
  <1>5. d \in Seq(Commands) /\ Staged(d, new) /\ Left(d) = {Cmd("set state")}
    BY KnownCommands, OneCommand, SmallPlans DEF Cmd
  <1>6. /\ f \in Seq(Commands) /\ Left(f) = {Cmd("zadd all"), Cmd("sadd status"), Cmd("sadd type")}
        /\ Staged(f, new)
    <2>1. /\ [cmd |-> "zadd all"] \in Commands /\ [cmd |-> "sadd status"] \in Commands
          /\ [cmd |-> "sadd type"] \in Commands
      BY KnownCommands
    <2>2. f \in Seq(Commands)
      BY <2>1, SomeCommands
    <2>3. Left(f) = {Cmd("zadd all"), Cmd("sadd status"), Cmd("sadd type")}
      <3>1. Left(<<Cmd("zadd all"), Cmd("sadd status"), Cmd("sadd type")>>)
              = {Cmd("zadd all"), Cmd("sadd status"), Cmd("sadd type")}
        BY ThreeCommands
      <3> QED BY <3>1 DEF Cmd
    <2>4. \A k \in Left(f) : k.cmd \in Settling(new)
      BY <1>1, <2>3, Fields
    <2>5. Staged(f, new)
      BY <2>4 DEF Staged, Left
    <2> QED BY <2>2, <2>3, <2>5
  <1>7. plan = joined
    BY DEF RedisPlan
  <1> HIDE DEF a, b, d, e, f
  <1>8. \A k \in Left(a) \cup Left(b) : k.cmd \in Clearing(new)
    <2>1. ASSUME NEW k \in Left(a)
          PROVE  k.cmd \in Clearing(new)
      <3>1. k = Srem(prev.status)
        BY <1>2
      <3> QED BY <1>1, <3>1, Fields
    <2>2. ASSUME NEW k \in Left(b)
          PROVE  k.cmd \in Clearing(new)
      <3>1. k = DelToken(prev.token)
        BY <1>3
      <3> QED BY <1>1, <3>1, Fields
    <2> QED BY <2>1, <2>2
  <1>9. \A k \in Left(e) \cup Left(f) : k.cmd \in Settling(new)
    BY <1>1, <1>4, <1>6, Fields
  <1>10. a \o b \in Seq(Commands) /\ Staged(a \o b, new) /\ Left(a \o b) = Left(a) \cup Left(b)
    BY <1>2, <1>3, <1>8, Joined
  <1>11. /\ (a \o b) \o d \in Seq(Commands) /\ Staged((a \o b) \o d, new)
         /\ Left((a \o b) \o d) = Left(a) \cup Left(b) \cup Left(d)
    BY <1>5, <1>8, <1>10, Joined
  <1>12. /\ ((a \o b) \o d) \o e \in Seq(Commands) /\ Staged(((a \o b) \o d) \o e, new)
         /\ Left(((a \o b) \o d) \o e) = Left(a) \cup Left(b) \cup Left(d) \cup Left(e)
    BY <1>4, <1>9, <1>11, Joined
  <1>13. /\ plan \in Seq(Commands) /\ Staged(plan, new)
         /\ Left(plan) = Left(a) \cup Left(b) \cup Left(d) \cup Left(e) \cup Left(f)
    BY <1>6, <1>7, <1>9, <1>12, Joined
  <1> HIDE DEF joined
  <1>14. Cmd("set state") \in Left(plan)
    BY <1>5, <1>13
  <1>15. plan # <<>>
    BY <1>14, SmallPlans
  <1>16. ASSUME NEW k \in Left(plan)
         PROVE  /\ k.cmd \in Clearing(new) \cup {StateWriter(new)} \cup Settling(new)
                /\ k.cmd = "del token" => k.token \in TokensOf[s]
                /\ k.cmd = StateWriter(new) => k = Cmd(StateWriter(new))
    <2>1. CASE k \in Left(a)
      <3>1. k = Srem(prev.status)
        BY <1>2, <2>1
      <3> QED BY <1>1, <3>1, Fields
    <2>2. CASE k \in Left(b)
      <3>1. k = DelToken(prev.token) /\ prev # Nothing /\ prev.token # NoToken
        BY <1>3, <2>2
      <3> QED BY <1>1, <3>1, Fields DEF TokenOf
    <2>3. CASE k \in Left(d)
      <3>1. k = Cmd("set state") /\ k.cmd = "set state"
        BY <1>5, <2>3, Fields
      <3>2. k = Cmd(StateWriter(new))
        BY <1>1, <3>1, Zenon
      <3> QED BY <1>1, <3>1, <3>2
    <2>4. CASE k \in Left(e) \cup Left(f)
      BY <1>1, <1>4, <1>6, <2>4, Fields
    <2> QED BY <1>13, <2>1, <2>2, <2>3, <2>4
  <1>17. PlanOK(s, plan, new)
    BY <1>1, <1>4, <1>6, <1>13, <1>14, <1>16 DEF PlanOK
  <1>18. prev # Nothing => /\ Srem(prev.status) \in Left(plan)
                           /\ prev.token \notin {NoToken, new.token} =>
                                DelToken(prev.token) \in Left(plan)
    BY <1>2, <1>3, <1>13
  <1>19. Cmd(StateWriter(new)) \in Left(plan)
    BY <1>1, <1>14, Zenon
  <1> HIDE DEF clears
  <1>20. plan \in Seq(Commands)
    BY <1>13
  <1> QED BY <1>15, <1>17, <1>18, <1>19, <1>20

\* delete(): the token is cleared, the state is removed, then its index entries are.
LEMMA DeletePlan ==
  ASSUME NEW s \in Sagas, NEW prev \in SagaStates, prev # Nothing, TokenOf(s, prev),
         NEW plan, plan = RemovalPlan(prev)
  PROVE  /\ PlanOK(s, plan, Nothing) /\ plan \in Seq(Commands) /\ plan # <<>>
         /\ Cmd(StateWriter(Nothing)) \in Left(plan)
         /\ Srem(prev.status) \in Left(plan)
         /\ prev.token # NoToken => DelToken(prev.token) \in Left(plan)
PROOF
  <1> DEFINE a == When(prev.token # NoToken, [cmd |-> "del token", token |-> prev.token])
             b == <<[cmd |-> "del state"], [cmd |-> "zrem all"],
                    [cmd |-> "srem status", status |-> prev.status], [cmd |-> "srem type"]>>
             joined == a \o b
  <1>1. /\ Clearing(Nothing) = {"del token"} /\ StateWriter(Nothing) = "del state"
        /\ Settling(Nothing) = {"zrem all", "srem status", "srem type"}
    BY DEF Clearing, StateWriter, Settling
  <1>2. plan = joined
    BY DEF RemovalPlan
  <1>3. prev.status \in Statuses /\ prev.token \in Tokens \cup {NoToken}
    BY DEF SagaStates
  <1>4. /\ a \in Seq(Commands) /\ Staged(a, Nothing)
        /\ Left(a) = IF prev.token # NoToken THEN {DelToken(prev.token)} ELSE {}
    BY <1>3, KnownCommands, WhenPlans DEF DelToken
  <1>5. /\ b \in Seq(Commands) /\ Staged(b, Nothing)
        /\ Left(b) = {Cmd("del state"), Cmd("zrem all"), Srem(prev.status), Cmd("srem type")}
    <2>1. /\ [cmd |-> "del state"] \in Commands /\ [cmd |-> "zrem all"] \in Commands
          /\ [cmd |-> "srem status", status |-> prev.status] \in Commands
          /\ [cmd |-> "srem type"] \in Commands
      BY <1>3, KnownCommands
    <2>2. b \in Seq(Commands)
      BY <2>1, SomeCommands
    <2>3. Left(b) = {Cmd("del state"), Cmd("zrem all"), Srem(prev.status), Cmd("srem type")}
      <3>1. Left(<<Cmd("del state"), Cmd("zrem all"), Srem(prev.status), Cmd("srem type")>>)
              = {Cmd("del state"), Cmd("zrem all"), Srem(prev.status), Cmd("srem type")}
        BY FourCommands
      <3> QED BY <3>1 DEF Cmd, Srem
    <2>4. \A i \in 1..Len(b) : i # 1 => b[i].cmd \in Settling(Nothing)
      <3>1. 1..4 = {1, 2, 3, 4} /\ Len(b) = 4
        OBVIOUS
      <3>2. b[2] = Cmd("zrem all") /\ b[3] = Srem(prev.status) /\ b[4] = Cmd("srem type")
        BY DEF Cmd, Srem
      <3> HIDE DEF b
      <3>3. \A i \in 1..Len(b) : i \in {1, 2, 3, 4}
        BY <3>1, Zenon
      <3>4. /\ b[2].cmd \in Settling(Nothing) /\ b[3].cmd \in Settling(Nothing)
            /\ b[4].cmd \in Settling(Nothing)
        BY <1>1, <3>2, Fields
      <3> QED BY <3>3, <3>4
    <2>5. \A i, j \in 1..Len(b) : i < j => j # 1
      OBVIOUS
    <2>6. Staged(b, Nothing)
      BY <2>4, <2>5 DEF Staged
    <2> QED BY <2>2, <2>3, <2>6
  <1> HIDE DEF a, b
  <1>6. \A k \in Left(a) : k.cmd \in Clearing(Nothing)
    <2>1. ASSUME NEW k \in Left(a)
          PROVE  k.cmd \in Clearing(Nothing)
      <3>1. k = DelToken(prev.token)
        BY <1>4
      <3> QED BY <1>1, <3>1, Fields
    <2> QED BY <2>1
  <1>7. plan \in Seq(Commands) /\ Staged(plan, Nothing) /\ Left(plan) = Left(a) \cup Left(b)
    <2>1. /\ a \o b \in Seq(Commands) /\ Staged(a \o b, Nothing)
          /\ Left(a \o b) = Left(a) \cup Left(b)
      BY <1>4, <1>5, <1>6, Joined
    <2> QED BY <1>2, <2>1
  <1> HIDE DEF joined
  <1>8. Cmd("del state") \in Left(plan)
    BY <1>5, <1>7
  <1>9. plan # <<>>
    BY <1>8, SmallPlans
  <1>10. ASSUME NEW k \in Left(plan)
         PROVE  /\ k.cmd \in Clearing(Nothing) \cup {StateWriter(Nothing)} \cup Settling(Nothing)
                /\ k.cmd = "del token" => k.token \in TokensOf[s]
                /\ k.cmd = StateWriter(Nothing) => k = Cmd(StateWriter(Nothing))
    <2>1. CASE k \in Left(a)
      <3>1. k = DelToken(prev.token) /\ prev.token # NoToken
        BY <1>4, <2>1
      <3> QED BY <1>1, <3>1, Fields DEF TokenOf
    <2>2. CASE k \in Left(b) /\ k # Cmd("del state")
      BY <1>1, <1>5, <2>2, Fields
    <2>3. CASE k = Cmd("del state")
      <3>1. k = Cmd(StateWriter(Nothing)) /\ k.cmd = "del state"
        BY <1>1, <2>3, Fields, Zenon
      <3> QED BY <1>1, <3>1
    <2> QED BY <1>7, <2>1, <2>2, <2>3
  <1>11. PlanOK(s, plan, Nothing)
    BY <1>1, <1>7, <1>8, <1>10 DEF PlanOK
  <1>12. Cmd(StateWriter(Nothing)) \in Left(plan)
    BY <1>1, <1>8, Zenon
  <1>13. prev.token # NoToken => DelToken(prev.token) \in Left(plan)
    BY <1>4, <1>7
  <1>14. Srem(prev.status) \in Left(plan)
    BY <1>5, <1>7
  <1> QED BY <1>7, <1>9, <1>11, <1>12, <1>13, <1>14, Zenon

-----------------------------------------------------------------------------
(* A saga nothing happens to *)

\* What the store says of saga r is not changed.
SameView(r) ==
  /\ records'[r] = records[r] /\ (r \in orphaned' <=> r \in orphaned)
  /\ (r \in all' <=> r \in all) /\ (r \in byType' <=> r \in byType)
  /\ \A x \in Statuses : r \in byStatus'[x] <=> r \in byStatus[x]
  /\ \A t \in Tokens : tokens'[t] = r <=> tokens[t] = r

LEMMA FoundStays ==
  ASSUME NEW r \in Sagas, SameView(r), NEW st \in SagaStates, NEW plan, FoundAs(r, st, plan)
  PROVE  FoundAs(r, st, plan)'
PROOF
  <1>1. st.status \in Statuses /\ st.token \in Tokens \cup {NoToken}
    BY DEF SagaStates
  <1> QED BY <1>1 DEF FoundAs, SameView

LEMMA IndexedStays ==
  ASSUME NEW r \in Sagas, SameView(r), NEW plan, IndexedAs(r, plan)
  PROVE  IndexedAs(r, plan)'
PROOF
  BY DEF IndexedAs, SameView, Loaded

LEMMA RestStays ==
  ASSUME NEW r \in Sagas, SameView(r), records[r] \in SagaStates \cup {Nothing},
         r \in torn => r \in torn', AtRest(r)
  PROVE  AtRest(r)'
PROOF
  <1>1. ASSUME r \notin torn', Loaded(r)'
        PROVE  FoundAs(r, records[r], {})'
    <2>1. r \notin torn /\ Loaded(r) /\ records[r] \in SagaStates
      BY <1>1 DEF SameView, Loaded
    <2>2. PICK st \in SagaStates : st = records[r]
      BY <2>1
    <2>3. FoundAs(r, st, {})
      BY <2>1, <2>2 DEF AtRest
    <2>4. FoundAs(r, st, {})'
      BY <2>3, FoundStays
    <2>5. records'[r] = st
      BY <2>2 DEF SameView
    <2> QED BY <2>4, <2>5 DEF FoundAs
  <1>2. ASSUME r \notin orphaned'
        PROVE  IndexedAs(r, {})'
    <2>1. IndexedAs(r, {})
      BY <1>2 DEF SameView, AtRest
    <2> QED BY <2>1, IndexedStays
  <1> QED BY <1>1, <1>2 DEF AtRest

LEMMA WorkStays ==
  ASSUME NEW r \in Sagas, SameView(r), NEW plan, NEW new \in SagaStates \cup {Nothing},
         InWork(r, plan, new)
  PROVE  InWork(r, plan, new)'
PROOF
  <1> DEFINE w == Cmd(StateWriter(new))
  <1>1. (Loaded(r)' <=> Loaded(r)) /\ records'[r] = records[r] /\ (r \in orphaned' <=> r \in orphaned)
    BY DEF SameView, Loaded
  <1>2. ASSUME w \notin Left(plan)
        PROVE  /\ Loaded(r)' => new # Nothing /\ records'[r] = new /\ FoundAs(r, new, Left(plan))'
               /\ new # Nothing /\ r \notin orphaned' => Loaded(r)'
    <2>1. /\ Loaded(r) => new # Nothing /\ records[r] = new /\ FoundAs(r, new, Left(plan))
          /\ new # Nothing /\ r \notin orphaned => Loaded(r)
      BY <1>2 DEF InWork
    <2>2. new # Nothing => new \in SagaStates
      OBVIOUS
    <2> QED BY <1>1, <2>1, <2>2, FoundStays
  <1>3. ASSUME r \notin orphaned'
        PROVE  /\ IndexedAs(r, IF new = Nothing THEN Left(plan) ELSE {})'
               /\ w \in Left(plan) =>
                    /\ \A x \in Statuses : r \in byStatus'[x] => Srem(x) \in Left(plan)
                    /\ \A t \in Tokens : tokens'[t] = r =>
                         DelToken(t) \in Left(plan) \/ (new # Nothing /\ t = new.token)
    <2>1. IndexedAs(r, IF new = Nothing THEN Left(plan) ELSE {})
      BY <1>1, <1>3 DEF InWork
    <2>2. IndexedAs(r, IF new = Nothing THEN Left(plan) ELSE {})'
      BY <2>1, IndexedStays
    <2>3. w \in Left(plan) =>
            /\ \A x \in Statuses : r \in byStatus[x] => Srem(x) \in Left(plan)
            /\ \A t \in Tokens : tokens[t] = r =>
                 DelToken(t) \in Left(plan) \/ (new # Nothing /\ t = new.token)
      BY <1>1, <1>3 DEF InWork
    <2> QED BY <2>2, <2>3 DEF SameView
  <1>4. PlanOK(r, plan, new)
    BY DEF InWork
  <1> QED BY <1>2, <1>3, <1>4 DEF InWork, PlanOK

-----------------------------------------------------------------------------
(* The commands of Redis *)

\* What the head of a plan does to its own saga, and that it does nothing to others.
Effect(s, k, new) ==
  /\ \A r \in Sagas \ {s} :
       /\ records'[r] = records[r]
       /\ (r \in all' <=> r \in all) /\ (r \in byType' <=> r \in byType)
       /\ \A x \in Statuses : r \in byStatus'[x] <=> r \in byStatus[x]
       /\ \A t \in Tokens : tokens'[t] = r <=> tokens[t] = r
  /\ k.cmd \in Clearing(new) =>
       /\ records'[s] = records[s]
       /\ \A x \in Statuses : s \in byStatus'[x] => s \in byStatus[x] /\ k # Srem(x)
       /\ \A t \in Tokens : tokens'[t] = s => tokens[t] = s /\ k # DelToken(t)
  /\ k.cmd = StateWriter(new) =>
       /\ records'[s] = new /\ tokens' = tokens /\ byStatus' = byStatus
  /\ k.cmd \in Settling(new) /\ new # Nothing =>
       /\ records'[s] = records[s]
       /\ s \in all' <=> s \in all \/ k.cmd = "zadd all"
       /\ s \in byType' <=> s \in byType \/ k.cmd = "sadd type"
       /\ \A x \in Statuses : s \in byStatus'[x] <=>
            s \in byStatus[x] \/ (k.cmd = "sadd status" /\ x = new.status)
       /\ \A t \in Tokens : tokens'[t] = s <=>
            tokens[t] = s \/ (k.cmd = "set token" /\ t = new.token)
  /\ k.cmd \in Settling(new) /\ new = Nothing =>
       /\ records'[s] = records[s] /\ tokens' = tokens
       /\ \A x \in Statuses : s \in byStatus'[x] => s \in byStatus[x] /\ k # Srem(x)

LEMMA Effects ==
  ASSUME IndexTypes, records \in [Sagas -> SagaStates \cup {Nothing}],
         NEW c \in Clients, NEW s \in Sagas, NEW k, NEW new \in SagaStates \cup {Nothing},
         new = call[c].new, Executes(c, s, k), TokenOf(s, new),
         k.cmd \in Clearing(new) \cup {StateWriter(new)} \cup Settling(new),
         k.cmd = "del token" => k.token \in TokensOf[s],
         \A r \in Sagas, t \in Tokens : tokens[t] = r => t \in TokensOf[r]
  PROVE  Effect(s, k, new) /\ IndexTypes'
PROOF
  <1> USE DEF IndexTypes
  <1>stages.
      /\ Clearing(new) \subseteq {"srem status", "del token"}
      /\ Settling(new) = IF new = Nothing THEN {"zrem all", "srem status", "srem type"}
                         ELSE {"set token", "zadd all", "sadd status", "sadd type"}
      /\ StateWriter(new) = IF new = Nothing THEN "del state" ELSE "set state"
      /\ Clearing(new) = IF new = Nothing THEN {"del token"} ELSE {"srem status", "del token"}
    BY DEF Clearing, Settling, StateWriter
  <1>apart.
      /\ \A r \in Sagas : r # s => \A t \in TokensOf[s] : t \notin TokensOf[r]
      /\ \A r \in Sagas : NoToken \notin TokensOf[r] /\ r # Nobody
    BY StoreAssumption
  <1>1. CASE k.cmd = "set state" /\ Writes(c, s, new)
    BY <1>stages, <1>1 DEF Effect, Writes, redis
  <1>2. CASE k.cmd = "del state" /\ Writes(c, s, Nothing)
    BY <1>stages, <1>2 DEF Effect, Writes, redis
  <1>fields.
      /\ \A x : k = Srem(x) => k.cmd = "srem status" /\ k.status = x
      /\ \A t : k = DelToken(t) => k.cmd = "del token" /\ k.token = t
    BY Fields
  <1>3. CASE k.cmd = "set token" /\ Token(c, new.token, s)
    <2>1. new # Nothing /\ k.cmd \in Settling(new) /\ k.cmd \notin Clearing(new) \cup {StateWriter(new)}
      BY <1>stages, <1>3
    <2>2. /\ \A t \in Tokens : tokens'[t] = IF t = new.token THEN s ELSE tokens[t]
          /\ IndexTypes'
      BY <1>3 DEF Token
    <2>3. \A r \in Sagas \ {s}, t \in Tokens : tokens[t] = r => t # new.token
      <3>1. new.token \in TokensOf[s] \cup {NoToken}
        BY <2>1 DEF TokenOf
      <3> QED BY <1>apart, <3>1
    <2>4. \A r \in Sagas \ {s}, t \in Tokens : tokens'[t] = r <=> tokens[t] = r
      BY <2>2, <2>3
    <2>5. UNCHANGED <<records, all, byType, byStatus>>
      BY <1>3 DEF Token
    <2>6. \A t \in Tokens : tokens'[t] = s <=> tokens[t] = s \/ t = new.token
      BY <2>2
    <2>7. k.cmd # "zadd all" /\ k.cmd # "sadd type" /\ k.cmd # "sadd status"
      BY <1>3
    <2> HIDE DEF IndexTypes
    <2> QED BY <1>3, <2>1, <2>2, <2>4, <2>5, <2>6, <2>7 DEF Effect
  <1>4. CASE k.cmd = "del token" /\ Token(c, k.token, Nobody)
    <2>1. k.cmd \in Clearing(new) /\ k.cmd \notin {StateWriter(new)} \cup Settling(new)
      BY <1>stages, <1>4
    <2>2. /\ \A t \in Tokens : tokens'[t] = IF t = k.token THEN Nobody ELSE tokens[t]
          /\ IndexTypes'
      BY <1>4 DEF Token
    <2>3. \A r \in Sagas \ {s}, t \in Tokens : tokens[t] = r => t # k.token
      BY <1>apart, <1>4
    <2>4. \A r \in Sagas \ {s}, t \in Tokens : tokens'[t] = r <=> tokens[t] = r
      BY <1>apart, <2>2, <2>3
    <2>5. UNCHANGED <<records, all, byType, byStatus>>
      BY <1>4 DEF Token
    <2>6. \A t \in Tokens : tokens'[t] = s => tokens[t] = s /\ k # DelToken(t)
      BY <1>apart, <1>fields, <1>4, <2>2
    <2>7. \A x : k # Srem(x)
      BY <1>fields, <1>4
    <2> HIDE DEF IndexTypes
    <2> QED BY <2>1, <2>2, <2>4, <2>5, <2>6, <2>7 DEF Effect
  <1>5. CASE k.cmd = "zadd all" /\ Index(all \cup {s}, byType, byStatus)
    BY <1>stages, <1>5 DEF Effect, Index
  <1>6. CASE k.cmd = "zrem all" /\ Index(all \ {s}, byType, byStatus)
    BY <1>stages, <1>fields, <1>6 DEF Effect, Index
  <1>7. CASE k.cmd = "sadd type" /\ Index(all, byType \cup {s}, byStatus)
    BY <1>stages, <1>7 DEF Effect, Index
  <1>8. CASE k.cmd = "srem type" /\ Index(all, byType \ {s}, byStatus)
    BY <1>stages, <1>fields, <1>8 DEF Effect, Index
  <1>9. CASE k.cmd = "sadd status"
             /\ Index(all, byType, [byStatus EXCEPT ![new.status] = @ \cup {s}])
    BY <1>stages, <1>9 DEF Effect, Index
  <1>10. CASE k.cmd = "srem status"
              /\ Index(all, byType, [byStatus EXCEPT ![k.status] = @ \ {s}])
    <2>1. /\ k.cmd \notin {StateWriter(new)} /\ (k.cmd \in Settling(new) => new = Nothing)
      BY <1>stages, <1>10
    <2>2. /\ \A x \in Statuses : byStatus'[x] = IF x = k.status THEN byStatus[x] \ {s} ELSE byStatus[x]
          /\ IndexTypes'
      BY <1>10 DEF Index
    <2>3. UNCHANGED <<records, all, byType, tokens>>
      BY <1>10 DEF Index
    <2>4. \A x \in Statuses : s \in byStatus'[x] => s \in byStatus[x] /\ k # Srem(x)
      BY <1>fields, <2>2
    <2>5. \A r \in Sagas \ {s}, x \in Statuses : r \in byStatus'[x] <=> r \in byStatus[x]
      BY <2>2
    <2>6. \A t : k # DelToken(t)
      BY <1>fields, <1>10
    <2> HIDE DEF IndexTypes
    <2> QED BY <2>1, <2>2, <2>3, <2>4, <2>5, <2>6 DEF Effect
  <1> QED BY <1>stages, <1>1, <1>2, <1>3, <1>4, <1>5, <1>6, <1>7, <1>8, <1>9, <1>10 DEF Executes

\* A command that clears leaves one thing less to clear.
LEMMA ClearingStep ==
  ASSUME NEW s \in Sagas, NEW plan \in Seq(Commands), plan # <<>>,
         NEW new \in SagaStates \cup {Nothing}, InWork(s, plan, new),
         Effect(s, Head(plan), new), orphaned' = orphaned, Head(plan).cmd \in Clearing(new)
  PROVE  InWork(s, Tail(plan), new)'
PROOF
  <1> DEFINE k == Head(plan)
             rest == Tail(plan)
             w == Cmd(StateWriter(new))
  <1>1. /\ PlanOK(s, rest, new) /\ w \in Left(rest) /\ Left(plan) = {k} \cup Left(rest)
    BY PlanTail, LeftTail DEF InWork
  <1>2. /\ records'[s] = records[s]
        /\ \A x \in Statuses : s \in byStatus'[x] => s \in byStatus[x] /\ k # Srem(x)
        /\ \A t \in Tokens : tokens'[t] = s => tokens[t] = s /\ k # DelToken(t)
    BY DEF Effect
  <1> HIDE DEF k, rest, w
  <1>3. Loaded(s)' <=> Loaded(s)
    BY <1>2 DEF Loaded
  <1>4. ASSUME s \notin orphaned
        PROVE  /\ \A x \in Statuses : s \in byStatus[x] =>
                    /\ IF Loaded(s) THEN records[s].status = x
                        ELSE Srem(x) \in (IF new = Nothing THEN Left(plan) ELSE {})
                    /\ Srem(x) \in Left(plan)
               /\ \A t \in Tokens : tokens[t] = s =>
                    /\ Loaded(s) /\ records[s].token = t
                    /\ DelToken(t) \in Left(plan) \/ (new # Nothing /\ t = new.token)
    BY <1>1, <1>4 DEF InWork, IndexedAs, w
  <1>5. ASSUME s \notin orphaned
        PROVE  IndexedAs(s, IF new = Nothing THEN Left(rest) ELSE {})'
    <2>1. ASSUME NEW x \in Statuses, s \in byStatus'[x]
          PROVE  IF Loaded(s)' THEN records'[s].status = x
                 ELSE Srem(x) \in (IF new = Nothing THEN Left(rest) ELSE {})
      BY <1>1, <1>2, <1>3, <1>4, <1>5, <2>1
    <2>2. ASSUME NEW t \in Tokens, tokens'[t] = s
          PROVE  Loaded(s)' /\ records'[s].token = t
      BY <1>2, <1>3, <1>4, <1>5, <2>2
    <2> QED BY <2>1, <2>2 DEF IndexedAs
  <1>6. ASSUME s \notin orphaned
        PROVE  /\ \A x \in Statuses : s \in byStatus'[x] => Srem(x) \in Left(rest)
               /\ \A t \in Tokens : tokens'[t] = s =>
                    DelToken(t) \in Left(rest) \/ (new # Nothing /\ t = new.token)
    BY <1>1, <1>2, <1>4, <1>6
  <1>7. InWork(s, rest, new)'
    BY <1>1, <1>5, <1>6 DEF InWork, PlanOK, w
  <1> QED BY <1>7 DEF rest

\* The state is written: nothing is left of the old one, or the plan is going to remove it.
LEMMA WritingStep ==
  ASSUME NEW s \in Sagas, NEW plan \in Seq(Commands), plan # <<>>,
         NEW new \in SagaStates \cup {Nothing}, InWork(s, plan, new),
         Effect(s, Head(plan), new), orphaned' = orphaned, Head(plan).cmd = StateWriter(new)
  PROVE  InWork(s, Tail(plan), new)'
PROOF
  <1> DEFINE k == Head(plan)
             rest == Tail(plan)
             w == Cmd(StateWriter(new))
  <1>1. /\ PlanOK(s, plan, new) /\ PlanOK(s, rest, new) /\ k = w /\ w \notin Left(rest)
        /\ Left(plan) = {k} \cup Left(rest) /\ k.cmd = StateWriter(new)
    BY PlanTail, LeftTail DEF InWork
  <1>2. records'[s] = new /\ tokens' = tokens /\ byStatus' = byStatus
    BY DEF Effect
  <1> HIDE DEF k, rest, w
  <1>3. Loaded(s)' <=> new # Nothing
    BY <1>2 DEF Loaded
  <1>4. /\ StateWriter(new) \in {"del state", "set state"}
        /\ \A l \in Left(rest) : l.cmd \in Settling(new)
        /\ new # Nothing => Settling(new) = {"set token", "zadd all", "sadd status", "sadd type"}
        /\ new = Nothing => Settling(new) = {"zrem all", "srem status", "srem type"}
    BY <1>1 DEF PlanOK, StateWriter, Settling, w
  <1>5. /\ \A x : Srem(x) # k /\ (Srem(x) \in Left(rest) => new = Nothing)
        /\ \A t : DelToken(t) # k /\ DelToken(t) \notin Left(rest)
    <2>1. ASSUME NEW x
          PROVE  Srem(x) # k /\ (Srem(x) \in Left(rest) => new = Nothing)
      <3>1. Srem(x).cmd = "srem status"
        BY Fields
      <3> QED BY <1>1, <1>4, <3>1
    <2>2. ASSUME NEW t
          PROVE  DelToken(t) # k /\ DelToken(t) \notin Left(rest)
      <3>1. DelToken(t).cmd = "del token"
        BY Fields
      <3> QED BY <1>1, <1>4, <3>1
    <2> QED BY <2>1, <2>2
  <1>6. ASSUME new # Nothing
        PROVE  FoundAs(s, new, Left(rest))'
    <2>1. /\ Cmd("zadd all") # k /\ Cmd("sadd status") # k /\ Cmd("sadd type") # k
          /\ Cmd("set token") # k
      BY <1>1, <1>4, Fields
    <2>2. /\ {Cmd("zadd all"), Cmd("sadd status"), Cmd("sadd type")} \subseteq Left(plan)
          /\ new.token # NoToken => Cmd("set token") \in Left(plan)
      BY <1>1, <1>6 DEF PlanOK, w
    <2> QED BY <1>1, <2>1, <2>2 DEF FoundAs
  <1>7. ASSUME s \notin orphaned
        PROVE  IndexedAs(s, IF new = Nothing THEN Left(rest) ELSE {})'
    <2>1. /\ \A x \in Statuses : s \in byStatus[x] => Srem(x) \in Left(plan)
          /\ \A t \in Tokens : tokens[t] = s =>
               DelToken(t) \in Left(plan) \/ (new # Nothing /\ t = new.token)
      BY <1>1, <1>7 DEF InWork, w
    <2>2. ASSUME NEW x \in Statuses, s \in byStatus'[x]
          PROVE  ~ Loaded(s)' /\ new = Nothing /\ Srem(x) \in Left(rest)
      BY <1>1, <1>2, <1>3, <1>5, <2>1, <2>2
    <2>3. ASSUME NEW t \in Tokens, tokens'[t] = s
          PROVE  Loaded(s)' /\ records'[s].token = t
      BY <1>1, <1>2, <1>3, <1>5, <2>1, <2>3
    <2> QED BY <2>2, <2>3 DEF IndexedAs
  <1>8. InWork(s, rest, new)'
    BY <1>1, <1>2, <1>3, <1>6, <1>7 DEF InWork, PlanOK, w
  <1> QED BY <1>8 DEF rest

\* The indexes follow the state.
LEMMA SettlingStep ==
  ASSUME NEW s \in Sagas, NEW plan \in Seq(Commands), plan # <<>>,
         NEW new \in SagaStates \cup {Nothing}, InWork(s, plan, new),
         Effect(s, Head(plan), new), orphaned' = orphaned, Head(plan).cmd \in Settling(new)
  PROVE  InWork(s, Tail(plan), new)'
PROOF
  <1> DEFINE k == Head(plan)
             rest == Tail(plan)
             w == Cmd(StateWriter(new))
  <1>1. /\ PlanOK(s, rest, new) /\ w \notin Left(plan) /\ w \notin Left(rest)
        /\ Left(plan) = {k} \cup Left(rest) /\ k.cmd \in Settling(new)
    BY PlanTail, LeftTail DEF InWork
  <1>2. records'[s] = records[s]
    BY DEF Effect
  <1>3. Effect(s, k, new)
    OBVIOUS
  <1> HIDE DEF k, rest, w
  <1>4. Loaded(s)' <=> Loaded(s)
    BY <1>2 DEF Loaded
  <1>5. /\ Loaded(s) => new # Nothing /\ records[s] = new /\ FoundAs(s, new, Left(plan))
        /\ new # Nothing /\ s \notin orphaned => Loaded(s)
        /\ s \notin orphaned => IndexedAs(s, IF new = Nothing THEN Left(plan) ELSE {})
    BY <1>1 DEF InWork, w
  <1>6. ASSUME new # Nothing
        PROVE  /\ Loaded(s)' => new # Nothing /\ records'[s] = new /\ FoundAs(s, new, Left(rest))'
               /\ new # Nothing /\ s \notin orphaned => Loaded(s)'
               /\ s \notin orphaned => IndexedAs(s, IF new = Nothing THEN Left(rest) ELSE {})'
    <2>1. /\ s \in all' <=> s \in all \/ k.cmd = "zadd all"
          /\ s \in byType' <=> s \in byType \/ k.cmd = "sadd type"
          /\ \A x \in Statuses : s \in byStatus'[x] <=>
               s \in byStatus[x] \/ (k.cmd = "sadd status" /\ x = new.status)
          /\ \A t \in Tokens : tokens'[t] = s <=>
               tokens[t] = s \/ (k.cmd = "set token" /\ t = new.token)
      BY <1>1, <1>3, <1>6 DEF Effect
    <2>2. new.status \in Statuses /\ new.token \in Tokens \cup {NoToken}
      BY <1>6 DEF SagaStates
    <2>3. ASSUME Loaded(s)
          PROVE  FoundAs(s, new, Left(rest))'
      <3>1. /\ Cmd("zadd all") = k => k.cmd = "zadd all"
            /\ Cmd("sadd status") = k => k.cmd = "sadd status"
            /\ Cmd("sadd type") = k => k.cmd = "sadd type"
            /\ Cmd("set token") = k => k.cmd = "set token"
        BY Fields
      <3> QED BY <1>1, <1>5, <2>1, <2>2, <2>3, <3>1 DEF FoundAs
    <2>4. ASSUME s \notin orphaned
          PROVE  IndexedAs(s, {})'
      <3>1. Loaded(s) /\ Loaded(s)' /\ records'[s] = new /\ records[s] = new /\ IndexedAs(s, {})
        BY <1>2, <1>4, <1>5, <1>6, <2>4
      <3> QED BY <2>1, <3>1 DEF IndexedAs
    <2>5. s \notin orphaned => IndexedAs(s, IF new = Nothing THEN Left(rest) ELSE {})'
      BY <1>6, <2>4
    <2>6. /\ Loaded(s)' => new # Nothing /\ records'[s] = new /\ FoundAs(s, new, Left(rest))'
          /\ new # Nothing /\ s \notin orphaned => Loaded(s)'
      BY <1>2, <1>4, <1>5, <2>3
    <2> QED BY <2>5, <2>6
  <1>7. ASSUME new = Nothing
        PROVE  /\ Loaded(s)' => new # Nothing /\ records'[s] = new /\ FoundAs(s, new, Left(rest))'
               /\ new # Nothing /\ s \notin orphaned => Loaded(s)'
               /\ s \notin orphaned => IndexedAs(s, IF new = Nothing THEN Left(rest) ELSE {})'
    <2>1. /\ tokens' = tokens
          /\ \A x \in Statuses : s \in byStatus'[x] => s \in byStatus[x] /\ k # Srem(x)
      BY <1>1, <1>3, <1>7 DEF Effect
    <2>2. ~ Loaded(s) /\ ~ Loaded(s)'
      BY <1>4, <1>5, <1>7
    <2>3. ASSUME s \notin orphaned
          PROVE  IndexedAs(s, Left(rest))'
      <3>1. IndexedAs(s, Left(plan))
        BY <1>5, <1>7, <2>3
      <3> QED BY <1>1, <2>1, <2>2, <3>1 DEF IndexedAs
    <2>4. s \notin orphaned => IndexedAs(s, IF new = Nothing THEN Left(rest) ELSE {})'
      BY <1>7, <2>3
    <2> QED BY <1>7, <2>2, <2>4
  <1>8. InWork(s, rest, new)'
    BY <1>1, <1>6, <1>7 DEF InWork, PlanOK, w
  <1> QED BY <1>8 DEF rest

LEMMA WorkStep ==
  ASSUME NEW s \in Sagas, NEW plan \in Seq(Commands), plan # <<>>,
         NEW new \in SagaStates \cup {Nothing}, InWork(s, plan, new),
         Effect(s, Head(plan), new), orphaned' = orphaned
  PROVE  InWork(s, Tail(plan), new)'
PROOF
  <1>1. Head(plan).cmd \in Clearing(new) \cup {StateWriter(new)} \cup Settling(new)
    BY PlanTail DEF InWork
  <1> QED BY <1>1, ClearingStep, WritingStep, SettlingStep

\* When nothing is left of a plan, its saga is at rest.
LEMMA WorkDone ==
  ASSUME NEW s \in Sagas, NEW plan, NEW new, InWork(s, plan, new)', Left(plan) = {}
  PROVE  AtRest(s)'
PROOF
  <1>1. Cmd(StateWriter(new)) \notin Left(plan)
    OBVIOUS
  <1>2. /\ Loaded(s)' => records'[s] = new /\ FoundAs(s, new, {})'
        /\ s \notin orphaned' => IndexedAs(s, {})'
    BY <1>1 DEF InWork
  <1> QED BY <1>2 DEF AtRest, FoundAs

-----------------------------------------------------------------------------
(* The steps of the indexes *)

\* What is said of the saga, the plan and the state of a call is said of the call.
LEMMA WorkOf ==
  ASSUME NEW d \in Clients, NEW s, NEW plan, NEW new, InWork(s, plan, new)',
         call'[d].saga = s, todo'[d] = plan, call'[d].new = new
  PROVE  InWork(call[d].saga, todo[d], call[d].new)'
PROOF
  BY DEF InWork

\* The calls a step does not touch, about sagas it does not touch, go on.
LEMMA OthersWork ==
  ASSUME StoreInv, RedisInv, kind = "redis", NEW d \in Clients, InCall(d),
         SameView(call[d].saga), todo'[d] = todo[d], call'[d] = call[d]
  PROVE  InWork(call[d].saga, todo[d], call[d].new)'
PROOF
  <1>1. /\ call[d].saga \in Sagas /\ call[d].new \in SagaStates \cup {Nothing}
        /\ todo[d] \in Seq(Commands) /\ InWork(call[d].saga, todo[d], call[d].new)
    BY Known DEF CallOK, RedisInv
  <1>2. PICK s \in Sagas, plan \in Seq(Commands), new \in SagaStates \cup {Nothing} :
          s = call[d].saga /\ plan = todo[d] /\ new = call[d].new
    BY <1>1
  <1>3. InWork(s, plan, new)
    BY <1>1, <1>2
  <1>4. InWork(s, plan, new)'
    BY <1>2, <1>3, WorkStays
  <1>5. call'[d].saga = s /\ todo'[d] = plan /\ call'[d].new = new
    BY <1>2
  <1> QED BY <1>4, <1>5, WorkOf

\* The sagas a step does not touch, and no call was about, stay at rest.
LEMMA OthersRest ==
  ASSUME StoreInv, RedisInv, kind = "redis", NEW r \in Sagas, SameView(r), r \in torn => r \in torn',
         \A c \in Clients : ~ (InCall(c) /\ call[c].saga = r)
  PROVE  AtRest(r)'
PROOF
  <1>1. AtRest(r) /\ records[r] \in SagaStates \cup {Nothing}
    BY DEF RedisInv, StoreInv, Types, Contract!Stored, Nothing
  <1> QED BY <1>1, RestStays

\* Two calls are about two sagas.
LEMMA OneByOne ==
  ASSUME RedisIsLocked, StoreInv, kind = "redis", NEW c \in Clients, NEW d \in Clients,
         InCall(c), InCall(d), c # d
  PROVE  call[c].saga # call[d].saga
PROOF
  <1>1. locked
    BY RedisLocked
  <1> QED BY <1>1 DEF StoreInv, OneCall

\* What is in an index of Redis when a command of a call is executed.
LEMMA RedisCommand ==
  ASSUME RedisIsLocked, StoreInv, IndexInv, kind = "redis", NEW c \in Clients, Command(c),
         NEW s \in Sagas, NEW plan \in Seq(Commands), NEW new \in SagaStates \cup {Nothing},
         s = call[c].saga, plan = todo[c], new = call[c].new
  PROVE  Effect(s, Head(plan), new) /\ IndexTypes' /\ InWork(s, Tail(plan), new)'
PROOF
  <1>1. InCall(c) /\ plan # <<>> /\ Executes(c, s, Head(plan)) /\ orphaned' = orphaned
    BY DEF Command, InCall
  <1>2. InWork(s, plan, new) /\ TokenOf(s, new)
    BY <1>1 DEF IndexInv, RedisInv, OwnTokens
  <1>3. PlanOK(s, plan, new)
    BY <1>2 DEF InWork
  <1>4. Head(plan).cmd \in Clearing(new) \cup {StateWriter(new)} \cup Settling(new)
    BY <1>1, <1>3, PlanTail
  <1>5. Head(plan) \in Left(plan)
    BY <1>1, LeftTail
  <1>6. Head(plan).cmd = "del token" => Head(plan).token \in TokensOf[s]
    BY <1>3, <1>5 DEF PlanOK
  <1>7. /\ IndexTypes /\ records \in [Sagas -> SagaStates \cup {Nothing}]
        /\ \A r \in Sagas, t \in Tokens : tokens[t] = r => t \in TokensOf[r]
    BY Known DEF IndexInv, OwnTokens
  <1>8. Effect(s, Head(plan), new) /\ IndexTypes'
    BY <1>1, <1>2, <1>4, <1>6, <1>7, Effects
  <1>9. InWork(s, Tail(plan), new)'
    BY <1>1, <1>2, <1>8, WorkStep
  <1> QED BY <1>8, <1>9

\* A command of Redis gives its saga no token but its own.
LEMMA OwnAfterCommand ==
  ASSUME NEW s \in Sagas, NEW k, NEW new \in SagaStates \cup {Nothing}, Effect(s, k, new),
         k.cmd \in Clearing(new) \cup {StateWriter(new)} \cup Settling(new), TokenOf(s, new),
         \A r \in Sagas, t \in Tokens : tokens[t] = r => t \in TokensOf[r]
  PROVE  \A r \in Sagas, t \in Tokens : tokens'[t] = r => t \in TokensOf[r]
PROOF
  <1>1. ASSUME NEW r \in Sagas, NEW t \in Tokens, tokens'[t] = r, r # s
        PROVE  t \in TokensOf[r]
    <2>1. \A q \in Sagas \ {s} : \A u \in Tokens : tokens'[u] = q <=> tokens[u] = q
      BY DEF Effect
    <2> QED BY <1>1, <2>1
  <1>2. ASSUME NEW t \in Tokens, tokens'[t] = s
        PROVE  t \in TokensOf[s]
    <2>1. CASE tokens[t] = s
      BY <2>1
    <2>2. CASE new # Nothing /\ t = new.token
      <3>1. t # NoToken
        BY StoreAssumption DEF Tokens
      <3> QED BY <2>2, <3>1 DEF TokenOf
    <2> QED BY <1>2, <2>1, <2>2 DEF Effect
  <1> QED BY <1>1, <1>2

\* A command of SQL touches no index.
LEMMA SqlCommand ==
  ASSUME StoreInv, kind = "sql", NEW c \in Clients, Command(c)
  PROVE  UNCHANGED redis
PROOF
  <1> DEFINE s == call[c].saga
             k == Head(todo[c])
  <1>1. InCall(c) /\ Executes(c, s, k)
    BY DEF Command, InCall
  <1>2. todo[c][1] \in SqlCommands /\ k = todo[c][1]
    BY <1>1, Known DEF CallOK, InCall
  <1>3. PICK x \in {"INSERT", "UPDATE", "DELETE"} : todo[c][1] = [cmd |-> x]
    BY <1>2 DEF SqlCommands
  <1>4. k = [cmd |-> x]
    BY <1>2, <1>3
  <1> HIDE DEF k
  <1>5. k.cmd \in {"INSERT", "UPDATE", "DELETE"}
    BY <1>3, <1>4
  <1> QED BY <1>1, <1>5 DEF Executes, Writes, SqlUpdate

\* How a command leaves its client.
LEMMA CommandEnds ==
  ASSUME StoreInv, NEW c \in Clients, Command(c)
  PROVE  /\ UNCHANGED <<kind, locked, orphaned>>
         /\ \A d \in Clients \ {c} : todo'[d] = todo[d] /\ call'[d] = call[d]
         /\ \A r \in Sagas \ {call[c].saga} : r \in torn => r \in torn'
         /\ \/ Len(todo[c]) = 1 /\ todo'[c] = <<>>
            \/ todo'[c] = Tail(todo[c]) /\ call'[c] = call[c]
PROOF
  <1>1. /\ todo \in [Clients -> Seq(Commands)]
        /\ call \in [Clients -> [saga : Sagas \cup {Nobody}, new : SagaStates \cup {Nothing}]]
    BY DEF StoreInv, Types
  <1>2. UNCHANGED <<kind, locked, orphaned>>
    BY DEF Command
  <1>3. CASE Len(todo[c]) = 1 /\ Ends(c, "ok") /\ torn' = torn \ {call[c].saga}
    BY <1>1, <1>2, <1>3 DEF Ends
  <1>4. CASE todo' = [todo EXCEPT ![c] = Tail(@)] /\ UNCHANGED <<call, torn>>
    BY <1>1, <1>2, <1>4
  <1> QED BY <1>3, <1>4 DEF Command

LEMMA CommandIndexes ==
  ASSUME RedisIsLocked, StoreInv, IndexInv, NEW c \in Clients, Command(c)
  PROVE  IndexInv'
PROOF
  <1>1. /\ InCall(c) /\ call[c].saga \in Sagas /\ call[c].new \in SagaStates \cup {Nothing}
        /\ todo[c] \in Seq(Commands) /\ kind # "memory"
        /\ records \in [Sagas -> SagaStates \cup {Nothing}]
    BY Known, CommandWrites
  <1>2. PICK s \in Sagas, plan \in Seq(Commands), new \in SagaStates \cup {Nothing} :
          s = call[c].saga /\ plan = todo[c] /\ new = call[c].new
    BY <1>1
  <1>3. /\ UNCHANGED <<kind, locked, orphaned>>
        /\ \A d \in Clients \ {c} : todo'[d] = todo[d] /\ call'[d] = call[d]
        /\ \A r \in Sagas \ {s} : r \in torn => r \in torn'
        /\ \/ Len(plan) = 1 /\ todo'[c] = <<>>
           \/ todo'[c] = Tail(plan) /\ call'[c] = call[c]
    BY <1>2, CommandEnds
  <1>4. TokenOf(s, new) /\ plan # <<>>
    BY <1>1, <1>2 DEF IndexInv, OwnTokens, InCall
  <1>5. ASSUME NEW r \in Sagas
        PROVE  TokenOf(r, records'[r])
    <2>1. TokenOf(r, records[r]) /\ TokenOf(r, Nothing)
      BY DEF IndexInv, OwnTokens, TokenOf
    <2>2. records'[r] \in {records[r], Nothing} \/ (r = s /\ records'[r] = new)
      BY <1>1, <1>2, CommandWrites
    <2> QED BY <1>4, <2>1, <2>2
  <1>6. ASSUME NEW d \in Clients, InCall(d)'
        PROVE  TokenOf(call'[d].saga, call'[d].new)
    BY <1>1, <1>3, <1>6 DEF IndexInv, OwnTokens, InCall
  <1>7. CASE kind = "sql"
    <2>1. UNCHANGED redis
      BY <1>7, SqlCommand
    <2>2. IndexTypes' /\ OwnTokens'
      BY <1>5, <1>6, <2>1 DEF IndexInv, IndexTypes, OwnTokens, redis, TokenOf
    <2> QED BY <1>3, <1>7, <2>2 DEF IndexInv, RedisInv, MemoryInv
  <1>8. CASE kind = "redis"
    <2>1. Effect(s, Head(plan), new) /\ IndexTypes' /\ InWork(s, Tail(plan), new)'
      BY <1>2, <1>8, RedisCommand
    <2>2. InWork(s, plan, new)
      BY <1>1, <1>2, <1>8 DEF IndexInv, RedisInv
    <2>3. Head(plan).cmd \in Clearing(new) \cup {StateWriter(new)} \cup Settling(new)
      BY <1>4, <2>2, PlanTail DEF InWork
    <2>4. \A r \in Sagas, t \in Tokens : tokens'[t] = r => t \in TokensOf[r]
      BY <1>4, <2>1, <2>3, OwnAfterCommand DEF IndexInv, OwnTokens
    <2>5. OwnTokens'
      BY <1>5, <1>6, <2>4 DEF OwnTokens, TokenOf
    <2>6. \A r \in Sagas \ {s} : SameView(r)
      BY <1>3, <2>1 DEF Effect, SameView
    <2>7. ASSUME NEW r \in Sagas, \A d \in Clients : ~ (InCall(d)' /\ call'[d].saga = r)
          PROVE  AtRest(r)'
      <3>1. CASE r # s
        <4>1. \A d \in Clients : ~ (InCall(d) /\ call[d].saga = r)
          BY <1>2, <1>3, <2>7, <3>1 DEF InCall
        <4> QED BY <1>3, <1>8, <2>6, <3>1, <4>1, OthersRest DEF IndexInv
      <3>2. CASE r = s /\ Len(plan) = 1
        <4>1. Left(Tail(plan)) = {}
          BY <1>4, <3>2, LeftTail
        <4> QED BY <2>1, <3>2, <4>1, WorkDone
      <3>3. CASE r = s /\ Tail(plan) = <<>>
        <4>1. Left(Tail(plan)) = {}
          BY <3>3, SmallPlans
        <4> QED BY <2>1, <3>3, <4>1, WorkDone
      <3>4. r # s \/ Len(plan) = 1 \/ Tail(plan) = <<>>
        BY <1>2, <1>3, <2>7 DEF InCall
      <3> QED BY <3>1, <3>2, <3>3, <3>4
    <2>8. ASSUME NEW d \in Clients, InCall(d)'
          PROVE  InWork(call[d].saga, todo[d], call[d].new)'
      <3>1. CASE d = c
        <4>1. call'[d].saga = s /\ todo'[d] = Tail(plan) /\ call'[d].new = new
          BY <1>2, <1>3, <2>8, <3>1 DEF InCall
        <4> QED BY <2>1, <4>1, WorkOf
      <3>2. CASE d # c
        <4>1. InCall(d) /\ todo'[d] = todo[d] /\ call'[d] = call[d]
          BY <1>3, <2>8, <3>2 DEF InCall
        <4>2. call[d].saga \in Sagas \ {s}
          BY <1>1, <1>2, <1>8, <3>2, <4>1, OneByOne, Known DEF CallOK
        <4> QED BY <1>8, <2>6, <4>1, <4>2, OthersWork DEF IndexInv
      <3> QED BY <3>1, <3>2
    <2>9. RedisInv' /\ MemoryInv'
      BY <1>3, <1>8, <2>7, <2>8 DEF RedisInv, MemoryInv
    <2> QED BY <2>1, <2>5, <2>9 DEF IndexInv
  <1>9. kind = "sql" \/ kind = "redis"
    BY <1>1, Known
  <1> QED BY <1>7, <1>8, <1>9

\* A call that starts finds its saga at rest, with a plan for the indexes that name it.
LEMMA WorkStarts ==
  ASSUME NEW s \in Sagas, records[s] \in SagaStates \cup {Nothing}, AtRest(s),
         NEW plan, NEW new \in SagaStates \cup {Nothing}, PlanOK(s, plan, new),
         Cmd(StateWriter(new)) \in Left(plan), NoToken \notin Tokens,
         records[s] # Nothing =>
           /\ Srem(records[s].status) \in Left(plan)
           /\ records[s].token = NoToken \/ DelToken(records[s].token) \in Left(plan)
              \/ (new # Nothing /\ records[s].token = new.token)
  PROVE  InWork(s, plan, new)
PROOF
  <1>1. ASSUME s \notin orphaned
        PROVE  /\ \A x \in Statuses : s \in byStatus[x] => Loaded(s) /\ records[s].status = x
               /\ \A t \in Tokens : tokens[t] = s => Loaded(s) /\ records[s].token = t
    BY <1>1 DEF AtRest, IndexedAs
  <1>2. ASSUME s \notin orphaned
        PROVE  /\ IndexedAs(s, IF new = Nothing THEN Left(plan) ELSE {})
               /\ \A x \in Statuses : s \in byStatus[x] => Srem(x) \in Left(plan)
               /\ \A t \in Tokens : tokens[t] = s =>
                    DelToken(t) \in Left(plan) \/ (new # Nothing /\ t = new.token)
    <2>1. IndexedAs(s, IF new = Nothing THEN Left(plan) ELSE {})
      BY <1>1, <1>2 DEF IndexedAs
    <2>2. \A x \in Statuses : s \in byStatus[x] => Srem(x) \in Left(plan)
      BY <1>1, <1>2 DEF Loaded
    <2>3. ASSUME NEW t \in Tokens, tokens[t] = s
          PROVE  DelToken(t) \in Left(plan) \/ (new # Nothing /\ t = new.token)
      BY <1>1, <1>2, <2>3 DEF Loaded
    <2> QED BY <2>1, <2>2, <2>3
  <1> QED BY <1>2 DEF InWork

LEMMA StartIndexes ==
  ASSUME RedisIsLocked, StoreInv, IndexInv, NEW c \in Clients, NEW s \in Sagas,
         NEW new \in SagaStates \cup {Nothing}, NEW plan \in Seq(Commands),
         kind # "memory", Calls(c, s, new, plan), TokenOf(s, new),
         UNCHANGED <<kind, locked, records, redis, history>>,
         kind = "redis" /\ plan # <<>> =>
           /\ PlanOK(s, plan, new) /\ Cmd(StateWriter(new)) \in Left(plan)
           /\ records[s] # Nothing =>
                /\ Srem(records[s].status) \in Left(plan)
                /\ records[s].token = NoToken \/ DelToken(records[s].token) \in Left(plan)
                   \/ (new # Nothing /\ records[s].token = new.token)
  PROVE  IndexInv'
PROOF
  <1>1. /\ todo \in [Clients -> Seq(Commands)]
        /\ call \in [Clients -> [saga : Sagas \cup {Nobody}, new : SagaStates \cup {Nothing}]]
        /\ records[s] \in SagaStates \cup {Nothing}
    BY Known DEF StoreInv, Types
  <1>2. /\ ~ InCall(c) /\ todo'[c] = plan /\ (locked => Busy(s) = {})
        /\ plan # <<>> => call'[c].saga = s /\ call'[c].new = new
        /\ \A d \in Clients \ {c} : todo'[d] = todo[d] /\ call'[d] = call[d]
    BY <1>1 DEF Calls, InCall
  <1>3. UNCHANGED <<kind, locked, records, tokens, all, byStatus, byType, torn, orphaned>>
    BY DEF redis, history
  <1>4. IndexTypes' /\ MemoryInv'
    BY <1>3 DEF IndexInv, IndexTypes, MemoryInv
  <1>5. OwnTokens'
    <2>1. ASSUME NEW d \in Clients, InCall(d)'
          PROVE  TokenOf(call'[d].saga, call'[d].new)
      <3>1. CASE d = c
        BY <1>2, <2>1, <3>1 DEF InCall
      <3>2. CASE d # c
        BY <1>2, <2>1, <3>2 DEF InCall, IndexInv, OwnTokens
      <3> QED BY <3>1, <3>2
    <2> QED BY <1>3, <2>1 DEF IndexInv, OwnTokens, TokenOf
  <1>6. ASSUME kind = "redis"
        PROVE  RedisInv'
    <2>1. \A r \in Sagas : SameView(r)
      BY <1>3 DEF SameView
    <2>2. ASSUME NEW r \in Sagas, \A d \in Clients : ~ (InCall(d)' /\ call'[d].saga = r)
          PROVE  AtRest(r)'
      <3>1. \A d \in Clients : ~ (InCall(d) /\ call[d].saga = r)
        BY <1>2, <2>2 DEF InCall
      <3> QED BY <1>3, <1>6, <2>1, <3>1, OthersRest DEF IndexInv
    <2>3. ASSUME NEW d \in Clients, InCall(d)'
          PROVE  InWork(call[d].saga, todo[d], call[d].new)'
      <3>1. CASE d = c
        <4>1. plan # <<>> /\ call'[d].saga = s /\ todo'[d] = plan /\ call'[d].new = new
          BY <1>2, <2>3, <3>1 DEF InCall
        <4>2. locked
          BY <1>6, RedisLocked
        <4>3. AtRest(s)
          BY <1>2, <1>6, <4>2 DEF IndexInv, RedisInv, Busy
        <4>4. NoToken \notin Tokens
          BY StoreAssumption DEF Tokens
        <4>5. InWork(s, plan, new)
          BY <1>1, <1>6, <4>1, <4>3, <4>4, WorkStarts
        <4>6. InWork(s, plan, new)'
          BY <2>1, <4>5, WorkStays
        <4> QED BY <4>1, <4>6, WorkOf
      <3>2. CASE d # c
        <4>1. InCall(d) /\ todo'[d] = todo[d] /\ call'[d] = call[d]
          BY <1>2, <2>3, <3>2 DEF InCall
        <4>2. call[d].saga \in Sagas
          BY <4>1, Known DEF CallOK
        <4> QED BY <1>6, <2>1, <4>1, <4>2, OthersWork DEF IndexInv
      <3> QED BY <3>1, <3>2
    <2> QED BY <2>2, <2>3 DEF RedisInv
  <1>7. kind # "redis" => RedisInv'
    BY <1>3 DEF RedisInv
  <1> QED BY <1>4, <1>5, <1>6, <1>7 DEF IndexInv

LEMMA StateIsSomething ==
  ASSUME NEW new \in SagaStates
  PROVE  new # Nothing
PROOF
  <1>1. new.version \in 1..MaxVersion /\ Nothing.version = 0
    BY DEF SagaStates, Nothing, Contract!Nothing
  <1> QED BY <1>1, StoreAssumption

LEMMA SaveIndexes ==
  ASSUME RedisIsLocked, StoreInv, IndexInv, NEW c \in Clients, NEW s \in Sagas,
         NEW new \in SagaStates, new.token \in TokensOf[s] \cup {NoToken}, Save(c, s, new)
  PROVE  IndexInv'
PROOF
  <1> DEFINE plan == IF Conflict(records[s], new) THEN <<>>
                     ELSE IF kind = "sql" THEN SqlPlan(records[s], new)
                     ELSE RedisPlan(records[s], new)
  <1>1. /\ kind # "memory" /\ Calls(c, s, new, plan)
        /\ UNCHANGED <<kind, locked, records, redis, history>>
    BY DEF Save
  <1>2. records[s] \in SagaStates \cup {Nothing} /\ TokenOf(s, records[s]) /\ TokenOf(s, new)
    BY Known DEF IndexInv, OwnTokens, TokenOf
  <1>3. plan \in Seq(Commands)
    <2>1. CASE Conflict(records[s], new)
      BY <2>1
    <2>2. CASE ~ Conflict(records[s], new) /\ kind = "sql"
      BY <1>2, <2>2, SqlPlanFacts
    <2>3. CASE ~ Conflict(records[s], new) /\ kind # "sql"
      BY <1>2, <2>3, RedisPlanFacts
    <2> QED BY <2>1, <2>2, <2>3
  <1>4. ASSUME kind = "redis", plan # <<>>
        PROVE  /\ PlanOK(s, plan, new) /\ Cmd(StateWriter(new)) \in Left(plan)
               /\ records[s] # Nothing =>
                    /\ Srem(records[s].status) \in Left(plan)
                    /\ records[s].token = NoToken \/ DelToken(records[s].token) \in Left(plan)
                       \/ (new # Nothing /\ records[s].token = new.token)
    <2>1. plan = RedisPlan(records[s], new)
      BY <1>4
    <2> HIDE DEF plan
    <2>2. new # Nothing
      BY StateIsSomething
    <2> QED BY <1>2, <2>1, <2>2, SavePlan
  <1> HIDE DEF plan
  <1> QED BY <1>1, <1>2, <1>3, <1>4, StartIndexes

LEMMA DeleteIndexes ==
  ASSUME RedisIsLocked, StoreInv, IndexInv, NEW c \in Clients, NEW s \in Sagas, Delete(c, s)
  PROVE  IndexInv'
PROOF
  <1> DEFINE plan == IF kind = "sql" THEN SqlRemovalPlan ELSE RemovalPlan(records[s])
  <1>1. /\ kind # "memory" /\ Calls(c, s, Nothing, plan) /\ records[s] # Nothing
        /\ UNCHANGED <<kind, locked, records, redis, history>>
    BY DEF Delete
  <1>2. records[s] \in SagaStates /\ TokenOf(s, records[s]) /\ TokenOf(s, Nothing)
    BY <1>1, Known DEF IndexInv, OwnTokens, TokenOf
  <1>3. plan \in Seq(Commands)
    BY <1>2, SqlPlanFacts, RemovalPlanFacts
  <1>4. ASSUME kind = "redis"
        PROVE  /\ PlanOK(s, plan, Nothing) /\ Cmd(StateWriter(Nothing)) \in Left(plan)
               /\ Srem(records[s].status) \in Left(plan)
               /\ records[s].token = NoToken \/ DelToken(records[s].token) \in Left(plan)
    <2>1. plan = RemovalPlan(records[s])
      BY <1>4
    <2> HIDE DEF plan
    <2> QED BY <1>1, <1>2, <2>1, DeletePlan
  <1> HIDE DEF plan
  <1> QED BY <1>1, <1>2, <1>3, <1>4, StartIndexes

LEMMA MemoryIndexes ==
  ASSUME StoreInv, IndexInv, NEW c \in Clients, NEW s \in Sagas,
         NEW new \in SagaStates \cup {Nothing}, TokenOf(s, new),
         (MemoryDelete(c, s) /\ new = Nothing) \/ (MemorySave(c, s, new) /\ new \in SagaStates)
  PROVE  IndexInv'
PROOF
  <1>1. /\ kind = "memory" /\ UNCHANGED <<kind, locked, byStatus>> /\ todo' = [todo EXCEPT ![c] = <<>>]
        /\ call' = [call EXCEPT ![c] = NoCall] /\ todo[c] = <<>>
    BY DEF MemorySave, MemoryDelete, Calls
  <1>2. /\ \A d \in Clients : ~ InCall(d) /\ todo \in [Clients -> Seq(Commands)]
        /\ records \in [Sagas -> SagaStates \cup {Nothing}]
    BY <1>1, Known DEF StoreInv, Types
  <1>3. \A d \in Clients : ~ InCall(d)'
    BY <1>1, <1>2 DEF InCall
  <1>4. CASE UNCHANGED <<records, tokens>>
    BY <1>1, <1>3, <1>4 DEF IndexInv, IndexTypes, RedisInv, MemoryInv, OwnTokens, TokenOf, Loaded
  <1>5. CASE ~ UNCHANGED <<records, tokens>>
    <2>1. /\ records' = [records EXCEPT ![s] = new]
          /\ \A t \in Tokens :
               tokens'[t] = IF new # Nothing /\ t = new.token THEN s
                            ELSE IF records[s] # Nothing /\ records[s].token = t THEN Nobody
                            ELSE tokens[t]
          /\ tokens' \in [Tokens -> Sagas \cup {Nobody}]
      <3>1. tokens \in [Tokens -> Sagas \cup {Nobody}]
        BY DEF IndexInv, IndexTypes
      <3>2. CASE MemoryDelete(c, s) /\ new = Nothing
        BY <3>1, <3>2 DEF MemoryDelete
      <3>3. CASE MemorySave(c, s, new) /\ new \in SagaStates
        <4>1. new # Nothing
          BY <3>3, StateIsSomething
        <4>2. /\ records' = [records EXCEPT ![s] = new]
              /\ tokens' = [t \in Tokens |->
                              IF t = new.token THEN s
                              ELSE IF records[s] # Nothing /\ records[s].token = t THEN Nobody
                              ELSE tokens[t]]
          BY <1>5, <3>3 DEF MemorySave
        <4> QED BY <3>1, <4>1, <4>2
      <3> QED BY <3>2, <3>3
    <2>2. /\ records'[s] = new /\ \A r \in Sagas \ {s} : records'[r] = records[r]
      BY <1>2, <2>1
    <2>3. /\ \A r \in Sagas, t \in Tokens : tokens[t] = r <=> Loaded(r) /\ records[r].token = t
          /\ \A r \in Sagas, t \in Tokens : tokens[t] = r => t \in TokensOf[r]
          /\ \A r \in Sagas : TokenOf(r, records[r])
      BY <1>1 DEF IndexInv, MemoryInv, OwnTokens
    <2>4. /\ \A r \in Sagas : NoToken \notin TokensOf[r] /\ r # Nobody
          /\ \A r \in Sagas \ {s} : TokensOf[s] \cap TokensOf[r] = {}
          /\ NoToken \notin Tokens
      BY StoreAssumption DEF Tokens
    <2>5. ASSUME NEW t \in Tokens
          PROVE  tokens'[t] = s <=> Loaded(s)' /\ records'[s].token = t
      BY <2>1, <2>2, <2>3, <2>4 DEF Loaded
    <2>6. ASSUME NEW r \in Sagas \ {s}, NEW t \in Tokens
          PROVE  tokens'[t] = r <=> tokens[t] = r
      <3>1. tokens[t] = r => t \in TokensOf[r] /\ t \notin TokensOf[s]
        BY <2>3, <2>4
      <3>2. new # Nothing /\ t = new.token => t \in TokensOf[s]
        BY <2>4 DEF TokenOf
      <3>3. records[s] # Nothing /\ records[s].token = t => t \in TokensOf[s]
        BY <2>3, <2>4 DEF TokenOf
      <3> QED BY <2>1, <2>4, <3>1, <3>2, <3>3
    <2>7. MemoryInv'
      <3>1. ASSUME NEW r \in Sagas \ {s}, NEW t \in Tokens
            PROVE  tokens'[t] = r <=> Loaded(r)' /\ records'[r].token = t
        BY <2>2, <2>3, <2>6 DEF Loaded
      <3> QED BY <2>5, <3>1 DEF MemoryInv
    <2>8. OwnTokens'
      <3>1. \A r \in Sagas : TokenOf(r, records'[r])
        BY <2>2, <2>3
      <3>2. ASSUME NEW t \in Tokens, tokens'[t] = s
            PROVE  t \in TokensOf[s]
        BY <2>2, <2>4, <2>5, <3>2 DEF TokenOf, Loaded
      <3>3. \A r \in Sagas, t \in Tokens : tokens'[t] = r => t \in TokensOf[r]
        BY <2>3, <2>6, <3>2
      <3> QED BY <1>3, <3>1, <3>3 DEF OwnTokens, TokenOf
    <2>9. IndexTypes' /\ RedisInv'
      BY <1>1, <2>1 DEF IndexInv, IndexTypes, RedisInv
    <2> QED BY <2>7, <2>8, <2>9 DEF IndexInv
  <1> QED BY <1>4, <1>5

\* A call that is cut off leaves its saga to a torn save, or to indexes without a state.
LEMMA CutOffIndexes ==
  ASSUME RedisIsLocked, StoreInv, IndexInv, NEW c \in Clients, Duplicate(c) \/ CutOff(c)
  PROVE  IndexInv'
PROOF
  <1>1. /\ InCall(c) /\ UNCHANGED <<kind, locked, records, tokens, all, byStatus, byType>>
        /\ todo' = [todo EXCEPT ![c] = <<>>] /\ call' = [call EXCEPT ![c] = NoCall]
    BY DEF Duplicate, CutOff, Ends, redis, InCall
  <1>2. /\ todo \in [Clients -> Seq(Commands)]
        /\ call \in [Clients -> [saga : Sagas \cup {Nobody}, new : SagaStates \cup {Nothing}]]
        /\ call[c].saga \in Sagas /\ call[c].new \in SagaStates \cup {Nothing}
        /\ todo[c] \in Seq(Commands)
    BY <1>1, Known DEF StoreInv, Types, CallOK
  <1>3. todo'[c] = <<>> /\ \A d \in Clients \ {c} : todo'[d] = todo[d] /\ call'[d] = call[d]
    BY <1>1, <1>2
  <1>4. IndexTypes' /\ MemoryInv' /\ OwnTokens'
    BY <1>1, <1>3 DEF IndexInv, IndexTypes, MemoryInv, OwnTokens, TokenOf, Loaded, InCall
  <1>5. kind # "redis" => RedisInv'
    BY <1>1 DEF RedisInv
  <1>6. ASSUME kind = "redis"
        PROVE  RedisInv'
    <2>1. PICK s \in Sagas, plan \in Seq(Commands), new \in SagaStates \cup {Nothing} :
            s = call[c].saga /\ plan = todo[c] /\ new = call[c].new
      BY <1>2
    <2>2. InWork(s, plan, new) /\ plan # <<>>
      BY <1>1, <1>6, <2>1 DEF IndexInv, RedisInv, InCall
    <2>3. CutOff(c)
      <3>1. Head(plan).cmd \in Clearing(new) \cup {StateWriter(new)} \cup Settling(new)
        BY <2>2, PlanTail DEF InWork
      <3>2. Head(plan).cmd # "INSERT"
        BY <3>1 DEF Clearing, StateWriter, Settling
      <3> QED BY <2>1, <3>2 DEF Duplicate
    <2>4. /\ torn' = torn \cup {s} /\ orphaned' = IF new = Nothing THEN orphaned \cup {s} ELSE orphaned
      BY <2>1, <2>3 DEF CutOff
    <2>5. \A r \in Sagas \ {s} : SameView(r)
      BY <1>1, <2>4 DEF SameView
    <2>6. AtRest(s)'
      <3>1. CASE s \in orphaned'
        BY <2>4, <3>1 DEF AtRest
      <3>2. CASE s \notin orphaned'
        <4>1. new # Nothing /\ s \notin orphaned /\ SameView(s)
          BY <1>1, <2>4, <3>2 DEF SameView
        <4>2. IndexedAs(s, {})
          BY <2>2, <4>1 DEF InWork
        <4>3. IndexedAs(s, {})'
          BY <4>1, <4>2, IndexedStays
        <4> QED BY <2>4, <4>3 DEF AtRest
      <3> QED BY <3>1, <3>2
    <2>7. ASSUME NEW r \in Sagas, r # s, \A d \in Clients : ~ (InCall(d)' /\ call'[d].saga = r)
          PROVE  AtRest(r)'
      <3>1. \A d \in Clients : ~ (InCall(d) /\ call[d].saga = r)
        BY <1>3, <2>1, <2>7 DEF InCall
      <3> QED BY <1>6, <2>4, <2>5, <2>7, <3>1, OthersRest DEF IndexInv
    <2>8. ASSUME NEW d \in Clients, InCall(d)'
          PROVE  InWork(call[d].saga, todo[d], call[d].new)'
      <3>1. d # c /\ InCall(d) /\ todo'[d] = todo[d] /\ call'[d] = call[d]
        BY <1>3, <2>8 DEF InCall
      <3>2. call[d].saga \in Sagas \ {s}
        BY <1>1, <1>6, <2>1, <3>1, OneByOne, Known DEF CallOK
      <3> QED BY <1>6, <2>5, <3>1, <3>2, OthersWork DEF IndexInv
    <2> QED BY <2>6, <2>7, <2>8 DEF RedisInv
  <1> QED BY <1>4, <1>5, <1>6 DEF IndexInv

LEMMA ExpireIndexes ==
  ASSUME RedisIsLocked, StoreInv, IndexInv, NEW s \in Sagas, Expire(s)
  PROVE  IndexInv'
PROOF
  <1>1. /\ kind = "redis" /\ records' = [records EXCEPT ![s] = Nothing]
        /\ UNCHANGED <<kind, locked, all, byStatus, byType, todo, call, torn>>
        /\ orphaned' = orphaned \cup {s}
        /\ \/ tokens' = [t \in Tokens |-> IF t \in TokensOf[s] THEN Nobody ELSE tokens[t]]
           \/ tokens' = tokens
    BY DEF Expire, clients
  <1>2. /\ records \in [Sagas -> SagaStates \cup {Nothing}]
        /\ tokens \in [Tokens -> Sagas \cup {Nobody}]
        /\ \A r \in Sagas : Nobody # r
        /\ \A r \in Sagas \ {s} : TokensOf[s] \cap TokensOf[r] = {}
        /\ \A r \in Sagas, t \in Tokens : tokens[t] = r => t \in TokensOf[r]
    BY StoreAssumption DEF StoreInv, Types, Contract!Stored, Nothing, IndexInv, IndexTypes, OwnTokens
  <1>3. /\ records'[s] = Nothing /\ \A r \in Sagas \ {s} : records'[r] = records[r]
    BY <1>1, <1>2
  <1>4. /\ tokens' \in [Tokens -> Sagas \cup {Nobody}]
        /\ \A r \in Sagas, t \in Tokens : tokens'[t] = r => tokens[t] = r
        /\ \A r \in Sagas \ {s}, t \in Tokens : tokens[t] = r => tokens'[t] = r
    BY <1>1, <1>2
  <1>5. \A r \in Sagas \ {s} : SameView(r)
    BY <1>1, <1>3, <1>4 DEF SameView
  <1>6. IndexTypes' /\ MemoryInv'
    BY <1>1, <1>4 DEF IndexInv, IndexTypes, MemoryInv
  <1>7. OwnTokens'
    <2>1. \A r \in Sagas : TokenOf(r, records'[r])
      BY <1>3 DEF IndexInv, OwnTokens, TokenOf
    <2>2. \A r \in Sagas, t \in Tokens : tokens'[t] = r => t \in TokensOf[r]
      BY <1>2, <1>4
    <2>3. \A d \in Clients : InCall(d)' => TokenOf(call'[d].saga, call'[d].new)
      BY <1>1 DEF IndexInv, OwnTokens, InCall
    <2> QED BY <2>1, <2>2, <2>3 DEF OwnTokens, TokenOf
  <1>8. ~ Loaded(s)' /\ s \in orphaned'
    BY <1>1, <1>3 DEF Loaded
  <1>9. ASSUME NEW r \in Sagas, \A d \in Clients : ~ (InCall(d)' /\ call'[d].saga = r)
        PROVE  AtRest(r)'
    <2>1. CASE r = s
      BY <1>8, <2>1 DEF AtRest
    <2>2. CASE r # s
      <3>1. \A d \in Clients : ~ (InCall(d) /\ call[d].saga = r)
        BY <1>1, <1>9 DEF InCall
      <3> QED BY <1>1, <1>5, <2>2, <3>1, OthersRest DEF IndexInv
    <2> QED BY <2>1, <2>2
  <1>10. ASSUME NEW d \in Clients, InCall(d)'
         PROVE  InWork(call[d].saga, todo[d], call[d].new)'
    <2>1. /\ InCall(d) /\ todo'[d] = todo[d] /\ call'[d] = call[d]
      BY <1>1, <1>10 DEF InCall
    <2>2. call[d].saga \in Sagas
      BY <2>1, Known DEF CallOK
    <2>3. CASE call[d].saga = s
      <3>1. PICK plan \in Seq(Commands), new \in SagaStates \cup {Nothing} :
              plan = todo[d] /\ new = call[d].new
        BY Known
      <3>2. PlanOK(s, plan, new)
        BY <1>1, <2>1, <2>3, <3>1 DEF IndexInv, RedisInv, InWork
      <3>3. InWork(s, plan, new)'
        BY <1>8, <3>2 DEF InWork, PlanOK
      <3> QED BY <2>1, <2>3, <3>1, <3>3, WorkOf
    <2>4. CASE call[d].saga # s
      BY <1>1, <1>5, <2>1, <2>2, <2>4, OthersWork DEF IndexInv
    <2> QED BY <2>3, <2>4
  <1> QED BY <1>6, <1>7, <1>9, <1>10 DEF IndexInv, RedisInv

LEMMA IndexInit ==
  ASSUME Init
  PROVE  IndexInv
PROOF
  <1>1. /\ \A t \in Tokens : tokens[t] = Nobody
        /\ \A x \in Statuses : byStatus[x] = {}
        /\ \A s \in Sagas : records[s] = Nothing /\ s # Nobody
        /\ \A c \in Clients : ~ InCall(c)
        /\ tokens \in [Tokens -> Sagas \cup {Nobody}] /\ byStatus \in [Statuses -> SUBSET Sagas]
    BY StoreAssumption DEF Init, InCall
  <1>2. \A s \in Sagas : AtRest(s)
    BY <1>1 DEF AtRest, IndexedAs, Loaded
  <1> QED BY <1>1, <1>2 DEF IndexInv, IndexTypes, RedisInv, MemoryInv, OwnTokens, TokenOf, Loaded

LEMMA IndexStep ==
  ASSUME RedisIsLocked, StoreInv, IndexInv, [Next]_vars
  PROVE  IndexInv'
PROOF
  <1>1. CASE \E c \in Clients, s \in Sagas : \E new \in SagaStates :
               new.token \in TokensOf[s] \cup {NoToken} /\ MemorySave(c, s, new)
    BY <1>1, MemoryIndexes DEF TokenOf
  <1>2. CASE \E c \in Clients, s \in Sagas : \E new \in SagaStates :
               new.token \in TokensOf[s] \cup {NoToken} /\ Save(c, s, new)
    BY <1>2, SaveIndexes
  <1>3. CASE \E c \in Clients, s \in Sagas : MemoryDelete(c, s)
    <2>1. \A s \in Sagas : TokenOf(s, Nothing)
      BY DEF TokenOf
    <2> QED BY <1>3, <2>1, MemoryIndexes
  <1>4. CASE \E c \in Clients, s \in Sagas : Delete(c, s)
    BY <1>4, DeleteIndexes
  <1>5. CASE \E c \in Clients : Command(c)
    BY <1>5, CommandIndexes
  <1>6. CASE \E c \in Clients : Duplicate(c) \/ CutOff(c)
    BY <1>6, CutOffIndexes
  <1>7. CASE \E s \in Sagas : Expire(s)
    BY <1>7, ExpireIndexes
  <1>8. CASE UNCHANGED vars
    <2>1. UNCHANGED <<kind, locked, records, tokens, all, byStatus, byType, todo, call, torn, orphaned>>
      BY <1>8 DEF vars, clients, redis, history
    <2>2. \A r \in Sagas : SameView(r)
      BY <2>1 DEF SameView
    <2>3. IndexTypes' /\ MemoryInv' /\ OwnTokens'
      BY <2>1 DEF IndexInv, IndexTypes, MemoryInv, OwnTokens, InCall, TokenOf, Loaded
    <2>4. ASSUME kind = "redis"
          PROVE  /\ \A r \in Sagas : (\A c \in Clients : ~ (InCall(c)' /\ call'[c].saga = r)) => AtRest(r)'
                 /\ \A d \in Clients : InCall(d)' => InWork(call[d].saga, todo[d], call[d].new)'
      <3>1. ASSUME NEW r \in Sagas, \A c \in Clients : ~ (InCall(c)' /\ call'[c].saga = r)
            PROVE  AtRest(r)'
        <4>1. \A c \in Clients : ~ (InCall(c) /\ call[c].saga = r)
          BY <2>1, <3>1 DEF InCall
        <4> QED BY <2>1, <2>2, <2>4, <4>1, OthersRest DEF IndexInv
      <3>2. ASSUME NEW d \in Clients, InCall(d)'
            PROVE  InWork(call[d].saga, todo[d], call[d].new)'
        <4>1. InCall(d) /\ todo'[d] = todo[d] /\ call'[d] = call[d]
          BY <2>1, <3>2 DEF InCall
        <4>2. call[d].saga \in Sagas
          BY <4>1, Known DEF CallOK
        <4> QED BY <2>2, <2>4, <4>1, <4>2, OthersWork DEF IndexInv
      <3> QED BY <3>1, <3>2
    <2> QED BY <2>1, <2>3, <2>4 DEF IndexInv, RedisInv
  <1> QED BY <1>1, <1>2, <1>3, <1>4, <1>5, <1>6, <1>7, <1>8 DEF Next

-----------------------------------------------------------------------------
(* The reads, one command after the other *)

\* What the indexes of a store say of the saga nobody is saving ...
LEMMA IndexedAtRest ==
  ASSUME StoreInv, IndexInv,
         NEW s \in Sagas, records[s] # Nothing, s \notin torn, Busy(s) = {}
  PROVE  /\ kind = "redis" => s \in all /\ s \in byType /\ s \in byStatus[records[s].status]
         /\ kind \in {"redis", "memory"} /\ records[s].token # NoToken => tokens[records[s].token] = s
PROOF
  <1>1. records[s] \in SagaStates /\ Loaded(s)
    BY DEF StoreInv, Types, Contract!Stored, Nothing, Loaded
  <1>2. records[s].status \in Statuses /\ records[s].token \in Tokens \cup {NoToken}
    BY <1>1 DEF SagaStates
  <1>3. CASE kind = "redis"
    <2>1. AtRest(s)
      BY <1>3 DEF IndexInv, RedisInv, Busy
    <2>2. FoundAs(s, records[s], {})
      BY <1>1, <2>1 DEF AtRest
    <2> QED BY <1>3, <2>2 DEF FoundAs
  <1>4. CASE kind = "memory"
    BY <1>1, <1>2, <1>4 DEF IndexInv, MemoryInv
  <1> QED BY <1>3, <1>4

\* ... and of any saga that is there, even in the middle of a save.
LEMMA IndexedTruly ==
  ASSUME StoreInv, IndexInv, NEW s \in Sagas, records[s] # Nothing, s \notin orphaned
  PROVE  /\ \A x \in Statuses : kind = "redis" /\ s \in byStatus[x] => records[s].status = x
         /\ \A t \in Tokens : kind \in {"redis", "memory"} /\ tokens[t] = s => records[s].token = t
PROOF
  <1>1. Loaded(s)
    BY DEF Loaded
  <1>2. CASE kind = "redis"
    <2>1. CASE \A c \in Clients : ~ (InCall(c) /\ call[c].saga = s)
      BY <1>1, <1>2, <2>1 DEF IndexInv, RedisInv, AtRest, IndexedAs
    <2>2. CASE \E c \in Clients : InCall(c) /\ call[c].saga = s
      BY <1>1, <1>2, <2>2 DEF IndexInv, RedisInv, InWork, IndexedAs
    <2> QED BY <2>1, <2>2
  <1>3. CASE kind = "memory"
    BY <1>1, <1>3 DEF IndexInv, MemoryInv
  <1> QED BY <1>2, <1>3

\* In the store in memory, whose tokens are kept with the states, a token names what is there.
LEMMA MemoryToken ==
  ASSUME StoreInv, IndexInv, kind = "memory", NEW s \in Sagas, NEW t \in Tokens
  PROVE  tokens[t] = s <=> records[s] # Nothing /\ records[s].token = t
PROOF
  BY DEF IndexInv, MemoryInv, Loaded

\* What a reader has been named, and has found, so far.
ReadTypes ==
  /\ query \in [Readers -> Queries \cup {NoQuery}]
  /\ narrowing \in [Readers -> BOOLEAN]
  /\ left \in [Readers -> SUBSET Sagas]
  /\ found \in [Readers -> [Sagas -> SagaStates \cup {Nothing}]]
  /\ steady \in [Readers -> SUBSET Sagas]
  /\ kept \in [Readers -> SUBSET Sagas]
  /\ matched \in [Readers -> SUBSET Sagas]

\* What is asked for now was matched, and nothing else was named; what stands still and is
\* asked for is still named, or found as it is.
ReaderOK(r) ==
  /\ narrowing[r] =>
       query[r].by = "typeAndStatus" /\ kind = "redis" /\ \A s \in Sagas : found[r][s] = Nothing
  /\ query[r] = NoQuery => ~ narrowing[r] /\ left[r] = {} /\ \A s \in Sagas : found[r][s] = Nothing
  /\ query[r] # NoQuery => \A s \in Sagas : Wants(query[r], records[s]) => s \in matched[r]
  /\ \A s \in kept[r] : records[s] # Nothing
  /\ ~ narrowing[r] =>
       \A s \in kept[r] : s \notin orphaned /\ (s \in left[r] \/ found[r][s] # Nothing) => s \in matched[r]
  /\ \A s \in steady[r] :
       /\ Busy(s) = {} /\ s \notin torn
       /\ Wants(query[r], records[s]) => s \in left[r] \/ found[r][s] = records[s]

ReadInv == ReadTypes /\ \A r \in Readers : ReaderOK(r)

LEMMA QueryParts ==
  /\ \A q \in Queries : q # NoQuery
  /\ \A q \in Queries : q.by \in {"status", "typeAndStatus", "token", "type", "all"}
  /\ \A q \in Queries : q.by \in {"status", "typeAndStatus"} => q.key \in Statuses
  /\ \A q \in Queries : q.by = "token" => q.key \in Tokens
PROOF
  BY DEF Queries, NoQuery

\* A read that starts, with what its first command answered.
LEMMA ReadStarts ==
  ASSUME StoreInv, ReadInv, UNCHANGED vars, NEW r \in Readers, NEW q \in Queries,
         NEW N, NEW F \in [Sagas -> SagaStates \cup {Nothing}],
         N \subseteq Sagas, Starts(r, q, N, F),
         kind = "redis" => \A s \in Sagas : F[s] = Nothing,
         ~ (kind = "redis" /\ q.by = "typeAndStatus") => \A s \in Sagas :
           records[s] # Nothing /\ s \notin orphaned /\ (s \in N \/ F[s] # Nothing) => Wants(q, records[s]),
         \A s \in Sagas : Busy(s) = {} /\ s \notin torn /\ Wants(q, records[s]) => s \in N \/ F[s] = records[s]
  PROVE  ReadInv'
PROOF
  <1>1. ReadTypes'
    BY DEF ReadInv, ReadTypes, Starts
  <1>2. UNCHANGED <<kind, records, torn, orphaned>> /\ \A s \in Sagas : Busy(s)' = Busy(s)
    BY DEF vars, clients, history, Busy
  <1>3. /\ query'[r] = q /\ narrowing'[r] = (kind = "redis" /\ q.by = "typeAndStatus") /\ left'[r] = N /\ found'[r] = F
        /\ steady'[r] = {s \in Sagas : Busy(s) = {} /\ s \notin torn}
        /\ kept'[r] = {s \in Sagas : records[s] # Nothing}
        /\ matched'[r] = {s \in Sagas : Wants(q, records[s])}
    BY DEF ReadInv, ReadTypes, Starts
  <1>4. ReaderOK(r)'
    BY <1>2, <1>3, QueryParts DEF ReaderOK
  <1>5. ASSUME NEW p \in Readers, p # r
        PROVE  ReaderOK(p)'
    <2>1. /\ query'[p] = query[p] /\ narrowing'[p] = narrowing[p] /\ left'[p] = left[p] /\ found'[p] = found[p]
          /\ steady'[p] = steady[p] /\ kept'[p] = kept[p] /\ matched'[p] = matched[p]
      BY <1>5 DEF ReadInv, ReadTypes, Starts
    <2>2. steady[p] \subseteq Sagas
      BY DEF ReadInv, ReadTypes
    <2> QED BY <1>2, <2>1, <2>2 DEF ReadInv, ReaderOK
  <1> QED BY <1>1, <1>4, <1>5 DEF ReadInv

LEMMA AtOnceStep ==
  ASSUME StoreInv, IndexInv, ReadInv, UNCHANGED vars, NEW r \in Readers, NEW q \in Queries, ReadAtOnce(r, q)
  PROVE  ReadInv'
PROOF
  <1> DEFINE F == [s \in Sagas |-> IF Selects(q, s) THEN records[s] ELSE Nothing]
  <1>1. records \in [Sagas -> SagaStates \cup {Nothing}] /\ kind \in {"memory", "sql"}
    BY DEF StoreInv, Types, Contract!Stored, Nothing, ReadAtOnce
  <1>2. F \in [Sagas -> SagaStates \cup {Nothing}] /\ Starts(r, q, {}, F)
    BY <1>1 DEF ReadAtOnce
  <1>3. ASSUME NEW s \in Sagas, records[s] # Nothing
        PROVE  Selects(q, s) <=> Wants(q, records[s])
    <2>1. CASE q.by = "token" /\ kind = "memory"
      <3>1. q.key \in Tokens /\ q # NoQuery
        BY <2>1, QueryParts
      <3>2. tokens[q.key] = s <=> records[s].token = q.key
        BY <1>3, <2>1, <3>1, MemoryToken
      <3> QED BY <1>3, <2>1, <3>1, <3>2 DEF Selects, Wants
    <2>2. CASE ~ (q.by = "token" /\ kind = "memory")
      BY <2>2 DEF Selects
    <2> QED BY <2>1, <2>2
  <1>4. ASSUME NEW s \in Sagas, records[s] # Nothing, F[s] # Nothing
        PROVE  Wants(q, records[s])
    BY <1>3, <1>4
  <1>5. ASSUME NEW s \in Sagas, Wants(q, records[s])
        PROVE  F[s] = records[s]
    <2>1. Selects(q, s)
      BY <1>3, <1>5 DEF Wants
    <2> QED BY <2>1
  <1> HIDE DEF F
  <1>6. kind = "redis" => \A s \in Sagas : F[s] = Nothing
    BY <1>1
  <1>7. \A N \in SUBSET Sagas : N = {} /\ Starts(r, q, N, F) => ReadInv'
    BY <1>2, <1>4, <1>5, <1>6, ReadStarts
  <1> QED BY <1>2, <1>7

LEMMA IndexStepStarts ==
  ASSUME StoreInv, IndexInv, ReadInv, UNCHANGED vars, NEW r \in Readers, NEW q \in Queries, ReadIndex(r, q)
  PROVE  ReadInv'
PROOF
  <1>1. kind = "redis" /\ Starts(r, q, Index1(q), NoneFound)
    BY DEF ReadIndex
  <1>2. NoneFound \in [Sagas -> SagaStates \cup {Nothing}] /\ Index1(q) \subseteq Sagas
    BY DEF NoneFound, Index1
  <1>3. ASSUME q.by # "typeAndStatus", NEW s \in Sagas, records[s] # Nothing, s \notin orphaned,
               s \in Index1(q) \/ NoneFound[s] # Nothing
        PROVE  Wants(q, records[s])
    <2>1. s \in Index1(q) /\ q # NoQuery
      BY <1>3, QueryParts DEF NoneFound
    <2>2. CASE q.by = "status"
      BY <1>1, <1>3, <2>1, <2>2, QueryParts, IndexedTruly DEF Index1, Wants
    <2>3. CASE q.by = "token"
      BY <1>1, <1>3, <2>1, <2>3, QueryParts, IndexedTruly DEF Index1, Wants
    <2>4. CASE q.by \in {"type", "all"}
      BY <1>3, <2>1, <2>4 DEF Wants
    <2> QED BY <1>3, <2>2, <2>3, <2>4, QueryParts
  <1>4. ASSUME NEW s \in Sagas, Busy(s) = {}, s \notin torn, Wants(q, records[s])
        PROVE  s \in Index1(q)
    <2>1. records[s] # Nothing
      BY <1>4 DEF Wants
    <2>2. s \in all /\ s \in byType /\ s \in byStatus[records[s].status]
      BY <1>1, <1>4, <2>1, IndexedAtRest
    <2>3. q.by = "token" => records[s].token # NoToken
      BY <1>4, QueryParts, StoreAssumption DEF Wants, Tokens
    <2>4. q.by = "token" => tokens[q.key] = s
      BY <1>1, <1>4, <2>1, <2>3, IndexedAtRest DEF Wants
    <2> QED BY <1>4, <2>2, <2>4, QueryParts DEF Index1, Wants
  <1>5. \A s \in Sagas : NoneFound[s] = Nothing
    BY DEF NoneFound
  <1> QED BY <1>1, <1>2, <1>3, <1>4, <1>5, ReadStarts

LEMMA NarrowStep ==
  ASSUME StoreInv, IndexInv, ReadInv, UNCHANGED vars, NEW r \in Readers, Narrow(r)
  PROVE  ReadInv'
PROOF
  <1>1. UNCHANGED <<query, found, steady, kept, matched>> /\ narrowing[r]
    BY DEF Narrow, past
  <1>2. /\ query[r] \in Queries /\ query[r].by = "typeAndStatus" /\ kind = "redis"
        /\ left[r] \subseteq Sagas /\ kept[r] \subseteq Sagas /\ steady[r] \subseteq Sagas
    BY <1>1 DEF ReadInv, ReadTypes, ReaderOK
  <1>3. query[r] # NoQuery /\ query[r].key \in Statuses
    BY <1>2, QueryParts
  <1>4. UNCHANGED <<kind, records, torn, orphaned>> /\ \A s \in Sagas : Busy(s)' = Busy(s)
    BY DEF vars, clients, history, Busy
  <1>5. /\ narrowing'[r] = FALSE
        /\ left'[r] = left[r] \cap byStatus[query[r].key]
        /\ \A p \in Readers : p # r => narrowing'[p] = narrowing[p] /\ left'[p] = left[p]
    BY DEF ReadInv, ReadTypes, Narrow
  <1>6. ReadTypes'
    <2>1. left' \in [Readers -> SUBSET Sagas]
      BY DEF ReadInv, ReadTypes, Narrow
    <2> QED BY <1>1, <2>1 DEF ReadInv, ReadTypes, Narrow
  <1>7. ASSUME NEW s \in kept[r], s \notin orphaned, s \in left'[r] \/ found[r][s] # Nothing
        PROVE  s \in matched[r]
    <2>1. records[s] # Nothing /\ s \in Sagas
      BY <1>2, <1>7 DEF ReadInv, ReaderOK
    <2>2. found \in [Readers -> [Sagas -> SagaStates \cup {Nothing}]]
      BY DEF ReadInv, ReadTypes
    <2>3. CASE s \in left'[r]
      <3>1. records[s].status = query[r].key
        BY <1>2, <1>3, <1>5, <1>7, <2>1, <2>3, IndexedTruly
      <3>2. Wants(query[r], records[s])
        BY <1>2, <1>3, <2>1, <3>1 DEF Wants
      <3> QED BY <1>3, <2>1, <3>2 DEF ReadInv, ReaderOK
    <2>4. CASE found[r][s] # Nothing
      BY <1>1, <1>7, <2>1, <2>4 DEF ReadInv, ReaderOK
    <2> QED BY <1>7, <2>3, <2>4
  <1>8. ASSUME NEW s \in steady[r], Wants(query[r], records[s])
        PROVE  s \in left'[r] \/ found[r][s] = records[s]
    <2>1. s \in Sagas /\ Busy(s) = {} /\ s \notin torn /\ records[s] # Nothing /\ records[s].status = query[r].key
      BY <1>2, <1>8 DEF ReadInv, ReaderOK, Wants
    <2>2. s \in byStatus[query[r].key]
      BY <1>2, <2>1, IndexedAtRest
    <2> QED BY <1>5, <1>8, <2>2 DEF ReadInv, ReaderOK
  <1>9. ReaderOK(r)'
    BY <1>1, <1>2, <1>3, <1>4, <1>5, <1>7, <1>8 DEF ReadInv, ReaderOK
  <1>10. ASSUME NEW p \in Readers, p # r
         PROVE  ReaderOK(p)'
    <2>1. steady[p] \subseteq Sagas
      BY DEF ReadInv, ReadTypes
    <2> QED BY <1>1, <1>4, <1>5, <1>10, <2>1 DEF ReadInv, ReaderOK
  <1> QED BY <1>6, <1>9, <1>10 DEF ReadInv

LEMMA LoadStep ==
  ASSUME StoreInv, ReadInv, UNCHANGED vars, NEW r \in Readers, NEW z \in Sagas, Load(r, z)
  PROVE  ReadInv'
PROOF
  <1>1. UNCHANGED <<query, narrowing, steady, kept, matched>> /\ ~ narrowing[r] /\ z \in left[r]
    BY DEF Load, past
  <1>2. UNCHANGED <<kind, records, torn, orphaned>> /\ \A s \in Sagas : Busy(s)' = Busy(s)
    BY DEF vars, clients, history, Busy
  <1>3. /\ left'[r] = left[r] \ {z}
        /\ \A s \in Sagas : found'[r][s] = IF s = z THEN records[z] ELSE found[r][s]
        /\ \A p \in Readers : p # r => found'[p] = found[p] /\ left'[p] = left[p]
    BY DEF ReadInv, ReadTypes, Load
  <1>4. ReadTypes'
    <2>1. records[z] \in SagaStates \cup {Nothing}
      BY DEF StoreInv, Types, Contract!Stored, Nothing
    <2>2. found' \in [Readers -> [Sagas -> SagaStates \cup {Nothing}]]
      BY <2>1 DEF ReadInv, ReadTypes, Load
    <2>3. left' \in [Readers -> SUBSET Sagas]
      BY DEF ReadInv, ReadTypes, Load
    <2> QED BY <1>1, <2>2, <2>3 DEF ReadInv, ReadTypes
  <1>5. kept[r] \subseteq Sagas /\ steady[r] \subseteq Sagas
    BY DEF ReadInv, ReadTypes
  <1>6. query[r] # NoQuery
    BY <1>1 DEF ReadInv, ReaderOK
  <1>7. ReaderOK(r)'
    BY <1>1, <1>2, <1>3, <1>5, <1>6 DEF ReadInv, ReaderOK
  <1>8. ASSUME NEW p \in Readers, p # r
        PROVE  ReaderOK(p)'
    <2>1. steady[p] \subseteq Sagas
      BY DEF ReadInv, ReadTypes
    <2> QED BY <1>1, <1>2, <1>3, <1>8, <2>1 DEF ReadInv, ReaderOK
  <1> QED BY <1>4, <1>7, <1>8 DEF ReadInv

LEMMA FailStep ==
  ASSUME ReadInv, UNCHANGED vars, NEW r \in Readers, ReadFails(r)
  PROVE  ReadInv'
PROOF
  <1>1. UNCHANGED <<kind, records, torn, orphaned>> /\ \A s \in Sagas : Busy(s)' = Busy(s)
    BY DEF vars, clients, history, Busy
  <1>2. /\ query'[r] = NoQuery /\ narrowing'[r] = FALSE /\ left'[r] = {} /\ found'[r] = NoneFound
        /\ steady'[r] = {} /\ kept'[r] = {} /\ matched'[r] = {}
    BY DEF ReadInv, ReadTypes, ReadFails
  <1>3. ReadTypes'
    BY DEF ReadInv, ReadTypes, ReadFails, NoneFound
  <1>4. ReaderOK(r)'
    BY <1>2 DEF ReaderOK, NoneFound
  <1>5. ASSUME NEW p \in Readers, p # r
        PROVE  ReaderOK(p)'
    <2>1. /\ query'[p] = query[p] /\ narrowing'[p] = narrowing[p] /\ left'[p] = left[p] /\ found'[p] = found[p]
          /\ steady'[p] = steady[p] /\ kept'[p] = kept[p] /\ matched'[p] = matched[p]
      BY <1>5 DEF ReadInv, ReadTypes, ReadFails
    <2>2. steady[p] \subseteq Sagas
      BY DEF ReadInv, ReadTypes
    <2> QED BY <1>1, <2>1, <2>2 DEF ReadInv, ReaderOK
  <1> QED BY <1>3, <1>4, <1>5 DEF ReadInv

\* The writers leave a read what it has, and take from its history what they touch.
LEMMA KindStays ==
  ASSUME Next
  PROVE  kind' = kind /\ orphaned \subseteq orphaned'
PROOF
  BY DEF Next, MemorySave, MemoryDelete, Save, Delete, Command, Duplicate, CutOff, Expire, history

LEMMA WriteStep ==
  ASSUME ReadInv, Write
  PROVE  ReadInv'
PROOF
  <1>1. kind' = kind /\ orphaned \subseteq orphaned'
    BY KindStays DEF Write
  <1>2. ReadTypes'
    <2>1. query' \in [Readers -> Queries \cup {NoQuery}]
      BY DEF ReadInv, ReadTypes, Write
    <2>2. found' \in [Readers -> [Sagas -> SagaStates \cup {Nothing}]]
      <3>1. NoneFound \in [Sagas -> SagaStates \cup {Nothing}]
        BY DEF NoneFound
      <3> QED BY <3>1 DEF ReadInv, ReadTypes, Write
    <2>3. steady' \in [Readers -> SUBSET Sagas] /\ kept' \in [Readers -> SUBSET Sagas]
          /\ matched' \in [Readers -> SUBSET Sagas]
      BY DEF ReadInv, ReadTypes, Write
    <2> QED BY <2>1, <2>2, <2>3 DEF ReadInv, ReadTypes, Write
  <1>3. ASSUME NEW r \in Readers
        PROVE  ReaderOK(r)'
    <2>1. steady[r] \subseteq Sagas /\ kept[r] \subseteq Sagas /\ matched[r] \subseteq Sagas
      BY DEF ReadInv, ReadTypes
    <2>2. narrowing'[r] = narrowing[r] /\ left'[r] = left[r]
      BY DEF Write
    <2>3. CASE Going(r)
      <3>1. /\ query'[r] = query[r] /\ found'[r] = found[r] /\ query[r] # NoQuery
            /\ steady'[r] = {s \in steady[r] : records'[s] = records[s] /\ Busy(s)' = {} /\ s \notin torn'}
            /\ kept'[r] = {s \in kept[r] : records'[s] # Nothing}
            /\ matched'[r] = {s \in Sagas : s \in matched[r] \/ Wants(query[r], records'[s])}
        BY <2>3 DEF Write, Going
      <3> QED BY <1>1, <2>1, <2>2, <3>1 DEF ReadInv, ReaderOK
    <2>4. CASE ~ Going(r)
      <3>1. /\ query'[r] = NoQuery /\ found'[r] = NoneFound
            /\ steady'[r] = {} /\ kept'[r] = {}
        BY <2>4 DEF Write
      <3>2. ~ narrowing[r] /\ left[r] = {}
        BY <2>4 DEF Going, Answered, ReadInv, ReaderOK
      <3> QED BY <2>2, <3>1, <3>2 DEF ReaderOK, NoneFound
    <2> QED BY <2>3, <2>4
  <1> QED BY <1>2, <1>3 DEF ReadInv

LEMMA ReadStep ==
  ASSUME StoreInv, IndexInv, ReadInv, [ReadNext]_<<vars, answers, past>>
  PROVE  ReadInv'
PROOF
  <1>1. CASE Write
    BY <1>1, WriteStep
  <1>2. CASE \E r \in Readers : Read(r)
    <2>1. PICK r \in Readers : Read(r)
      BY <1>2
    <2>2. UNCHANGED vars
      BY <2>1 DEF Read
    <2> QED BY <2>1, <2>2, AtOnceStep, IndexStepStarts, NarrowStep, LoadStep, FailStep DEF Read
  <1>3. CASE UNCHANGED <<vars, answers, past>>
    <2>1. UNCHANGED <<query, narrowing, left, found, steady, kept, matched, kind, records, torn, orphaned, call>>
      BY <1>3 DEF answers, past, vars, clients, history
    <2>2. ReadTypes'
      BY <2>1 DEF ReadInv, ReadTypes
    <2>3. \A r \in Readers : ReaderOK(r)'
      BY <2>1 DEF ReadInv, ReaderOK, Busy
    <2> QED BY <2>2, <2>3 DEF ReadInv
  <1> QED BY <1>1, <1>2, <1>3 DEF ReadNext

LEMMA ReadStart ==
  ASSUME ReadInit
  PROVE  ReadInv
PROOF
  BY DEF ReadInit, ReadInv, ReadTypes, ReaderOK, NoneFound

\* Readers only read: with them, the stores do what they do without.
LEMMA ReadersOnlyRead == ReadSpec => Spec
PROOF
  <1>1. ReadInit => Init
    BY DEF ReadInit
  <1>2. [ReadNext]_<<vars, answers, past>> => [Next]_vars
    BY DEF ReadNext, Write, Read
  <1> QED BY <1>1, <1>2, PTL DEF ReadSpec, Spec

\* In every store (the one of Redis for writers that hold the saga's lock), list() and
\* findByEventToken(), command by command, miss no saga that stands still and is what was asked
\* for, and name none that was there all the while and never was, but for indexes that outlived
\* a state.
THEOREM ReadsAlwaysAgree ==
  ASSUME RedisIsLocked
  PROVE  ReadSpec => []ReadsAgree
PROOF
  <1>1. Init => IndexInv
    BY IndexInit
  <1>2. StoreInv /\ IndexInv /\ [Next]_vars => IndexInv'
    BY IndexStep
  <1>3. StoreInv /\ IndexInv /\ ReadInv /\ [ReadNext]_<<vars, answers, past>> => ReadInv'
    BY ReadStep
  <1>4. ReadInv => ReadsAgree
    <2>1. ASSUME ReadInv
          PROVE  ReadsComplete
      BY <2>1 DEF ReadInv, ReaderOK, ReadsComplete, Answered
    <2>2. ASSUME ReadInv
          PROVE  ReadsGenuine
      BY <2>2 DEF ReadInv, ReaderOK, ReadsGenuine
    <2> QED BY <2>1, <2>2 DEF ReadsAgree
  <1>5. Spec => []IndexInv
    BY <1>1, <1>2, StoreInvariance, PTL DEF Spec
  <1> QED BY <1>3, <1>4, <1>5, ReadStart, ReadersOnlyRead, StoreInvariance, PTL DEF ReadSpec
=============================================================================

------------------------------ MODULE StoreContract ------------------------------
(***************************************************************************)
(* What the stores of the saga package promise ("optimistic locking via    *)
(* the version field", packages/saga/README.md): a state replaces another  *)
(* one only as its next version.                                           *)
(***************************************************************************)
EXTENDS Integers

CONSTANTS Sagas,
          SagaStates     \* records with a version

VARIABLE records         \* the stored state of each saga, or Nothing

Nothing == [version |-> 0]

Stored == [Sagas -> SagaStates \cup {Nothing}]

Init == records = [s \in Sagas |-> Nothing]

Create(s, new) ==
  /\ records[s] = Nothing
  /\ records' = [records EXCEPT ![s] = new]

Advance(s, new) ==
  /\ records[s] # Nothing /\ new.version = records[s].version + 1
  /\ records' = [records EXCEPT ![s] = new]

Remove(s) ==
  /\ records[s] # Nothing
  /\ records' = [records EXCEPT ![s] = Nothing]

Next == \E s \in Sagas : \/ \E new \in SagaStates : Create(s, new) \/ Advance(s, new)
                         \/ Remove(s)

Spec == Init /\ [][Next]_records

==================================================================================

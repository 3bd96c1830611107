--------------------------------- MODULE MCSaga ---------------------------------
(* Small instances of Saga for TLC. *)
EXTENDS Saga

NoGroups    == {}
MiddleGroup == {2}
AllCalls    == {"resume", "signal", "expireWait", "pause"}   \* recover is a resume
Recovery    == {"recover"}
CallerSymmetry == Permutations(Callers)
=============================================================================

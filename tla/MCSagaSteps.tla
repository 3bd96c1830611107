-------------------------------- MODULE MCSagaSteps --------------------------------
(* Small instances of SagaSteps for TLC. *)
EXTENDS SagaSteps

AllTimed == 1..GroupSize
=====================================================================================

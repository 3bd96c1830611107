--------------------------------- MODULE MCRetry ---------------------------------
(* Small instances of Retry for TLC. *)
EXTENDS Retry
=============================================================================

---------------------------------- MODULE Filters ----------------------------------
(***************************************************************************)
(* Array.prototype.filter(): what is not wanted goes, the rest keeps its   *)
(* order.                                                                  *)
(***************************************************************************)
EXTENDS Integers, Sequences, FiniteSets

\* The entries of a log that are in S.  The k-th of them has k of its kind up to its place.
Only(log, S) ==
  LET Hits == {i \in DOMAIN log : log[i] \in S}
  IN  [k \in 1..Cardinality(Hits) |-> log[CHOOSE i \in Hits : Cardinality(Hits \cap 1..i) = k]]
=============================================================================

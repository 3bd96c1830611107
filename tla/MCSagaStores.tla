------------------------------- MODULE MCSagaStores -------------------------------
(* Small instances of SagaStores and SagaReads for TLC. *)
EXTENDS SagaReads, TLC

CONSTANTS c1, c2, r1, s1, running, waiting, t1, t2

MCTokensOf == s1 :> {t1, t2}
AllDeployments == {<<"memory", FALSE>>, <<"sql", FALSE>>, <<"sql", TRUE>>, <<"redis", TRUE>>}

\* No command tells one client, status or token of the saga from another.
Symmetry == Permutations(Clients) \cup Permutations(Statuses) \cup Permutations({t1, t2})
==================================================================================

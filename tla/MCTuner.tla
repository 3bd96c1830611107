--------------------------------- MODULE MCTuner ---------------------------------
(* Small instances of Tuner for TLC. *)
EXTENDS Tuner

Request(path, duration, failed) == [path |-> path, duration |-> duration, failed |-> failed]

Repeat(n, request) == [i \in 1..n |-> request]

Fast == Request("a", 10, FALSE)
Slow == Request("a", 40, FALSE)
Error == Request("b", 10, TRUE)
Fine == Request("b", 10, FALSE)

\* All fast; an outlier in twenty, and in four; a fast one among slow; an endpoint down; one
\* error in twenty-five; too few requests.
SomeTraffics ==
  {Repeat(4, Fast), <<Slow>> \o Repeat(19, Fast), <<Slow>> \o Repeat(3, Fast), <<Fast>> \o Repeat(3, Slow),
   Repeat(2, Fast) \o Repeat(2, Error), Repeat(24, Fine) \o <<Error>>, <<Slow>>}

Start0 == [threshold |-> 50, timeout |-> 40, retries |-> 3]
=============================================================================

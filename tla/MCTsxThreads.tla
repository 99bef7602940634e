---------------------------- MODULE MCTsxThreads ----------------------------
(* TsxThreads for model checking: the threads are model values.            *)
EXTENDS TsxThreads, TLC

CONSTANTS w1, w2, r1, a1, s1

OneWorker  == {w1}
TwoWorkers == {w1, w2}
OneReader  == {r1}
NoReader   == {}
OneApp     == {a1}
NoApp      == {}
OneSender  == {s1}
Bools      == {TRUE, FALSE}
Yes        == {TRUE}

Symmetry == Permutations({w1, w2})
=============================================================================

---------------------------- MODULE MCFleetAccess ----------------------------
(* FleetAccess on small instances. *)
EXTENDS FleetAccess, TLC

CONSTANTS o1, o2, w1, w2, n1, r1, r2, m1, m2

TwoOperators == {o1, o2}
OneOperator == {o1}
TwoWorkers == {w1, w2}
OneNamespace == {n1}
TwoRequests == {r1, r2}
TwoMoves == {m1, m2}

Alike ==
  Permutations(TwoOperators) \cup Permutations(TwoWorkers)
    \cup Permutations(TwoRequests) \cup Permutations(TwoMoves)
===============================================================================

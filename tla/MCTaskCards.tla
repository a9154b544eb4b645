---------------------------- MODULE MCTaskCards ----------------------------
(* Cards of one pair of threads: w1 of the autonomous workflow, w2 not.      *)
EXTENDS TaskCards, TLC

CONSTANTS w1, w2, t1, t2, t3, o1, o2

Symmetric == Permutations(Turns) \cup Permutations(Ops)
=============================================================================

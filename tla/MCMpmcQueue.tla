---------------------------- MODULE MCMpmcQueue ----------------------------
(* A small instance of MpmcQueue: any thread may push and pop, and the ring  *)
(* goes round.                                                               *)
EXTENDS MpmcQueue, TLC

CONSTANTS a, b, c, x, y

ThreadSet == {a, b, c}
ValueSet == {x, y}

Symmetry == Permutations(Threads) \cup Permutations(Values)
=============================================================================

--------------------------- MODULE MCCommandQueue ---------------------------
(* Two producers and the thread of the world on a ring that fills and wraps. *)
EXTENDS CommandQueue

CONSTANTS p1, p2, world, c1, c2, c3, c4

ThreadSet == {p1, p2, world}
ValueSet == {c1, c2, c3, c4}
Commands == p1 :> <<c1, c2>> @@ p2 :> <<c3, c4>>
=============================================================================

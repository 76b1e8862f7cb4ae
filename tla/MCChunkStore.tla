---------------------------- MODULE MCChunkStore ----------------------------
(***************************************************************************)
(* Three chunks of four cells, two columns of two; 1 is a lamp and 2 a     *)
(* stone.  An entry has 1 bit with one block in the palette, and the       *)
(* direct width of 2 bits with both.                                       *)
(***************************************************************************)
EXTENDS ChunkStore

MCMaxLight == 4
MCEmission == (0 :> 0) @@ (1 :> 4) @@ (2 :> 0)
MCOpacity  == (0 :> 0) @@ (1 :> 4) @@ (2 :> 4)

MCCoords == 0 .. 2
MCSites == {1}
MCLimits == {1, Unlimited}
MCUnlimited == 99

\* A lamp among air; lamps in the western column and stone in the eastern one.
Lamp     == [i \in 0 .. 3 |-> IF i = 1 THEN 1 ELSE 0]
LampWest == [i \in 0 .. 3 |-> IF i % 2 = 0 THEN 1 ELSE 2]

MCFills == {Lamp}
=============================================================================

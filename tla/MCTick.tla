------------------------------- MODULE MCTick -------------------------------
(* Three or two connections.  From 2 a player falls to the floor at 0, and   *)
(* at 1 it stays in the air as long as nobody falls in its chunk.           *)
EXTENDS Tick

TwoConns == 1 .. 2
ThreeConns == 1 .. 3
Heights == {0, 2}
Floor == {0}
Above == 0 .. 1
Line == 0 .. 1
=============================================================================

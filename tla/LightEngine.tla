----------------------------- MODULE LightEngine ----------------------------
(***************************************************************************)
(* The light of one chunk (core/src/instance/light_engine.rs): block light *)
(* spreads from the blocks that emit it and from the boundary of the       *)
(* neighbours through a queue; sky light falls down each column.           *)
(*                                                                         *)
(* The chunks lie in a row, Width columns of Height cells each, one cell   *)
(* deep: of the four neighbours there are those to the east and west, and  *)
(* the other two go the same way.  A boundary is the light of a column.    *)
(***************************************************************************)
EXTENDS Integers, FiniteSetsExt, SequencesExt

CONSTANTS
  Width,       \* columns of a chunk: 16
  Height,      \* cells of a column
  MaxLight,    \* the brightest: 15
  Emission,    \* Emission[id]: the light block id gives
  Opacity      \* Opacity[id]: what light loses in it beyond 1

ASSUME LightAssumption ==
  /\ Width \in Nat \ {0} /\ Height \in Nat \ {0} /\ MaxLight \in Nat
  /\ DOMAIN Emission = DOMAIN Opacity
  /\ \A id \in DOMAIN Emission : {Emission[id], Opacity[id]} \subseteq 0 .. MaxLight

Rows == 0 .. Height - 1
Places == 0 .. Width * Height - 1

At(x, y) == y * Width + x
X(i) == i % Width
Y(i) == i \div Width

Less(n, k) == IF n > k THEN n - k ELSE 0

Dark == [y \in Rows |-> 0]

\* The neighbours of cell i in the chunk, in the order in which they are lit.
Around(i) ==
  (IF X(i) + 1 < Width  THEN <<i + 1>> ELSE <<>>) \o (IF X(i) > 0 THEN <<i - 1>> ELSE <<>>) \o
  (IF Y(i) + 1 < Height THEN <<i + Width>> ELSE <<>>) \o (IF Y(i) > 0 THEN <<i - Width>> ELSE <<>>)

\* Mutant: a cell that has light is not lit again.
RaisedOnce(lit, i, n) ==
  IF lit.light[i] = 0 /\ n > 0
  THEN [light |-> [lit.light EXCEPT ![i] = n],
        queue |-> Append(lit.queue, [cell |-> i, level |-> n])]
  ELSE lit

\* Cell i has at least light n, and goes to the queue if that is new.
Raised(lit, i, n) ==
  IF n > lit.light[i]
  THEN [light |-> [lit.light EXCEPT ![i] = n],
        queue |-> Append(lit.queue, [cell |-> i, level |-> n])]
  ELSE lit

\* One round of the loop over the queue, or nothing once the queue is empty.
Spread(lit, blocks) ==
  LET next == Head(lit.queue)
      lighten(l, j) == Raised(l, j, Less(next.level, 1 + Opacity[blocks[j]]))
  IN  IF lit.queue = <<>> THEN lit
      ELSE FoldLeft(lighten, [lit EXCEPT !.queue = Tail(@)], Around(next.cell))

\* Light only rises: a cell is in the queue at most once for each level.
Flood(lit, blocks) ==
  FoldLeft(LAMBDA l, k : Spread(l, blocks), lit,
           [k \in 1 .. Width * Height * MaxLight |-> k])

\* The light boundary b gives to column x.
Seeded(lit, x, b) ==
  FoldLeft(LAMBDA l, y : Raised(l, At(x, y), b[y]), lit, [k \in 1 .. Height |-> k - 1])

BlockLight(blocks, east, west) ==
  LET dark == [light |-> [i \in Places |-> 0], queue |-> <<>>]
      emitted == FoldLeft(LAMBDA l, i : Raised(l, i, Emission[blocks[i]]), dark,
                          [k \in 1 .. Width * Height |-> k - 1])
  IN  Flood(Seeded(Seeded(emitted, Width - 1, east), 0, west), blocks).light

\* What is above the chunk is bright; each block takes its opacity from the
\* light that goes on below it.
SkyLight(blocks, east, west) ==
  LET above(i) == {j \in Places : X(j) = X(i) /\ Y(j) >= Y(i)}
      fallen(i) == Less(MaxLight, MapThenSumSet(LAMBDA j : Opacity[blocks[j]], above(i)))
      seeds(i) == (IF X(i) = Width - 1 THEN {east[Y(i)]} ELSE {}) \cup
                  (IF X(i) = 0 THEN {west[Y(i)]} ELSE {})
  IN  [i \in Places |-> Max({fallen(i)} \cup seeds(i))]

\* recompute_with_boundary
Lit(blocks, east, west) ==
  [block |-> BlockLight(blocks, [y \in Rows |-> east.block[y]], [y \in Rows |-> west.block[y]]),
   sky   |-> SkyLight(blocks, [y \in Rows |-> east.sky[y]], [y \in Rows |-> west.sky[y]])]

----------------------------------------------------------------------------
(* What block light is: every cell has the most of what it emits, what the   *)
(* boundary gives it and what comes from a neighbour, less 1 and its opacity. *)
(* As light is lost at each cell, only one light satisfies this.              *)
Explained(light, blocks, east, west) ==
  \A i \in Places :
    light[i] = Max({Emission[blocks[i]]}
                   \cup (IF X(i) = Width - 1 THEN {east[Y(i)]} ELSE {})
                   \cup (IF X(i) = 0 THEN {west[Y(i)]} ELSE {})
                   \cup {Less(light[j], 1 + Opacity[blocks[i]]) : j \in ToSet(Around(i))})
=============================================================================

------------------------------- MODULE Section ------------------------------
(***************************************************************************)
(* A section of a chunk (core/src/instance/chunk.rs, Section): the blocks  *)
(* of Volume cells in a palette and an array of entries packed into words. *)
(* Air, block 0, is not in the palette: its entry is the first index that  *)
(* is beyond it, so that a new block in the palette moves the entries of   *)
(* all cells of air.  A section of bits 0 has no entries: every cell holds *)
(* the one block of its palette.                                           *)
(*                                                                         *)
(* The map `palette' from a block to its index is the inverse of           *)
(* palette_ids wherever it is asked, and is left out.  An entry is cut to  *)
(* the width it is written with, and read with the width that is asked.    *)
(***************************************************************************)
EXTENDS Integers, FiniteSetsExt, SequencesExt

CONSTANTS
  Volume,      \* cells of a section: 4096
  WordBits,    \* bits of a word: 64
  MinBits,     \* least width of an entry: 4
  MaxBits,     \* greatest width with a palette: 8
  DirectBits   \* width beyond: 15

ASSUME SectionAssumption ==
  /\ {Volume, WordBits, MinBits, MaxBits, DirectBits} \subseteq Nat \ {0}
  /\ MinBits <= MaxBits /\ MaxBits < DirectBits /\ DirectBits <= WordBits

Cells == 0 .. Volume - 1
Air == 0

\* The powers of two.
Pow2[b \in Nat] == IF b = 0 THEN 1 ELSE 2 * Pow2[b - 1]

\* The bits that n needs, none for 0.
BitsToRepresent(n) == CHOOSE b \in 0 .. n : Pow2[b] > n /\ (b > 0 => Pow2[b - 1] <= n)

BitsForPaletteLen(len) ==
  LET bits == Max({MinBits, BitsToRepresent(len)})
  IN  IF bits > MaxBits THEN DirectBits ELSE bits

AirIndex(s)    == Len(s.palette_ids)
StorageBits(s) == Max({s.bits, BitsToRepresent(AirIndex(s))})

----------------------------------------------------------------------------
(* Entries, packed from the low bits of each word; none lies in two words.  *)

PerWord(bits) == WordBits \div bits

Entry(data, bits, i) ==
  (data[i \div PerWord(bits) + 1] \div Pow2[(i % PerWord(bits)) * bits]) % Pow2[bits]

Packed(entries, bits) ==
  LET per == PerWord(bits)
      kept(w) == {i \in Cells : i \div per + 1 = w}
  IN  [w \in 1 .. (Volume + per - 1) \div per |->
         MapThenSumSet(LAMBDA i : (entries[i] % Pow2[bits]) * Pow2[(i % per) * bits], kept(w))]

WithEntry(s, i, k) ==
  LET bits == StorageBits(s)
      unit == Pow2[(i % PerWord(bits)) * bits]
  IN  IF s.bits = 0 THEN s
      ELSE [s EXCEPT !.data[i \div PerWord(bits) + 1] =
              @ + ((k % Pow2[bits]) - Entry(s.data, bits, i)) * unit]

\* Mutant: the entries of air stay.
RepackedKeepsAir(s, old_bits) ==
  [s EXCEPT !.data = Packed([i \in Cells |-> Entry(s.data, old_bits, i)], StorageBits(s))]

\* The palette has grown by one block: the entries of air follow.
Repacked(s, old_bits) ==
  LET moved(k) == IF k = AirIndex(s) - 1 THEN AirIndex(s) ELSE k
  IN  [s EXCEPT !.data =
         Packed([i \in Cells |-> moved(Entry(s.data, old_bits, i))], StorageBits(s))]

----------------------------------------------------------------------------
(* The operations of a section *)

EmptySection == [palette_ids |-> <<Air>>, bits |-> 0, data |-> <<>>]

\* get_block_id, for all cells.
Blocks(s) ==
  LET bits == StorageBits(s)
      block(k) == IF k < Len(s.palette_ids) THEN s.palette_ids[k + 1] ELSE Air
  IN  [i \in Cells |-> block(IF s.bits = 0 THEN 0 ELSE Entry(s.data, bits, i))]

\* set_block_id, for a cell of the section.
WithBlock(s, i, id) ==
  LET at == SelectInSeq(s.palette_ids, LAMBDA x : x = id)
      first == [s EXCEPT !.palette_ids = <<id>>, !.bits = MinBits]
      ids == Append(s.palette_ids, id)
      grown == Repacked([s EXCEPT !.palette_ids = ids, !.bits = BitsForPaletteLen(Len(ids))],
                        StorageBits(s))
  IN  IF id = Air THEN WithEntry(s, i, AirIndex(s))
      ELSE IF at > 0 THEN WithEntry(s, i, at - 1)
      ELSE IF s.bits = 0
      THEN WithEntry([first EXCEPT !.data = Packed([j \in Cells |-> 1], StorageBits(first))], i, 0)
      ELSE WithEntry(grown, i, Len(ids) - 1)

\* The blocks of f but air, in the order in which they come.
PaletteOf(f) ==
  FoldLeft(LAMBDA seen, i : IF f[i] = Air \/ Contains(seen, f[i]) THEN seen ELSE Append(seen, f[i]),
           <<>>, [k \in 1 .. Volume |-> k - 1])

\* fill_blocks with the blocks f of all cells.  With more than 2^MaxBits - 1 blocks
\* the entry of air is 0, the index of the first block.
Filled(f) ==
  LET ids == PaletteOf(f)
      bits == IF Len(ids) > Pow2[MaxBits] - 1 THEN DirectBits ELSE BitsForPaletteLen(Len(ids))
      entry(id) == IF id # Air THEN SelectInSeq(ids, LAMBDA x : x = id) - 1
                   ELSE IF bits = DirectBits THEN 0 ELSE Len(ids)
  IN  IF ids = <<>> THEN EmptySection
      ELSE [palette_ids |-> ids, bits |-> bits,
            data |-> Packed([i \in Cells |-> entry(f[i])], bits)]
=============================================================================

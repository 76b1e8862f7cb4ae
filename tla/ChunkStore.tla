----------------------------- MODULE ChunkStore -----------------------------
(***************************************************************************)
(* The chunks of one instance (core/src/instance/chunk_store.rs): the      *)
(* table of loaded chunks with its two orders, that of access and that of  *)
(* insertion, by which it forgets chunks beyond max_chunks; the dirty      *)
(* chunks; the light, computed again when a block is written; the loader   *)
(* (loader.rs, MemoryChunkLoader) and bulk edits, whose finalize computes  *)
(* the light in rounds until nothing changes.                              *)
(*                                                                         *)
(* A chunk is one section, the registry of blocks is set, and chunks are   *)
(* numbered along the row of LightEngine.  What finalize has to say to the *)
(* store it says in one step; the loop over its rounds takes one chunk per *)
(* step, in the arbitrary order of a hash set.  Nothing else can run while *)
(* a bulk edit is open, which borrows the store.                           *)
(***************************************************************************)
EXTENDS Section, LightEngine

CONSTANTS
  Coords,      \* numbers of chunks
  Fills,       \* contents given to fill_chunk and to loaded chunks
  Generated,   \* what the generator makes of a chunk
  Limits,      \* arguments of set_max_chunks
  Unlimited,   \* max_chunks is None
  Sites,       \* bound: cells that set_block writes
  MaxRounds,   \* rounds of finalize: 1024
  MaxOps       \* bound: operations

Ids == DOMAIN Emission

ASSUME StoreAssumption ==
  /\ Coords \subseteq Int /\ Volume = Width * Height /\ Sites \subseteq Cells
  /\ IsFiniteSet(Ids) /\ Cardinality(Ids) <= Pow2[WordBits]
  /\ Air \in Ids /\ Emission[Air] = 0 /\ Opacity[Air] = 0
  /\ Fills \subseteq [Cells -> Ids] /\ Generated \in [Cells -> Ids]
  /\ Limits \subseteq Nat \cup {Unlimited} /\ {MaxRounds, MaxOps} \subseteq Nat

VARIABLES
  store,       \* the tables, see EmptyStore
  max_chunks,  \* chunks that may stay loaded
  saved,       \* the chunks of the loader
  edit,        \* the bulk edit, see NoEdit
  ops          \* operations so far

vars == <<store, max_chunks, saved, edit, ops>>

EmptyStore ==
  [chunks          |-> <<>>,    \* loaded chunk -> its section and light
   dirty_chunks    |-> {},
   access_order    |-> <<>>,    \* written last, first
   insertion_order |-> <<>>]    \* inserted first, first

\* pending_dirty has the coordinates of the pending chunks, and is left out.
NoEdit ==
  [phase |-> "none", pending_chunks |-> <<>>, pending_access_order |-> <<>>,
   to_process |-> {}, next_round |-> {}, round |-> 0]

NewLight == [block |-> [i \in Cells |-> 0], sky |-> [i \in Cells |-> 0]]
NewChunk(section) == [section |-> section, light |-> NewLight]

Init ==
  /\ store = EmptyStore
  /\ max_chunks = Unlimited
  /\ saved = <<>>
  /\ edit = NoEdit
  /\ ops = 0

With(f, k, x) == [j \in DOMAIN f \cup {k} |-> IF j = k THEN x ELSE f[j]]
Without(f, k) == [j \in DOMAIN f \ {k} |-> f[j]]
Minus(s, T)   == FoldLeft(LAMBDA kept, x : IF x \in T THEN kept ELSE Append(kept, x), <<>>, s)

\* The order of access after an access to c, that of insertion after one of c.
Accessed(s, c) == <<c>> \o Minus(s, {c})
Inserted(s, c) == Append(Minus(s, {c}), c)

----------------------------------------------------------------------------
(* Light *)

\* The column of light at x of chunk c, dark without the chunk.
Face(chunks, c, x) ==
  IF c \in DOMAIN chunks
  THEN [block |-> [y \in Rows |-> chunks[c].light.block[At(x, y)]],
        sky   |-> [y \in Rows |-> chunks[c].light.sky[At(x, y)]]]
  ELSE [block |-> Dark, sky |-> Dark]

\* recompute_light asks the neighbour in the east for its face in the east.
East(chunks, c) == Face(chunks, c + 1, Width - 1)
West(chunks, c) == Face(chunks, c - 1, 0)

Relit(chunks, c) ==
  IF c \notin DOMAIN chunks THEN chunks
  ELSE [chunks EXCEPT ![c].light =
          Lit(Blocks(chunks[c].section), East(chunks, c), West(chunks, c))]

----------------------------------------------------------------------------
(* Forgetting chunks: the one accessed longest ago, and when no access is    *)
(* known the one inserted first.                                             *)

\* One round of the loop of evict_lru, or nothing once the loop is left.
ForgetOne(S, limit) ==
  LET last == Last(S.access_order)
  IN  IF limit = Unlimited \/ Cardinality(DOMAIN S.chunks) <= limit THEN S
      ELSE IF S.access_order # <<>>
      THEN [S EXCEPT !.access_order = Front(@), !.chunks = Without(@, last),
                     !.insertion_order = IF last \in DOMAIN S.chunks THEN Minus(@, {last}) ELSE @]
      ELSE IF S.insertion_order # <<>>
      THEN [S EXCEPT !.insertion_order = Tail(@),
                     !.chunks = Without(@, Head(S.insertion_order))]
      ELSE S

\* Each round takes a coordinate from one of the orders.
Evicted(S) ==
  FoldLeft(LAMBDA T, k : ForgetOne(T, max_chunks), S,
           [k \in 1 .. Len(S.access_order) + Len(S.insertion_order) |-> k])

----------------------------------------------------------------------------
(* Operations of the store *)

Free == edit.phase = "none" /\ ops < MaxOps
Counted == ops' = ops + 1

Marked(S, c) == [S EXCEPT !.access_order = Accessed(@, c)]

\* A chunk whose section was filled with f, or is new; the light is computed,
\* chunks are forgotten, and only then is the access marked.
LoadChunk(c, f) ==
  /\ Free /\ Counted
  /\ LET in == [store EXCEPT !.chunks = Relit(With(@, c, NewChunk(Filled(f))), c),
                             !.insertion_order = Inserted(@, c)]
     IN  store' = Marked(Evicted(in), c)
  /\ UNCHANGED <<max_chunks, saved, edit>>

\* Mutant: the chunk keeps its place in the order of insertion.
UnloadChunkKeepsPlace(c) ==
  /\ Free /\ Counted
  /\ c \in DOMAIN store.chunks
  /\ store' = [store EXCEPT !.chunks = Without(@, c)]
  /\ UNCHANGED <<max_chunks, saved, edit>>

\* The order of access keeps its coordinates.
UnloadChunk(c) ==
  /\ Free /\ Counted
  /\ c \in DOMAIN store.chunks
  /\ store' = [store EXCEPT !.chunks = Without(@, c), !.insertion_order = Minus(@, {c})]
  /\ UNCHANGED <<max_chunks, saved, edit>>

\* set_block, and set_block_id_world after the division of its coordinates.
SetBlock(c, i, id) ==
  /\ Free /\ Counted
  /\ c \in DOMAIN store.chunks
  /\ LET written == [store.chunks EXCEPT ![c].section = WithBlock(@, i, id)]
         marked == Marked([store EXCEPT !.dirty_chunks = @ \cup {c}], c)
     IN  store' = Evicted([marked EXCEPT !.chunks = Relit(written, c)])
  /\ UNCHANGED <<max_chunks, saved, edit>>

\* set_max_chunks forgets nothing by itself.
SetMaxChunks(n) ==
  /\ Free /\ Counted
  /\ max_chunks' = n
  /\ UNCHANGED <<store, saved, edit>>

\* The generator's blocks are set one by one; the light is not computed.
GetOrGenerateChunk(c) ==
  /\ Free /\ Counted
  /\ LET section == FoldLeft(LAMBDA s, i : WithBlock(s, i, Generated[i]), EmptySection,
                             [k \in 1 .. Volume |-> k - 1])
         in == [store EXCEPT !.chunks = With(@, c, NewChunk(section)),
                             !.insertion_order = Inserted(@, c)]
     IN  store' = Marked(IF c \in DOMAIN store.chunks THEN store ELSE Evicted(in), c)
  /\ UNCHANGED <<max_chunks, saved, edit>>

SaveAll ==
  /\ Free /\ Counted
  /\ saved' = [c \in DOMAIN saved \cup DOMAIN store.chunks |->
                 IF c \in DOMAIN store.chunks THEN store.chunks[c] ELSE saved[c]]
  /\ UNCHANGED <<store, max_chunks, edit>>

\* The keys of the loader come in an arbitrary order; nothing is forgotten,
\* no light computed, no access marked.
LoadAll ==
  /\ Free /\ Counted
  /\ \E keys \in SetToSeqs(DOMAIN saved) :
       store' = [store EXCEPT
         !.chunks = [c \in DOMAIN @ \cup DOMAIN saved |->
                       IF c \in DOMAIN saved THEN saved[c] ELSE @[c]],
         !.insertion_order = Minus(@, DOMAIN saved) \o keys]
  /\ UNCHANGED <<max_chunks, saved, edit>>

TakeDirtyChunks ==
  /\ Free /\ Counted
  /\ store' = [store EXCEPT !.dirty_chunks = {}]
  /\ UNCHANGED <<max_chunks, saved, edit>>

----------------------------------------------------------------------------
(* Bulk edits *)

StartBulkEdit ==
  /\ Free /\ Counted
  /\ edit' = [NoEdit EXCEPT !.phase = "filling"]
  /\ UNCHANGED <<store, max_chunks, saved>>

\* The pending copy of the chunk, the loaded one or a new one is filled.
FillChunk(c, f) ==
  /\ edit.phase = "filling" /\ ops < MaxOps /\ Counted
  /\ LET old == IF c \in DOMAIN edit.pending_chunks THEN edit.pending_chunks[c]
                ELSE IF c \in DOMAIN store.chunks THEN store.chunks[c]
                ELSE NewChunk(EmptySection)
     IN  edit' = [edit EXCEPT
           !.pending_chunks = With(@, c, [old EXCEPT !.section = Filled(f)]),
           !.pending_access_order = Accessed(@, c)]
  /\ UNCHANGED <<store, max_chunks, saved>>

\* abort, or the context is dropped.
Abort ==
  /\ edit.phase = "filling"
  /\ edit' = NoEdit
  /\ UNCHANGED <<store, max_chunks, saved, ops>>

\* Steps 1 to 4 of finalize.  The pending chunks come in an arbitrary order;
\* those accessed last are put in first, and end up behind the others.  Chunks
\* that are not loaded have no light and stay out of the rounds.
Finalize ==
  /\ edit.phase = "filling"
  /\ LET pending == DOMAIN edit.pending_chunks
     IN  \E coords \in SetToSeqs(pending) :
           LET merged == [store EXCEPT
                 !.chunks = [c \in DOMAIN @ \cup pending |->
                               IF c \in pending THEN edit.pending_chunks[c] ELSE @[c]],
                 !.insertion_order = Minus(@, pending) \o coords,
                 !.dirty_chunks = @ \cup pending,
                 !.access_order = Reverse(edit.pending_access_order) \o Minus(@, pending)]
           IN  /\ store' = Evicted(merged)
               /\ edit' = [NoEdit EXCEPT !.phase = "relight", !.to_process =
                             merged.dirty_chunks \cap DOMAIN store'.chunks]
  /\ UNCHANGED <<max_chunks, saved, ops>>

\* Mutant: the neighbours of a chunk whose light changed are not looked at.
RelightAlone(c) ==
  /\ edit.phase = "relight" /\ c \in edit.to_process
  /\ store' = [store EXCEPT !.chunks = Relit(@, c)]
  /\ edit' = [edit EXCEPT !.to_process = @ \ {c}]
  /\ UNCHANGED <<max_chunks, saved, ops>>

\* Step 5: one chunk of the round; if its light changed its neighbours are in
\* the next round.
Relight(c) ==
  /\ edit.phase = "relight" /\ c \in edit.to_process
  /\ LET relit == Relit(store.chunks, c)
     IN  /\ store' = [store EXCEPT !.chunks = relit]
         /\ edit' = [edit EXCEPT
              !.to_process = @ \ {c},
              !.next_round = IF relit = store.chunks THEN @
                              ELSE @ \cup ({c - 1, c + 1} \cap DOMAIN relit)]
  /\ UNCHANGED <<max_chunks, saved, ops>>

NextRound ==
  /\ edit.phase = "relight" /\ edit.to_process = {}
  /\ edit.next_round # {} /\ edit.round + 1 < MaxRounds
  /\ edit' = [edit EXCEPT !.to_process = edit.next_round, !.next_round = {}, !.round = @ + 1]
  /\ UNCHANGED <<store, max_chunks, saved, ops>>

\* Step 6.
FinalizeReturns ==
  /\ edit.phase = "relight" /\ edit.to_process = {}
  /\ edit.next_round = {} \/ edit.round + 1 >= MaxRounds
  /\ store' = [store EXCEPT !.dirty_chunks = {}]
  /\ edit' = NoEdit
  /\ UNCHANGED <<max_chunks, saved, ops>>

BulkEdit ==
  \/ StartBulkEdit \/ Abort \/ Finalize \/ NextRound \/ FinalizeReturns
  \/ \E c \in Coords, f \in Fills : FillChunk(c, f)
  \/ \E c \in edit.to_process : Relight(c)

Next ==
  \/ \E c \in Coords :
       \/ \E f \in Fills : LoadChunk(c, f)
       \/ \E i \in Sites, id \in Ids : SetBlock(c, i, id)
       \/ UnloadChunk(c) \/ GetOrGenerateChunk(c)
  \/ \E n \in Limits : SetMaxChunks(n)
  \/ SaveAll \/ LoadAll \/ TakeDirtyChunks
  \/ BulkEdit

Spec == Init /\ [][Next]_vars

----------------------------------------------------------------------------
(* Properties *)

\* The order of insertion has every loaded chunk once and nothing else, so that
\* forgetting chunks always ends below the limit, also after chunks were loaded
\* without an access, unloaded, or accessed and gone (chunk_store.rs:49-58).
OrderIsLoaded ==
  /\ IsInjective(store.insertion_order)
  /\ ToSet(store.insertion_order) = DOMAIN store.chunks
  /\ IsInjective(store.access_order)

\* The block light of chunk c in S is the one its blocks and the light of the
\* neighbours in T demand.
LightRight(S, c, T) ==
  Explained(S.chunks[c].light.block, Blocks(S.chunks[c].section),
            East(T.chunks, c).block, West(T.chunks, c).block)

\* When finalize returns, the light of every chunk it was concerned with is right
\* for the neighbours as they are then: none was computed from light that has
\* changed since (chunk_store.rs:545-567).  When a block is written, light that it
\* took away is gone and light that it let through is there
\* (light_engine.rs:204-314).
LightsRight ==
  [][/\ FinalizeReturns =>
          \A c \in store.dirty_chunks \cap DOMAIN store.chunks : LightRight(store, c, store)
     /\ \A c \in store'.dirty_chunks \cap DOMAIN store'.chunks, i \in Sites, id \in Ids :
          SetBlock(c, i, id) => LightRight(store', c, store)]_vars

BlocksOf(chunks) == [c \in DOMAIN chunks |-> Blocks(chunks[c].section)]

Table == INSTANCE ChunkTable WITH
  table  <- BlocksOf(store.chunks),
  limit  <- max_chunks,
  draft  <- BlocksOf(edit.pending_chunks),
  backup <- BlocksOf(saved),
  Contents <- Fills \cup {Generated}

\* The store implements a table of blocks: no block changes when the palette of
\* its section grows and its entries are packed anew, chunks are forgotten only
\* beyond the limit and exactly as many, and a bulk edit is committed at once
\* or not at all.
ImplementsTable == Table!TSpec

\* The light of a chunk goes on in its neighbour: after a write no cell at the
\* boundary is darker than the neighbour's cell beside it
\* (light_engine.rs:16-18, 498-518; chunk_store.rs:381-385).
SeamsLit ==
  [][\A c \in Coords, i \in Sites, id \in Ids :
       SetBlock(c, i, id) /\ {c, c + 1} \subseteq DOMAIN store'.chunks =>
         \A y \in Rows : store'.chunks[c].light.block[At(Width - 1, y)]
                           >= store'.chunks[c + 1].light.block[At(0, y)]]_vars
=============================================================================

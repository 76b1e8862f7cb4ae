------------------------------- MODULE Worlds -------------------------------
(***************************************************************************)
(* The entities of the ECS worlds: the slot allocator of ecs/src/entity.rs,*)
(* the archetype storage of world.rs with its aligned (SoA) and sparse     *)
(* columns, and migrate_entity of migration.rs, which moves an entity from *)
(* one world to another.  An operation on a handle that is not alive, or   *)
(* on a component the archetype does not have, returns an error and        *)
(* changes nothing.                                                        *)
(*                                                                         *)
(* All entities are of kind 0, the kind spawn_empty gives them.  A handle  *)
(* has 24 bits for the generation, GenLimit values; the arena counts in 32 *)
(* bits, and what exceeds the limit runs over into the kind (the release   *)
(* build; a debug build stops there).  Positions in slots and aligned      *)
(* columns count from 1.                                                   *)
(***************************************************************************)
EXTENDS Naturals, Sequences, SequencesExt

CONSTANTS
  WorldSet,    \* the worlds
  Archetypes,  \* archetypes, registered in every world
  Components,  \* component types of every archetype
  Sparse,      \* those stored in sparse sets, the others in aligned columns
  Values,      \* component values
  Default,     \* the default of an aligned component, no value of a sparse one
  GenLimit,    \* generations a handle can hold: 2^24
  MaxGen,      \* bound: slots of this generation are not reused
  MaxSlots     \* bound: slots of a world

ASSUME SparseAssumption   == Sparse \subseteq Components
ASSUME DefaultAssumption  == Default \notin Values
ASSUME GenLimitAssumption == GenLimit \in Nat \ {0}
ASSUME BoundAssumption    == MaxGen \in Nat /\ MaxSlots \in Nat

VARIABLES
  world,       \* world[w]: the tables of w, see EmptyWorld
  answer       \* what a migration returned, if that was the last operation

wvars == <<world, answer>>

Aligned == Components \ Sparse

\* from_parts, for kind 0.
Handle(g, s) == [kind |-> g \div GenLimit, gen |-> g % GenLimit, slot |-> s]

Handles == {Handle(g, s) : g \in 0 .. MaxGen, s \in 0 .. MaxSlots - 1}

EmptyWorld ==
  [arena        |-> <<>>,    \* arena[s + 1]: generation and occupancy of slot s
   free         |-> <<>>,    \* stack of the slots that can be reused
   slots        |-> [a \in Archetypes |-> <<>>],
   entity_index |-> <<>>,    \* live entity -> its archetype and position there
   ready        |-> [a \in Archetypes |-> {}],  \* components that have a column
   columns      |-> [a \in Archetypes |-> [c \in Components |-> <<>>]]]

WInit ==
  /\ world = [w \in WorldSet |-> EmptyWorld]
  /\ answer = "none"

With(f, k, x) == [j \in DOMAIN f \cup {k} |-> IF j = k THEN x ELSE f[j]]
Without(f, k) == [j \in DOMAIN f \ {k} |-> f[j]]

SwapRemove(s, i) == [k \in 1 .. Len(s) - 1 |-> IF k = i THEN s[Len(s)] ELSE s[k]]

----------------------------------------------------------------------------
(* The allocator.  Each operator returns the entity and the arena after.    *)

IsAlive(W, e) ==
  /\ e.kind = 0 /\ e.slot < Len(W.arena)
  /\ W.arena[e.slot + 1] = [gen |-> e.gen, occupied |-> TRUE]

Occupied(g) == [gen |-> g, occupied |-> TRUE]
Vacant(g)   == [gen |-> g, occupied |-> FALSE]

\* The slot freed last is reused with the next generation; without one a slot
\* is added.
Allocate(W) ==
  IF W.free # <<>>
  THEN LET s == Last(W.free)
           g == W.arena[s + 1].gen + 1
       IN  [entity |-> Handle(g, s), free |-> Front(W.free),
            arena  |-> [W.arena EXCEPT ![s + 1] = Occupied(g)]]
  ELSE [entity |-> Handle(0, Len(W.arena)), free |-> W.free,
        arena  |-> Append(W.arena, Occupied(0))]

\* Bounds of the model.
CanAllocate(W) ==
  IF W.free # <<>> THEN W.arena[Last(W.free) + 1].gen < MaxGen
                   ELSE Len(W.arena) < MaxSlots

SlotVacant(W, e) == e.slot < Len(W.arena) => ~W.arena[e.slot + 1].occupied

\* Mutant: the arena does not grow as far as the slot.
AllocateExactShort(W, e) ==
  [entity |-> e,
   free   |-> W.free,
   arena  |-> [W.arena EXCEPT ![e.slot + 1] = Occupied(e.gen)]]

\* The vacant slot e names is taken with e's generation.  The arena grows as
\* far as the slot; the slots it skips stay out of the stack.
AllocateExact(W, e) ==
  LET at == SelectInSeq(W.free, LAMBDA s : s = e.slot)
  IN  [entity |-> e,
       free   |-> IF at = 0 THEN W.free ELSE SwapRemove(W.free, at),
       arena  |-> [k \in 1 .. (IF e.slot < Len(W.arena) THEN Len(W.arena) ELSE e.slot + 1) |->
                     IF k = e.slot + 1 THEN Occupied(e.gen)
                     ELSE IF k <= Len(W.arena) THEN W.arena[k] ELSE Vacant(0)]]

----------------------------------------------------------------------------
(* The world *)

\* The allocated entity takes the next position of archetype a, with the
\* default in every aligned column.
Placed(W, a, allocated) ==
  [W EXCEPT
     !.arena = allocated.arena,
     !.free = allocated.free,
     !.slots[a] = Append(@, allocated.entity),
     !.entity_index = With(@, allocated.entity, <<a, Len(W.slots[a]) + 1>>),
     !.columns[a] = [c \in Components |->
        IF c \in W.ready[a] \cap Aligned THEN Append(@[c], Default) ELSE @[c]]]

\* Mutant: the values of sparse components are left.
DespawnedKeepsSparse(W, e) ==
  LET a == W.entity_index[e][1]
      i == W.entity_index[e][2]
      left == SwapRemove(W.slots[a], i)
      index == Without(W.entity_index, e)
      alive == IsAlive(W, e)
  IN  [W EXCEPT
         !.slots[a] = left,
         !.columns[a] = [c \in Components |->
            IF c \in Sparse \/ c \notin W.ready[a] THEN @[c] ELSE SwapRemove(@[c], i)],
         !.entity_index = IF i <= Len(left) THEN With(index, left[i], <<a, i>>) ELSE index,
         !.arena = IF alive THEN [@ EXCEPT ![e.slot + 1] = Vacant(e.gen)] ELSE @,
         !.free = IF alive THEN Append(@, e.slot) ELSE @]

\* Mutant: the entity that moves keeps its old position.
DespawnedStaleIndex(W, e) ==
  LET a == W.entity_index[e][1]
      i == W.entity_index[e][2]
      alive == IsAlive(W, e)
  IN  [W EXCEPT
         !.slots[a] = SwapRemove(@, i),
         !.columns[a] = [c \in Components |->
            IF c \in Sparse THEN Without(@[c], e.slot)
            ELSE IF c \in W.ready[a] THEN SwapRemove(@[c], i) ELSE @[c]],
         !.entity_index = Without(@, e),
         !.arena = IF alive THEN [@ EXCEPT ![e.slot + 1] = Vacant(e.gen)] ELSE @,
         !.free = IF alive THEN Append(@, e.slot) ELSE @]

\* The last entity of the archetype takes the position of the one that goes,
\* in slots and in the aligned columns alike; deallocate checks the handle.
Despawned(W, e) ==
  LET a == W.entity_index[e][1]
      i == W.entity_index[e][2]
      left == SwapRemove(W.slots[a], i)
      index == Without(W.entity_index, e)
      alive == IsAlive(W, e)
  IN  [W EXCEPT
         !.slots[a] = left,
         !.columns[a] = [c \in Components |->
            IF c \in Sparse THEN Without(@[c], e.slot)
            ELSE IF c \in W.ready[a] THEN SwapRemove(@[c], i) ELSE @[c]],
         !.entity_index = IF i <= Len(left) THEN With(index, left[i], <<a, i>>) ELSE index,
         !.arena = IF alive THEN [@ EXCEPT ![e.slot + 1] = Vacant(e.gen)] ELSE @,
         !.free = IF alive THEN Append(@, e.slot) ELSE @]

\* Component c of e has value v: its place in the column.
Written(W, e, c, v) ==
  LET a == W.entity_index[e][1]
      i == W.entity_index[e][2]
  IN  IF c \in Sparse THEN [W EXCEPT !.columns[a][c] = With(@, e.slot, v)]
      ELSE [W EXCEPT !.columns[a][c][i] = v]

\* A column is created when its component is first inserted, an aligned one
\* with the default for every entity there.
MadeReady(W, a, c) ==
  IF c \in W.ready[a] THEN W
  ELSE [W EXCEPT !.ready[a] = @ \cup {c},
                 !.columns[a][c] = IF c \in Sparse THEN <<>>
                                   ELSE [i \in DOMAIN W.slots[a] |-> Default]]

\* What get returns; a column that is not there counts as the default.
Value(W, e, c) ==
  LET a == W.entity_index[e][1]
      i == W.entity_index[e][2]
      column == W.columns[a][c]
  IN  IF c \notin W.ready[a] THEN Default
      ELSE IF c \in Aligned THEN column[i]
      ELSE IF e.slot \in DOMAIN column THEN column[e.slot] ELSE Default

Live(w) == DOMAIN world[w].entity_index

----------------------------------------------------------------------------
(* Operations *)

Spawn(w, a) ==
  /\ CanAllocate(world[w])
  /\ world' = [world EXCEPT ![w] = Placed(@, a, Allocate(@))]
  /\ answer' = "none"

Insert(w, e, c, v) ==
  /\ e \in Live(w) /\ IsAlive(world[w], e)
  /\ world' = [world EXCEPT
       ![w] = Written(MadeReady(@, @.entity_index[e][1], c), e, c, v)]
  /\ answer' = "none"

\* An aligned component goes back to its default, a sparse one is taken out.
RemoveComponent(w, e, c) ==
  /\ e \in Live(w) /\ IsAlive(world[w], e)
  /\ LET W == world[w]
         a == W.entity_index[e][1]
     IN  /\ c \in W.ready[a]
         /\ world' = [world EXCEPT ![w] =
              IF c \in Sparse THEN [W EXCEPT !.columns[a][c] = Without(W.columns[a][c], e.slot)]
              ELSE Written(W, e, c, Default)]
  /\ answer' = "none"

\* despawn asks the index, not the arena, whether the entity exists.
Despawn(w, e) ==
  /\ e \in Live(w)
  /\ world' = [world EXCEPT ![w] = Despawned(@, e)]
  /\ answer' = "none"

\* The components that have a value to take along.
Taken(W, e) ==
  LET a == W.entity_index[e][1]
  IN  {c \in W.ready[a] : c \in Aligned \/ e.slot \in DOMAIN W.columns[a][c]}

\* W with the values that `from' has for e in the components cs given to new.
Given(W, from, e, new, cs) ==
  LET a == W.entity_index[new][1]
      i == W.entity_index[new][2]
  IN  [W EXCEPT !.columns[a] = [c \in Components |->
         IF c \notin cs THEN @[c]
         ELSE IF c \in Sparse THEN With(@[c], new.slot, Value(from, e, c))
         ELSE [@[c] EXCEPT ![i] = Value(from, e, c)]]]

\* The entity is taken out of v with its values before it is placed in w, with
\* its handle if the slot is vacant there.  A value whose component has no
\* column in w stops the migration where it is; the values are given in an
\* arbitrary order.
MigrateEntity(v, w, e) ==
  /\ v # w
  /\ e \in Live(v) /\ IsAlive(world[v], e)
  /\ LET a == world[v].entity_index[e][1]
         exact == SlotVacant(world[w], e)
         allocated == IF exact THEN AllocateExact(world[w], e) ELSE Allocate(world[w])
         placed == Placed(world[w], a, allocated)
         taken == Taken(world[v], e)
         fit == taken \cap world[w].ready[a]
     IN  /\ exact \/ CanAllocate(world[w])
         /\ \E given \in SUBSET fit :
              /\ taken = fit => given = fit
              /\ world' = [world EXCEPT
                   ![v] = Despawned(@, e),
                   ![w] = Given(placed, world[v], e, allocated.entity, given)]
         /\ answer' = IF taken = fit THEN "ok" ELSE "failed"

WNext ==
  \/ \E w \in WorldSet, a \in Archetypes : Spawn(w, a)
  \/ \E w \in WorldSet : \E e \in Live(w) :
       \/ Despawn(w, e)
       \/ \E c \in Components : RemoveComponent(w, e, c) \/ \E v \in Values : Insert(w, e, c, v)
       \/ \E v \in WorldSet : MigrateEntity(w, v, e)

WSpec == WInit /\ [][WNext]_wvars

----------------------------------------------------------------------------
(* Properties *)

\* Every part of a world stays in its set, and slots named by handles exist.
WTypeOK ==
  \A w \in WorldSet :
    LET W == world[w]
    IN  /\ W.arena \in Seq([gen : Nat, occupied : BOOLEAN])
        /\ W.free \in Seq(0 .. Len(W.arena) - 1)
        /\ W.entity_index \in [Live(w) -> Archetypes \X (Nat \ {0})]
        /\ \A e \in Live(w) : e.slot < Len(W.arena)
        /\ \A a \in Archetypes : W.slots[a] \in Seq(Handles) /\ W.ready[a] \subseteq Components

\* The three tables agree after any sequence of spawns, despawns that move the
\* last entity, and migrations: an entity alive in the arena is the one the
\* index places, at the position where slots has it, and every aligned column
\* is as long as slots (world.rs:255-285; soa.rs:72-79 relies on it).  No slot can
\* be handed out twice: the stack holds vacant slots, each once, also after
\* migrate has taken one from its middle (entity.rs:217-219).
IndexConsistent ==
  \A w \in WorldSet :
    LET W == world[w]
    IN  /\ IsInjective(W.free)
        /\ \A s \in ToSet(W.free) : ~W.arena[s + 1].occupied
        /\ {e.slot : e \in Live(w)} = {s \in 0 .. Len(W.arena) - 1 : W.arena[s + 1].occupied}
        /\ \A e \in Live(w) : W.entity_index[e][2] \in DOMAIN W.slots[W.entity_index[e][1]]
        /\ \A a \in Archetypes :
             /\ \A i \in DOMAIN W.slots[a] :
                  W.slots[a][i] \in Live(w) /\ W.entity_index[W.slots[a][i]] = <<a, i>>
             /\ \A c \in W.ready[a] \cap Aligned : Len(W.columns[a][c]) = Len(W.slots[a])

\* What get shows of the entities of a world.
Vals(W) == [e \in DOMAIN W.entity_index |-> [c \in Components |-> Value(W, e, c)]]

Store == INSTANCE EntityStore WITH
  Worlds <- WorldSet,
  store <- [w \in WorldSet |-> Vals(world[w])]

\* The tables implement a map from entities to values: a value follows its
\* entity when another entity's despawn moves it, an entity in a reused slot
\* starts from the defaults, creating a column changes no value, and a
\* migration loses values only when it reports a failure.
ImplementsStore == Store!Spec
=============================================================================

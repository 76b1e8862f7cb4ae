---------------------------- MODULE WorldsProofs ----------------------------
(***************************************************************************)
(* Proofs about the worlds of Worlds, for any worlds, archetypes,          *)
(* components and values and any number of slots, as long as generations   *)
(* fit their handles: types, that the arena, the index, the slots and the  *)
(* columns of a world agree, and that the tables implement the map from    *)
(* entities to values of EntityStore.  The inductive invariant is a        *)
(* property of one world (Sound), so that each operation is a lemma about  *)
(* the world it returns.                                                   *)
(***************************************************************************)
EXTENDS Worlds, SequenceTheorems, TLAPS

NoRunOver == MaxGen < GenLimit

Cell   == [gen : 0 .. MaxGen, occupied : BOOLEAN]
Entity == [kind : {0}, gen : 0 .. MaxGen, slot : 0 .. MaxSlots - 1]

Index(W) == DOMAIN W.entity_index

Shape(W) ==
  /\ W = [arena |-> W.arena, free |-> W.free, slots |-> W.slots,
          entity_index |-> W.entity_index, ready |-> W.ready, columns |-> W.columns]
  /\ W.arena \in Seq(Cell) /\ Len(W.arena) <= MaxSlots
  /\ W.free \in Seq(Nat)
  /\ W.slots \in [Archetypes -> Seq(Entity)]
  /\ W.entity_index \in [Index(W) -> Archetypes \X (Nat \ {0})]
  /\ Index(W) \subseteq Entity
  /\ W.ready \in [Archetypes -> SUBSET Components]
  /\ W.columns = [a \in Archetypes |-> W.columns[a]]
  /\ \A a \in Archetypes :
       /\ W.columns[a] = [c \in Components |-> W.columns[a][c]]
       /\ \A c \in Aligned : W.columns[a][c] \in Seq(Values \cup {Default})

\* The stack holds vacant slots, each once.
Stack(W) ==
  /\ IsInjective(W.free)
  /\ \A s \in ToSet(W.free) : s < Len(W.arena) /\ ~W.arena[s + 1].occupied

\* The entities of the index are those of the occupied slots.
Owned(W) ==
  /\ \A e \in Index(W) : IsAlive(W, e)
  /\ \A s \in 0 .. Len(W.arena) - 1 :
       W.arena[s + 1].occupied => \E e \in Index(W) : e.slot = s

\* The index is where the slots have the entity, and the slots have nobody else.
Located(W) ==
  /\ \A e \in Index(W) :
       LET a == W.entity_index[e][1]
           i == W.entity_index[e][2]
       IN  i \in 1 .. Len(W.slots[a]) /\ W.slots[a][i] = e
  /\ \A a \in Archetypes : \A i \in 1 .. Len(W.slots[a]) :
       W.slots[a][i] \in Index(W) /\ W.entity_index[W.slots[a][i]] = <<a, i>>

\* Aligned columns are as long as slots, sparse ones hold values of entities
\* of their archetype only: a reused slot finds none.
Filled(W) ==
  \A a \in Archetypes :
    /\ \A c \in W.ready[a] \cap Aligned : Len(W.columns[a][c]) = Len(W.slots[a])
    /\ \A c \in Sparse : \A s \in DOMAIN W.columns[a][c] :
         \E i \in 1 .. Len(W.slots[a]) : W.slots[a][i].slot = s

Sound(W) == Shape(W) /\ Stack(W) /\ Owned(W) /\ Located(W) /\ Filled(W)

WInv == world = [w \in WorldSet |-> world[w]] /\ \A w \in WorldSet : Sound(world[w])

----------------------------------------------------------------------------
(* Handles and sequences *)

\* from_parts keeps a generation that fits (entity.rs:69-77).
LEMMA HandleFits ==
  ASSUME NoRunOver, NEW g \in 0 .. MaxGen, NEW s
  PROVE  Handle(g, s) = [kind |-> 0, gen |-> g, slot |-> s]
<1>1. g \div GenLimit = 0 /\ g % GenLimit = g
  BY BoundAssumption, GenLimitAssumption DEF NoRunOver
<1> QED BY <1>1 DEF Handle

\* The handles of a world, as records: none is of another kind or generation.
LEMMA HandlesAreEntities ==
  ASSUME NoRunOver
  PROVE  Handles = Entity
<1>1. \A g \in 0 .. MaxGen, s \in 0 .. MaxSlots - 1 :
        Handle(g, s) = [kind |-> 0, gen |-> g, slot |-> s]
  BY HandleFits
<1>2. Handles \subseteq Entity
  BY <1>1 DEF Handles, Entity
<1>3. ASSUME NEW e \in Entity
      PROVE  e \in Handles
  <2>1. e = Handle(e.gen, e.slot) /\ e.gen \in 0 .. MaxGen /\ e.slot \in 0 .. MaxSlots - 1
    BY <1>1 DEF Entity
  <2> QED BY <2>1 DEF Handles
<1> QED BY <1>2, <1>3

\* Vec::swap_remove: the last element takes the place.
LEMMA SwapRemoveProperties ==
  ASSUME NEW S, NEW s \in Seq(S), NEW i \in 1 .. Len(s)
  PROVE  /\ SwapRemove(s, i) \in Seq(S)
         /\ Len(SwapRemove(s, i)) = Len(s) - 1
         /\ \A k \in 1 .. Len(s) - 1 : SwapRemove(s, i)[k] = IF k = i THEN s[Len(s)] ELSE s[k]
<1> DEFINE t == SwapRemove(s, i)
<1>1. Len(s) \in Nat /\ Len(s) - 1 \in Nat /\ \A k \in 1 .. Len(s) : s[k] \in S
  BY LenProperties
<1>2. t \in [1 .. Len(s) - 1 -> S]
  BY <1>1 DEF SwapRemove
<1> HIDE DEF t
<1>3. t \in Seq(S)
  <2>1. \E n \in Nat : t \in [1 .. n -> S]
    BY <1>1, <1>2
  <2> QED BY <2>1, SeqDef, Zenon
<1>4. Len(t) = Len(s) - 1
  BY <1>1, <1>2, <1>3, LenProperties
<1> QED BY <1>1, <1>3, <1>4 DEF SwapRemove, t

----------------------------------------------------------------------------
(* The allocator *)

\* What every allocation is to the world: a vacant slot, or a new one, is
\* occupied and leaves the stack; nothing else changes.
Fresh(W, allocated) ==
  LET e == allocated.entity
  IN  /\ e \in Entity
      /\ allocated.arena \in Seq(Cell) /\ Len(allocated.arena) <= MaxSlots
      /\ Len(W.arena) <= Len(allocated.arena)
      /\ e.slot < Len(allocated.arena)
      /\ e.slot < Len(W.arena) => ~W.arena[e.slot + 1].occupied
      /\ \A s \in 0 .. Len(allocated.arena) - 1 :
           allocated.arena[s + 1] = IF s = e.slot THEN Occupied(e.gen)
                                    ELSE IF s < Len(W.arena) THEN W.arena[s + 1] ELSE Vacant(0)
      /\ allocated.free \in Seq(Nat)
      /\ IsInjective(allocated.free)
      /\ ToSet(allocated.free) \subseteq ToSet(W.free) \ {e.slot}

\* A stack without its element i.
LEMMA SwapRemoveFromStack ==
  ASSUME NEW s \in Seq(Nat), IsInjective(s), NEW i \in 1 .. Len(s)
  PROVE  /\ IsInjective(SwapRemove(s, i))
         /\ ToSet(SwapRemove(s, i)) \subseteq ToSet(s) \ {s[i]}
<1> DEFINE t == SwapRemove(s, i)
<1>1. /\ t \in Seq(Nat) /\ Len(t) = Len(s) - 1
      /\ \A k \in 1 .. Len(s) - 1 : t[k] = IF k = i THEN s[Len(s)] ELSE s[k]
  BY SwapRemoveProperties
<1>2. Len(s) \in Nat /\ DOMAIN s = 1 .. Len(s) /\ DOMAIN t = 1 .. Len(s) - 1
  BY <1>1, LenProperties
<1> HIDE DEF t
<1>3. \A j, k \in 1 .. Len(s) : s[j] = s[k] => j = k
  BY <1>2 DEF IsInjective
<1>4. \A k \in DOMAIN t : \E j \in 1 .. Len(s) : j # i /\ t[k] = s[j] /\ j = IF k = i THEN Len(s) ELSE k
  <2> TAKE k \in DOMAIN t
  <2> DEFINE j == IF k = i THEN Len(s) ELSE k
  <2>1. k \in 1 .. Len(s) - 1
    BY <1>2
  <2>2. \A n \in Nat : \A x \in 1 .. n - 1 : x # n /\ x \in 1 .. n /\ n \in 1 .. n
    OBVIOUS
  <2>3. k # Len(s) /\ k \in 1 .. Len(s) /\ Len(s) \in 1 .. Len(s)
    BY <1>2, <2>1, <2>2
  <2>4. t[k] = s[j]
    BY <1>1, <2>1
  <2>5. j \in 1 .. Len(s) /\ j # i
    BY <2>3
  <2> QED BY <2>4, <2>5
<1>5. IsInjective(t)
  <2> SUFFICES ASSUME NEW j \in 1 .. Len(s) - 1, NEW k \in 1 .. Len(s) - 1, t[j] = t[k]
               PROVE  j = k
    BY <1>2 DEF IsInjective
  <2>1. j # Len(s) /\ k # Len(s) /\ j \in 1 .. Len(s) /\ k \in 1 .. Len(s)
        /\ Len(s) \in 1 .. Len(s)
    <3>1. \A n \in Nat : \A x \in 1 .. n - 1 : x # n /\ x \in 1 .. n /\ n \in 1 .. n
      OBVIOUS
    <3> QED BY <1>2, <3>1
  <2>2. t[j] = (IF j = i THEN s[Len(s)] ELSE s[j]) /\ t[k] = (IF k = i THEN s[Len(s)] ELSE s[k])
    BY <1>1
  <2> QED BY <1>3, <2>1, <2>2
<1>6. ToSet(t) \subseteq ToSet(s) \ {s[i]}
  <2> SUFFICES ASSUME NEW k \in DOMAIN t
               PROVE  t[k] \in ToSet(s) /\ t[k] # s[i]
    BY DEF ToSet
  <2> QED BY <1>2, <1>3, <1>4 DEF ToSet
<1> QED BY <1>5, <1>6 DEF t

\* A stack without its last element.
LEMMA FrontOfStack ==
  ASSUME NEW s \in Seq(Nat), IsInjective(s), s # <<>>
  PROVE  /\ Front(s) \in Seq(Nat) /\ IsInjective(Front(s))
         /\ ToSet(Front(s)) \subseteq ToSet(s) \ {Last(s)}
<1> DEFINE t == Front(s)
<1>1. Len(s) \in Nat /\ Len(s) > 0 /\ DOMAIN s = 1 .. Len(s) /\ \A k \in 1 .. Len(s) : s[k] \in Nat
  BY LenProperties, EmptySeq
<1>2. t \in Seq(Nat) /\ Len(t) = Len(s) - 1 /\ \A k \in 1 .. Len(s) - 1 : t[k] = s[k]
  <2>1. \A k \in 1 .. Len(s) - 1 : s[k] \in Nat
    BY <1>1
  <2>2. /\ SubSeq(s, 1, Len(s) - 1) \in Seq(Nat)
        /\ Len(SubSeq(s, 1, Len(s) - 1)) = IF 1 <= Len(s) - 1 THEN Len(s) - 1 - 1 + 1 ELSE 0
        /\ \A k \in 1 .. Len(s) - 1 - 1 + 1 : SubSeq(s, 1, Len(s) - 1)[k] = s[1 + k - 1]
    BY <1>1, <2>1, SubSeqProperties
  <2> QED BY <1>1, <2>2 DEF Front
<1>3. DOMAIN t = 1 .. Len(s) - 1
  BY <1>2, LenProperties
<1> HIDE DEF t
<1>4. \A j, k \in 1 .. Len(s) : s[j] = s[k] => j = k
  BY <1>1 DEF IsInjective
<1>5. IsInjective(t)
  <2> SUFFICES ASSUME NEW j \in 1 .. Len(s) - 1, NEW k \in 1 .. Len(s) - 1, t[j] = t[k]
               PROVE  j = k
    BY <1>3 DEF IsInjective
  <2>1. j \in 1 .. Len(s) /\ k \in 1 .. Len(s) /\ s[j] = s[k]
    BY <1>1, <1>2
  <2> QED BY <1>4, <2>1
<1>6. ToSet(t) \subseteq ToSet(s) \ {s[Len(s)]}
  <2> SUFFICES ASSUME NEW k \in 1 .. Len(s) - 1
               PROVE  s[k] \in ToSet(s) /\ s[k] # s[Len(s)]
    BY <1>2, <1>3 DEF ToSet
  <2> QED BY <1>1, <1>4 DEF ToSet
<1> QED BY <1>2, <1>5, <1>6 DEF t, Last

\* allocate reuses the slot freed last with the next generation, or adds one
\* (entity.rs:163-186).
LEMMA AllocateFresh ==
  ASSUME NoRunOver, NEW W, Shape(W), Stack(W), CanAllocate(W)
  PROVE  Fresh(W, Allocate(W))
<1> DEFINE n == Len(W.arena)
<1>1. n \in Nat /\ DOMAIN W.arena = 1 .. n /\ \A k \in 1 .. n : W.arena[k] \in Cell
  BY LenProperties DEF Shape
<1>2. CASE W.free # <<>>
  <2> DEFINE s == Last(W.free)
             g == W.arena[s + 1].gen + 1
             arena == [W.arena EXCEPT ![s + 1] = Occupied(g)]
  <2>1. s \in Nat /\ s \in ToSet(W.free)
    <3>1. Len(W.free) \in 1 .. Len(W.free) /\ DOMAIN W.free = 1 .. Len(W.free)
      BY <1>2, LenProperties, EmptySeq DEF Shape
    <3> QED BY <3>1, ElementOfSeq DEF Last, ToSet, Shape
  <2>2. s < n /\ ~W.arena[s + 1].occupied
    BY <2>1 DEF Stack
  <2>3. s + 1 \in 1 .. n /\ g \in 0 .. MaxGen
    <3>1. W.arena[s + 1].gen < MaxGen
      BY <1>2 DEF CanAllocate
    <3>2. W.arena[s + 1] \in Cell
      BY <1>1, <2>1, <2>2
    <3> QED BY <1>1, <2>1, <2>2, <3>1, <3>2, BoundAssumption DEF Cell
  <2>4. Allocate(W) = [entity |-> [kind |-> 0, gen |-> g, slot |-> s], free |-> Front(W.free),
                       arena |-> arena]
    BY <1>2, <2>3, HandleFits DEF Allocate
  <2>5. Occupied(g) \in Cell
    BY <2>3 DEF Occupied, Cell
  <2> HIDE DEF g
  <2>6. /\ arena \in Seq(Cell) /\ Len(arena) = n
        /\ \A k \in 1 .. n : arena[k] = IF k = s + 1 THEN Occupied(g) ELSE W.arena[k]
    BY <2>3, <2>5, ExceptSeq DEF Shape
  <2>7. /\ Front(W.free) \in Seq(Nat) /\ IsInjective(Front(W.free))
        /\ ToSet(Front(W.free)) \subseteq ToSet(W.free) \ {s}
    BY <1>2, FrontOfStack DEF Shape, Stack
  <2> HIDE DEF s, arena
  <2>8. [kind |-> 0, gen |-> g, slot |-> s] \in Entity
    BY <1>1, <2>1, <2>2, <2>3, BoundAssumption DEF Entity, Shape
  <2>9. \A k \in 0 .. n - 1 : arena[k + 1] = IF k = s THEN Occupied(g) ELSE W.arena[k + 1]
    BY <1>1, <2>1, <2>6
  <2> QED BY <1>1, <2>2, <2>4, <2>6, <2>7, <2>8, <2>9 DEF Fresh, Shape
<1>3. CASE W.free = <<>>
  <2> DEFINE arena == Append(W.arena, Occupied(0))
  <2>1. Allocate(W) = [entity |-> [kind |-> 0, gen |-> 0, slot |-> n], free |-> W.free,
                       arena |-> arena]
    <3>1. Handle(0, n) = [kind |-> 0, gen |-> 0, slot |-> n]
      <4>1. 0 \in 0 .. MaxGen
        BY BoundAssumption
      <4> QED BY <4>1, HandleFits
    <3> QED BY <1>3, <3>1 DEF Allocate
  <2>2. n < MaxSlots
    BY <1>3 DEF CanAllocate
  <2>3. Occupied(0) \in Cell
    BY BoundAssumption DEF Occupied, Cell
  <2>4. /\ arena \in Seq(Cell) /\ Len(arena) = n + 1
        /\ \A k \in 1 .. n : arena[k] = W.arena[k]
        /\ arena[n + 1] = Occupied(0)
    BY <2>3, AppendProperties DEF Shape
  <2>5. [kind |-> 0, gen |-> 0, slot |-> n] \in Entity
    BY <1>1, <2>2, BoundAssumption DEF Entity
  <2>6. W.free \in Seq(Nat) /\ IsInjective(W.free) /\ ToSet(W.free) \subseteq ToSet(W.free) \ {n}
    BY <1>1 DEF Shape, Stack
  <2> HIDE DEF arena
  <2>7. \A k \in 0 .. n : arena[k + 1] = IF k = n THEN Occupied(0) ELSE W.arena[k + 1]
    BY <1>1, <2>4
  <2>8. \A k \in 0 .. n : k # n => k < n
    BY <1>1
  <2>9. n + 1 <= MaxSlots /\ n + 1 - 1 = n /\ n <= n + 1 /\ n < n + 1 /\ ~(n < n)
    BY <1>1, <2>2, BoundAssumption
  <2> DEFINE e == [kind |-> 0, gen |-> 0, slot |-> n]
  <2>10. e.slot = n /\ e.gen = 0
    OBVIOUS
  <2> HIDE DEF n, e
  <2> DEFINE R == [entity |-> e, free |-> W.free, arena |-> arena]
  <2>11. R.entity = e /\ R.free = W.free /\ R.arena = arena
    OBVIOUS
  <2>12. /\ n < Len(W.arena) => ~W.arena[n + 1].occupied
         /\ e \in Entity /\ n < Len(arena) /\ Len(W.arena) <= Len(arena)
         /\ Len(arena) <= MaxSlots
    BY <2>4, <2>5, <2>9 DEF n, e
  <2>13. \A s \in 0 .. Len(arena) - 1 :
            arena[s + 1] = IF s = n THEN Occupied(0)
                           ELSE IF s < Len(W.arena) THEN W.arena[s + 1] ELSE Vacant(0)
    BY <2>4, <2>7, <2>8, <2>9 DEF n
  <2> HIDE DEF R
  <2>14. Fresh(W, R)
    BY <2>4, <2>6, <2>10, <2>11, <2>12, <2>13 DEF Fresh
  <2> QED BY <2>1, <2>14 DEF e, R
<1> QED BY <1>2, <1>3

\* allocate_exact takes the slot the handle names, out of the middle of the
\* stack or beyond the end of the arena (entity.rs:207-241).
LEMMA AllocateExactFresh ==
  ASSUME NEW W, Shape(W), Stack(W), NEW e \in Entity, SlotVacant(W, e)
  PROVE  Fresh(W, AllocateExact(W, e))
<1> DEFINE n == Len(W.arena)
           m == IF e.slot < n THEN n ELSE e.slot + 1
           arena == [k \in 1 .. m |-> IF k = e.slot + 1 THEN Occupied(e.gen)
                                      ELSE IF k <= n THEN W.arena[k] ELSE Vacant(0)]
           at == SelectInSeq(W.free, LAMBDA s : s = e.slot)
           free == IF at = 0 THEN W.free ELSE SwapRemove(W.free, at)
<1>1. n \in Nat /\ n <= MaxSlots /\ \A k \in 1 .. n : W.arena[k] \in Cell
  BY LenProperties DEF Shape
<1>2. e.slot \in 0 .. MaxSlots - 1 /\ e.gen \in 0 .. MaxGen
  BY DEF Entity
<1>3. m \in Nat /\ e.slot < m /\ n <= m /\ m <= MaxSlots
  BY <1>1, <1>2, BoundAssumption
<1>4. arena \in Seq(Cell) /\ Len(arena) = m
  <2>1. Occupied(e.gen) \in Cell /\ Vacant(0) \in Cell
    BY <1>2, BoundAssumption DEF Occupied, Vacant, Cell
  <2>2. arena \in [1 .. m -> Cell]
    BY <1>1, <2>1
  <2> HIDE DEF arena
  <2>3. \E k \in Nat : arena \in [1 .. k -> Cell]
    BY <1>3, <2>2
  <2>4. arena \in Seq(Cell)
    BY <2>3, SeqDef, Zenon
  <2> QED BY <1>3, <2>2, <2>4, LenProperties
<1>5. free \in Seq(Nat) /\ IsInjective(free) /\ ToSet(free) \subseteq ToSet(W.free) \ {e.slot}
  <2> DEFINE I == {i \in 1 .. Len(W.free) : W.free[i] = e.slot}
  <2>1. at = IF I # {} THEN CHOOSE x \in I : \A y \in I : x <= y ELSE 0
    BY DEF SelectInSeq, Min
  <2>2. Len(W.free) \in Nat /\ DOMAIN W.free = 1 .. Len(W.free) /\ W.free \in Seq(Nat)
    BY LenProperties DEF Shape
  <2>3. CASE I = {}
    <3>1. at = 0
      BY <2>1, <2>3
    <3>2. e.slot \notin ToSet(W.free)
      BY <2>2, <2>3 DEF ToSet
    <3> QED BY <2>2, <3>1, <3>2 DEF Stack
  <2>4. CASE I # {}
    <3>1. \E x \in I : \A y \in I : x <= y
      <4>1. PICK x \in I : TRUE
        BY <2>4
      <4>2. \A y \in I : y = x
        BY <2>2, <4>1 DEF Stack, IsInjective
      <4> QED BY <4>1, <4>2
    <3>2. at \in I
      BY <2>1, <2>4, <3>1
    <3> HIDE DEF at
    <3>3. at \in 1 .. Len(W.free) /\ at # 0 /\ W.free[at] = e.slot
      BY <3>2, <2>2
    <3> QED BY <2>2, <3>3, SwapRemoveProperties, SwapRemoveFromStack DEF Stack
  <2> QED BY <2>3, <2>4
<1>6. AllocateExact(W, e) = [entity |-> e, free |-> free, arena |-> arena]
  BY DEF AllocateExact
<1>7. \A s \in 0 .. m - 1 : arena[s + 1] = IF s = e.slot THEN Occupied(e.gen)
                                           ELSE IF s < n THEN W.arena[s + 1] ELSE Vacant(0)
  BY <1>1, <1>2, <1>3
<1>8. e.slot < n => ~W.arena[e.slot + 1].occupied
  BY DEF SlotVacant
<1> HIDE DEF arena, free, m, at
<1> QED BY <1>3, <1>4, <1>5, <1>6, <1>7, <1>8 DEF Fresh

----------------------------------------------------------------------------
(* Entities come *)

\* P is W with one more entity in archetype a.
Joined(P, W, a, allocated) ==
  LET e == allocated.entity
  IN  /\ P = [arena |-> P.arena, free |-> P.free, slots |-> P.slots,
              entity_index |-> P.entity_index, ready |-> P.ready, columns |-> P.columns]
      /\ P.arena = allocated.arena /\ P.free = allocated.free /\ P.ready = W.ready
      /\ P.slots = [W.slots EXCEPT ![a] = Append(W.slots[a], e)]
      /\ P.entity_index = With(W.entity_index, e, <<a, Len(W.slots[a]) + 1>>)
      /\ P.columns = [W.columns EXCEPT ![a] = [c \in Components |->
           IF c \in W.ready[a] \cap Aligned THEN Append(W.columns[a][c], Default)
           ELSE W.columns[a][c]]]

\* The tail of spawn and spawn_exact (world.rs:255-285): the tables of the world
\* with one more entity.
LEMMA PlacedParts ==
  ASSUME NEW W, Shape(W), NEW a \in Archetypes, NEW allocated
  PROVE  Joined(Placed(W, a, allocated), W, a, allocated)
<1> DEFINE e == allocated.entity
           place == Append(W.slots[a], e)
           index == With(W.entity_index, e, <<a, Len(W.slots[a]) + 1>>)
           column == [c \in Components |->
                        IF c \in W.ready[a] \cap Aligned THEN Append(W.columns[a][c], Default)
                        ELSE W.columns[a][c]]
           slots == [W.slots EXCEPT ![a] = place]
           columns == [W.columns EXCEPT ![a] = column]
           W1 == [W EXCEPT !.arena = allocated.arena]
           W2 == [W1 EXCEPT !.free = allocated.free]
           W3 == [W2 EXCEPT !.slots[a] = place]
           W4 == [W3 EXCEPT !.entity_index = index]
           W5 == [W4 EXCEPT !.columns[a] = column]
<1>1. Placed(W, a, allocated) = W5
  BY DEF Placed
<1> HIDE DEF place, index, column
<1>2. W1 = [arena |-> allocated.arena, free |-> W.free, slots |-> W.slots,
            entity_index |-> W.entity_index, ready |-> W.ready, columns |-> W.columns]
  <2>1. W = [arena |-> W.arena, free |-> W.free, slots |-> W.slots,
             entity_index |-> W.entity_index, ready |-> W.ready, columns |-> W.columns]
    BY DEF Shape
  <2> QED BY <2>1
<1> HIDE DEF W1
<1>3. W2 = [arena |-> allocated.arena, free |-> allocated.free, slots |-> W.slots,
            entity_index |-> W.entity_index, ready |-> W.ready, columns |-> W.columns]
  BY <1>2
<1> HIDE DEF W2
<1>4. W3 = [arena |-> allocated.arena, free |-> allocated.free, slots |-> slots,
            entity_index |-> W.entity_index, ready |-> W.ready, columns |-> W.columns]
  BY <1>3
<1> HIDE DEF W3, slots
<1>5. W4 = [arena |-> allocated.arena, free |-> allocated.free, slots |-> slots,
            entity_index |-> index, ready |-> W.ready, columns |-> W.columns]
  BY <1>4
<1> HIDE DEF W4
<1>6. W5 = [arena |-> allocated.arena, free |-> allocated.free, slots |-> slots,
            entity_index |-> index, ready |-> W.ready, columns |-> columns]
  BY <1>5
<1> HIDE DEF W5, columns
<1>7. /\ W5.arena = allocated.arena /\ W5.free = allocated.free /\ W5.slots = slots
      /\ W5.entity_index = index /\ W5.ready = W.ready /\ W5.columns = columns
  BY <1>6
<1>8. W5 = [arena |-> W5.arena, free |-> W5.free, slots |-> W5.slots,
            entity_index |-> W5.entity_index, ready |-> W5.ready, columns |-> W5.columns]
  BY <1>6, <1>7
<1> QED BY <1>1, <1>7, <1>8, Zenon DEF Joined, slots, columns, place, index, column

\* A spawned entity is in the arena, the index and the last position of the
\* slots, and no other entity notices.
LEMMA PlacedSound ==
  ASSUME NEW W, Sound(W), NEW a \in Archetypes, NEW allocated, Fresh(W, allocated)
  PROVE  Sound(Placed(W, a, allocated))
<1> DEFINE P == Placed(W, a, allocated)
           e == allocated.entity
           n == Len(W.slots[a])
<1>1. /\ P = [arena |-> P.arena, free |-> P.free, slots |-> P.slots,
              entity_index |-> P.entity_index, ready |-> P.ready, columns |-> P.columns]
      /\ P.arena = allocated.arena /\ P.free = allocated.free /\ P.ready = W.ready
      /\ P.slots = [W.slots EXCEPT ![a] = Append(W.slots[a], e)]
      /\ P.entity_index = With(W.entity_index, e, <<a, Len(W.slots[a]) + 1>>)
      /\ P.columns = [W.columns EXCEPT ![a] = [c \in Components |->
           IF c \in W.ready[a] \cap Aligned THEN Append(W.columns[a][c], Default)
           ELSE W.columns[a][c]]]
  <2>1. Joined(P, W, a, allocated)
    BY PlacedParts DEF Sound
  <2> HIDE DEF P
  <2> QED BY <2>1, Zenon DEF Joined
<1> HIDE DEF P
<1>2. e \in Entity /\ e.slot \in Nat /\ e.kind = 0
  BY DEF Fresh, Entity
<1>3. e \notin Index(W)
  <2> SUFFICES ASSUME e \in Index(W)
               PROVE  FALSE
    OBVIOUS
  <2>1. IsAlive(W, e)
    BY DEF Sound, Owned
  <2>2. e.slot < Len(W.arena) /\ W.arena[e.slot + 1].occupied
    BY <2>1 DEF IsAlive
  <2> QED BY <2>2 DEF Fresh
<1>4. /\ P.slots[a] \in Seq(Entity) /\ Len(P.slots[a]) = n + 1 /\ n \in Nat
      /\ \A i \in 1 .. n : P.slots[a][i] = W.slots[a][i]
      /\ P.slots[a][n + 1] = e
      /\ \A b \in Archetypes \ {a} : P.slots[b] = W.slots[b]
  <2>1. W.slots \in [Archetypes -> Seq(Entity)] /\ W.slots[a] \in Seq(Entity)
    BY DEF Sound, Shape
  <2> QED BY <1>1, <1>2, <2>1, AppendProperties, LenProperties
<1>5. /\ Index(P) = Index(W) \cup {e}
      /\ P.entity_index[e] = <<a, n + 1>>
      /\ \A d \in Index(W) : P.entity_index[d] = W.entity_index[d]
  BY <1>1, <1>3 DEF Index, With
<1>6. \A d \in Index(W) : W.entity_index[d] \in Archetypes \X (Nat \ {0})
  BY DEF Sound, Shape
<1>7. \A b \in Archetypes : Len(W.slots[b]) \in Nat /\ W.slots[b] \in Seq(Entity)
  BY LenProperties DEF Sound, Shape
<1>8. /\ P.columns = [b \in Archetypes |-> P.columns[b]]
      /\ \A b \in Archetypes \ {a} : P.columns[b] = W.columns[b]
      /\ P.columns[a] = [c \in Components |->
           IF c \in W.ready[a] \cap Aligned THEN Append(W.columns[a][c], Default)
           ELSE W.columns[a][c]]
  <2>1. W.columns = [b \in Archetypes |-> W.columns[b]]
    BY DEF Sound, Shape
  <2> QED BY <1>1, <2>1
<1>9. \A c \in W.ready[a] \cap Aligned :
         /\ Append(W.columns[a][c], Default) \in Seq(Values \cup {Default})
         /\ Len(Append(W.columns[a][c], Default)) = Len(W.columns[a][c]) + 1
  <2> TAKE c \in W.ready[a] \cap Aligned
  <2>1. W.columns[a][c] \in Seq(Values \cup {Default}) /\ Default \in Values \cup {Default}
    BY DEF Sound, Shape
  <2> QED BY <2>1, AppendProperties
<1>10. Shape(P)
  <2>1. P.arena \in Seq(Cell) /\ Len(P.arena) <= MaxSlots /\ P.free \in Seq(Nat)
    BY <1>1 DEF Fresh
  <2>2. P.slots \in [Archetypes -> Seq(Entity)]
    BY <1>1, <1>2, <1>4, <1>7 DEF Sound, Shape
  <2>3. P.entity_index \in [Index(P) -> Archetypes \X (Nat \ {0})] /\ Index(P) \subseteq Entity
    <3>1. P.entity_index = [d \in Index(P) |-> P.entity_index[d]]
      BY <1>1 DEF With, Index
    <3>2. <<a, n + 1>> \in Archetypes \X (Nat \ {0})
      BY <1>4
    <3>3. \A d \in Index(P) : P.entity_index[d] \in Archetypes \X (Nat \ {0})
      BY <1>5, <1>6, <3>2
    <3>4. Index(W) \subseteq Entity
      BY DEF Sound, Shape
    <3> QED BY <1>2, <1>5, <3>1, <3>3, <3>4
  <2>4. P.ready \in [Archetypes -> SUBSET Components]
    BY <1>1 DEF Sound, Shape
  <2>5. ASSUME NEW b \in Archetypes
        PROVE  /\ P.columns[b] = [c \in Components |-> P.columns[b][c]]
               /\ \A c \in Aligned : P.columns[b][c] \in Seq(Values \cup {Default})
    <3>1. CASE b = a
      <4>1. \A c \in Aligned : c \in Components /\ W.columns[a][c] \in Seq(Values \cup {Default})
        BY DEF Sound, Shape, Aligned
      <4>2. P.columns[a] = [c \in Components |-> P.columns[a][c]]
        BY <1>8
      <4>3. \A c \in Components : P.columns[a][c] =
              IF c \in W.ready[a] \cap Aligned THEN Append(W.columns[a][c], Default)
              ELSE W.columns[a][c]
        BY <1>8
      <4> QED BY <1>9, <3>1, <4>1, <4>2, <4>3
    <3>2. CASE b # a
      BY <1>8, <3>2 DEF Sound, Shape
    <3> QED BY <3>1, <3>2
  <2> QED BY <1>1, <1>8, <2>1, <2>2, <2>3, <2>4, <2>5 DEF Shape
<1>11. Stack(P)
  <2>1. Len(W.arena) \in Nat /\ Len(P.arena) \in Nat /\ Len(W.arena) <= Len(P.arena)
    BY <1>1, <1>10, LenProperties DEF Fresh, Sound, Shape
  <2> SUFFICES ASSUME NEW s \in ToSet(P.free)
               PROVE  s < Len(P.arena) /\ ~P.arena[s + 1].occupied
    BY <1>1 DEF Stack, Fresh
  <2>2. s \in ToSet(W.free) /\ s # e.slot
    BY <1>1 DEF Fresh
  <2>3. s \in Nat /\ s < Len(W.arena) /\ ~W.arena[s + 1].occupied
    <3>1. \A i \in DOMAIN W.free : W.free[i] \in Nat
      BY LenProperties DEF Sound, Shape
    <3> QED BY <2>2, <3>1 DEF Sound, Stack, ToSet
  <2>4. s \in 0 .. Len(P.arena) - 1
    BY <2>1, <2>3
  <2>5. P.arena[s + 1] = W.arena[s + 1]
    BY <1>1, <2>2, <2>3, <2>4 DEF Fresh
  <2> QED BY <2>3, <2>4, <2>5
<1>12. Owned(P)
  <2>1. Len(W.arena) \in Nat /\ Len(P.arena) \in Nat /\ Len(W.arena) <= Len(P.arena)
    BY <1>1, <1>10, LenProperties DEF Fresh, Sound, Shape
  <2>2. \A s \in 0 .. Len(P.arena) - 1 :
          P.arena[s + 1] = IF s = e.slot THEN Occupied(e.gen)
                           ELSE IF s < Len(W.arena) THEN W.arena[s + 1] ELSE Vacant(0)
    BY <1>1 DEF Fresh
  <2>3. IsAlive(P, e)
    <3>1. e.slot < Len(P.arena) /\ e.slot \in 0 .. Len(P.arena) - 1
      BY <1>1, <1>2, <2>1 DEF Fresh
    <3>2. P.arena[e.slot + 1] = Occupied(e.gen)
      BY <2>2, <3>1
    <3> QED BY <1>2, <3>1, <3>2 DEF IsAlive, Occupied
  <2>4. ASSUME NEW d \in Index(W)
        PROVE  IsAlive(P, d)
    <3>1. IsAlive(W, d) /\ d.slot \in Nat
      BY DEF Sound, Owned, Shape, Entity
    <3>2. d.slot # e.slot
      BY <3>1 DEF IsAlive, Fresh
    <3>3. d.slot \in 0 .. Len(P.arena) - 1
      BY <2>1, <3>1 DEF IsAlive
    <3> QED BY <2>1, <2>2, <3>1, <3>2, <3>3 DEF IsAlive
  <2>5. ASSUME NEW s \in 0 .. Len(P.arena) - 1, P.arena[s + 1].occupied
        PROVE  \E d \in Index(P) : d.slot = s
    <3>1. CASE s = e.slot
      BY <1>5, <3>1
    <3>2. CASE s # e.slot
      <4>1. s < Len(W.arena) /\ P.arena[s + 1] = W.arena[s + 1]
        BY <2>2, <2>5, <3>2 DEF Vacant
      <4>2. s \in 0 .. Len(W.arena) - 1
        BY <2>1, <4>1
      <4> QED BY <1>5, <2>5, <4>1, <4>2 DEF Sound, Owned
    <3> QED BY <3>1, <3>2
  <2> QED BY <1>5, <2>3, <2>4, <2>5 DEF Owned
<1>13. Located(P)
  <2>1. ASSUME NEW d \in Index(P)
        PROVE  LET b == P.entity_index[d][1]
                   i == P.entity_index[d][2]
               IN  i \in 1 .. Len(P.slots[b]) /\ P.slots[b][i] = d
    <3>1. CASE d = e
      <4>1. P.entity_index[d][1] = a /\ P.entity_index[d][2] = n + 1
        BY <1>5, <3>1
      <4>2. n + 1 \in 1 .. Len(P.slots[a]) /\ P.slots[a][n + 1] = d
        BY <1>4, <3>1
      <4> QED BY <4>1, <4>2
    <3>2. CASE d \in Index(W)
      <4> DEFINE b == W.entity_index[d][1]
                 i == W.entity_index[d][2]
      <4>1. b \in Archetypes /\ i \in 1 .. Len(W.slots[b]) /\ W.slots[b][i] = d
        BY <1>6, <3>2 DEF Sound, Located
      <4>2. P.entity_index[d][1] = b /\ P.entity_index[d][2] = i
        BY <1>5, <3>2
      <4> HIDE DEF b, i
      <4>3. i \in 1 .. Len(P.slots[b]) /\ P.slots[b][i] = d
        <5>1. CASE b # a
          BY <1>4, <4>1, <5>1
        <5>2. CASE b = a
          <6>1. i \in 1 .. n /\ i \in 1 .. n + 1
            BY <1>4, <4>1, <5>2
          <6> QED BY <1>4, <4>1, <5>2, <6>1
        <5> QED BY <5>1, <5>2
      <4> QED BY <4>2, <4>3
    <3> QED BY <1>5, <3>1, <3>2
  <2>2. ASSUME NEW b \in Archetypes, NEW i \in 1 .. Len(P.slots[b])
        PROVE  P.slots[b][i] \in Index(P) /\ P.entity_index[P.slots[b][i]] = <<b, i>>
    <3>1. CASE b = a /\ i = n + 1
      BY <1>4, <1>5, <3>1
    <3>2. CASE ~(b = a /\ i = n + 1)
      <4>1. i \in 1 .. Len(W.slots[b]) /\ P.slots[b][i] = W.slots[b][i]
        <5>1. CASE b # a
          BY <1>4, <5>1
        <5>2. CASE b = a
          <6>1. i \in 1 .. n + 1 /\ i # n + 1
            BY <1>4, <3>2, <5>2
          <6>2. i \in 1 .. n
            BY <1>4, <6>1
          <6> QED BY <1>4, <5>2, <6>2
        <5> QED BY <5>1, <5>2
      <4>2. W.slots[b][i] \in Index(W) /\ W.entity_index[W.slots[b][i]] = <<b, i>>
        BY <4>1 DEF Sound, Located
      <4> QED BY <1>5, <4>1, <4>2
    <3> QED BY <3>1, <3>2
  <2> QED BY <2>1, <2>2 DEF Located
<1>14. Filled(P)
  <2> SUFFICES ASSUME NEW b \in Archetypes
               PROVE  /\ \A c \in P.ready[b] \cap Aligned : Len(P.columns[b][c]) = Len(P.slots[b])
                      /\ \A c \in Sparse : \A s \in DOMAIN P.columns[b][c] :
                           \E i \in 1 .. Len(P.slots[b]) : P.slots[b][i].slot = s
    BY DEF Filled
  <2>1. CASE b # a
    <3>1. P.columns[b] = W.columns[b] /\ P.slots[b] = W.slots[b] /\ P.ready[b] = W.ready[b]
      BY <1>1, <1>4, <1>8, <2>1
    <3> QED BY <3>1 DEF Sound, Filled
  <2>2. CASE b = a
    <3>1. \A c \in P.ready[a] \cap Aligned : Len(P.columns[a][c]) = Len(P.slots[a])
      <4>1. \A c \in Aligned : c \in Components
        BY DEF Aligned
      <4> SUFFICES ASSUME NEW c \in W.ready[a] \cap Aligned
                   PROVE  Len(P.columns[a][c]) = n + 1
        BY <1>1, <1>4
      <4>2. P.columns[a][c] = Append(W.columns[a][c], Default)
        BY <1>8, <4>1
      <4>3. Len(W.columns[a][c]) = n
        BY DEF Sound, Filled
      <4> QED BY <1>9, <4>2, <4>3
    <3>2. ASSUME NEW c \in Sparse, NEW s \in DOMAIN P.columns[a][c]
          PROVE  \E i \in 1 .. Len(P.slots[a]) : P.slots[a][i].slot = s
      <4>1. P.columns[a][c] = W.columns[a][c]
        BY <1>8, SparseAssumption DEF Aligned
      <4>2. PICK i \in 1 .. n : W.slots[a][i].slot = s
        BY <4>1 DEF Sound, Filled
      <4>3. i \in 1 .. Len(P.slots[a]) /\ P.slots[a][i] = W.slots[a][i]
        BY <1>4
      <4> QED BY <4>2, <4>3
    <3> QED BY <2>2, <3>1, <3>2
  <2> QED BY <2>1, <2>2
<1> QED BY <1>10, <1>11, <1>12, <1>13, <1>14 DEF Sound, P

----------------------------------------------------------------------------
(* Entities go *)

\* The archetype of e and its position there.
Home(W, e)  == W.entity_index[e][1]
Place(W, e) == W.entity_index[e][2]

\* D is W without e.
Left(D, W, e) ==
  LET a == Home(W, e)
      i == Place(W, e)
      left == SwapRemove(W.slots[a], i)
      index == Without(W.entity_index, e)
  IN  /\ D = [arena |-> D.arena, free |-> D.free, slots |-> D.slots,
              entity_index |-> D.entity_index, ready |-> D.ready, columns |-> D.columns]
      /\ D.arena = [W.arena EXCEPT ![e.slot + 1] = Vacant(e.gen)]
      /\ D.free = Append(W.free, e.slot)
      /\ D.ready = W.ready
      /\ D.slots = [W.slots EXCEPT ![a] = left]
      /\ D.entity_index = IF i <= Len(left) THEN With(index, left[i], <<a, i>>) ELSE index
      /\ D.columns = [W.columns EXCEPT ![a] = [c \in Components |->
           IF c \in Sparse THEN Without(W.columns[a][c], e.slot)
           ELSE IF c \in W.ready[a] THEN SwapRemove(W.columns[a][c], i) ELSE W.columns[a][c]]]

\* despawn finds the entity alive, so its slot is freed (world.rs:330-386).
LEMMA DespawnedParts ==
  ASSUME NEW W, Sound(W), NEW e \in Index(W)
  PROVE  Left(Despawned(W, e), W, e)
<1> DEFINE a == Home(W, e)
           i == Place(W, e)
           left == SwapRemove(W.slots[a], i)
           gone == Without(W.entity_index, e)
           index == IF i <= Len(left) THEN With(gone, left[i], <<a, i>>) ELSE gone
           column == [c \in Components |->
             IF c \in Sparse THEN Without(W.columns[a][c], e.slot)
             ELSE IF c \in W.ready[a] THEN SwapRemove(W.columns[a][c], i) ELSE W.columns[a][c]]
           slots == [W.slots EXCEPT ![a] = left]
           columns == [W.columns EXCEPT ![a] = column]
           arena == [W.arena EXCEPT ![e.slot + 1] = Vacant(e.gen)]
           W1 == [W EXCEPT !.slots[a] = left]
           W2 == [W1 EXCEPT !.columns[a] = column]
           W3 == [W2 EXCEPT !.entity_index = index]
           W4 == [W3 EXCEPT !.arena = IF IsAlive(W, e) THEN arena ELSE W.arena]
           free == IF IsAlive(W, e) THEN Append(W.free, e.slot) ELSE W.free
           W5 == [W4 EXCEPT !.free = free]
<1>1. Despawned(W, e) = W5
  BY DEF Despawned, Home, Place
<1>2. IsAlive(W, e)
  BY DEF Sound, Owned
<1> HIDE DEF a, i, left, index, column, free
<1>3. W1 = [arena |-> W.arena, free |-> W.free, slots |-> slots,
            entity_index |-> W.entity_index, ready |-> W.ready, columns |-> W.columns]
  <2>1. W = [arena |-> W.arena, free |-> W.free, slots |-> W.slots,
             entity_index |-> W.entity_index, ready |-> W.ready, columns |-> W.columns]
    BY DEF Sound, Shape
  <2> QED BY <2>1
<1> HIDE DEF W1, slots
<1>4. W2 = [arena |-> W.arena, free |-> W.free, slots |-> slots,
            entity_index |-> W.entity_index, ready |-> W.ready, columns |-> columns]
  BY <1>3
<1> HIDE DEF W2, columns
<1>5. W3 = [arena |-> W.arena, free |-> W.free, slots |-> slots,
            entity_index |-> index, ready |-> W.ready, columns |-> columns]
  BY <1>4
<1> HIDE DEF W3, arena
<1>6. W4 = [arena |-> arena, free |-> W.free, slots |-> slots,
            entity_index |-> index, ready |-> W.ready, columns |-> columns]
  BY <1>2, <1>5
<1> HIDE DEF W4
<1>7. W5 = [arena |-> arena, free |-> free, slots |-> slots,
            entity_index |-> index, ready |-> W.ready, columns |-> columns]
  BY <1>6
<1> HIDE DEF W5
<1>8. /\ W5.arena = arena /\ W5.free = free /\ W5.slots = slots
      /\ W5.entity_index = index /\ W5.ready = W.ready /\ W5.columns = columns
  BY <1>7
<1>10. free = Append(W.free, e.slot)
  BY <1>2 DEF free
<1>9. W5 = [arena |-> W5.arena, free |-> W5.free, slots |-> W5.slots,
            entity_index |-> W5.entity_index, ready |-> W5.ready, columns |-> W5.columns]
  BY <1>7, <1>8
<1> QED BY <1>1, <1>8, <1>9, <1>10, Zenon DEF Left, a, i, left, index, column, slots, columns, arena

\* Where a live entity is (Located, as one fact).
LEMMA Homes ==
  ASSUME NEW W, Sound(W)
  PROVE  /\ \A d \in Index(W) :
              /\ Home(W, d) \in Archetypes
              /\ Place(W, d) \in 1 .. Len(W.slots[Home(W, d)])
              /\ W.slots[Home(W, d)][Place(W, d)] = d
              /\ W.entity_index[d] = <<Home(W, d), Place(W, d)>>
         /\ \A b \in Archetypes : \A k \in 1 .. Len(W.slots[b]) :
              /\ W.slots[b][k] \in Index(W)
              /\ Home(W, W.slots[b][k]) = b /\ Place(W, W.slots[b][k]) = k
<1>1. \A d \in Index(W) : W.entity_index[d] \in Archetypes \X (Nat \ {0})
  BY DEF Sound, Shape
<1>2. ASSUME NEW d \in Index(W)
      PROVE  /\ Home(W, d) \in Archetypes
             /\ Place(W, d) \in 1 .. Len(W.slots[Home(W, d)])
             /\ W.slots[Home(W, d)][Place(W, d)] = d
             /\ W.entity_index[d] = <<Home(W, d), Place(W, d)>>
  BY <1>1 DEF Sound, Located, Home, Place
<1>3. ASSUME NEW b \in Archetypes, NEW k \in 1 .. Len(W.slots[b])
      PROVE  /\ W.slots[b][k] \in Index(W)
             /\ Home(W, W.slots[b][k]) = b /\ Place(W, W.slots[b][k]) = k
  <2>1. W.slots[b][k] \in Index(W) /\ W.entity_index[W.slots[b][k]] = <<b, k>>
    BY DEF Sound, Located
  <2> QED BY <2>1 DEF Home, Place
<1> QED BY <1>2, <1>3

\* Two live entities have different slots.
LEMMA SlotsDiffer ==
  ASSUME NEW W, Sound(W), NEW d \in Index(W), NEW e \in Index(W), d.slot = e.slot
  PROVE  d = e
<1>1. d \in Entity /\ e \in Entity
  BY DEF Sound, Shape
<1>2. IsAlive(W, d) /\ IsAlive(W, e)
  BY DEF Sound, Owned
<1>3. [gen |-> d.gen, occupied |-> TRUE] = [gen |-> e.gen, occupied |-> TRUE]
  BY <1>2 DEF IsAlive
<1>4. d.gen = e.gen
  BY <1>3
<1> QED BY <1>1, <1>4 DEF Entity

\* What a world is without e: the last entity of the archetype has its place,
\* its slot is vacant and on the stack, and no other entity notices.
LEMMA DespawnedSound ==
  ASSUME NEW W, Sound(W), NEW e \in Index(W)
  PROVE  Sound(Despawned(W, e))
<1> DEFINE D == Despawned(W, e)
           a == Home(W, e)
           i == Place(W, e)
           n == Len(W.slots[a])
           last == W.slots[a][n]
           left == SwapRemove(W.slots[a], i)
<1>1. Left(D, W, e)
  BY DespawnedParts
<1> HIDE DEF D
<1>2. /\ a \in Archetypes /\ i \in 1 .. n /\ n \in Nat
      /\ W.slots[a] \in Seq(Entity) /\ W.slots[a][i] = e
  BY Homes, LenProperties DEF Sound, Shape
<1>3. /\ n \in 1 .. n /\ \A k \in 1 .. n - 1 : k \in 1 .. n /\ k # n
      /\ \A k \in 1 .. n : k # n => k \in 1 .. n - 1
  <2>1. \A m \in Nat : \A j \in 1 .. m : /\ m \in 1 .. m
                                         /\ \A k \in 1 .. m - 1 : k \in 1 .. m /\ k # m
                                         /\ \A k \in 1 .. m : k # m => k \in 1 .. m - 1
    OBVIOUS
  <2> QED BY <1>2, <2>1
<1>4. /\ left \in Seq(Entity) /\ Len(left) = n - 1
      /\ \A k \in 1 .. n - 1 : left[k] = IF k = i THEN last ELSE W.slots[a][k]
  BY <1>2, SwapRemoveProperties
<1>5. /\ D = [arena |-> D.arena, free |-> D.free, slots |-> D.slots,
              entity_index |-> D.entity_index, ready |-> D.ready, columns |-> D.columns]
      /\ D.arena = [W.arena EXCEPT ![e.slot + 1] = Vacant(e.gen)]
      /\ D.free = Append(W.free, e.slot)
      /\ D.ready = W.ready
      /\ D.slots = [W.slots EXCEPT ![a] = left]
      /\ D.entity_index = IF i <= Len(left) THEN With(Without(W.entity_index, e), left[i], <<a, i>>)
                          ELSE Without(W.entity_index, e)
      /\ D.columns = [W.columns EXCEPT ![a] = [c \in Components |->
           IF c \in Sparse THEN Without(W.columns[a][c], e.slot)
           ELSE IF c \in W.ready[a] THEN SwapRemove(W.columns[a][c], i) ELSE W.columns[a][c]]]
  BY <1>1, Zenon DEF Left
<1> HIDE DEF left, a, i, n, last
<1>6. /\ last \in Index(W) /\ Home(W, last) = a /\ Place(W, last) = n
      /\ i # n => last # e
  <2>1. n \in 1 .. Len(W.slots[a])
    BY <1>3 DEF n
  <2>2. last \in Index(W) /\ Home(W, last) = a /\ Place(W, last) = n
    BY <1>2, <2>1, Homes DEF last
  <2>3. Place(W, e) = i
    BY DEF i
  <2> QED BY <2>2, <2>3
<1>7. /\ Index(D) = Index(W) \ {e}
      /\ \A d \in Index(D) : D.entity_index[d] = IF d = last THEN <<a, i>> ELSE W.entity_index[d]
  <2>1. CASE i = n
    <3>1. ~(i <= Len(left)) /\ last = e
      BY <1>2, <1>4, <2>1 DEF last
    <3>2. D.entity_index = Without(W.entity_index, e)
      BY <1>5, <3>1
    <3> QED BY <3>1, <3>2 DEF Index, Without
  <2>2. CASE i # n
    <3>1. i \in 1 .. n - 1 /\ i <= Len(left) /\ left[i] = last /\ last # e
      BY <1>2, <1>3, <1>4, <1>6, <2>2
    <3>2. D.entity_index = With(Without(W.entity_index, e), last, <<a, i>>)
      BY <1>5, <3>1
    <3> QED BY <1>6, <3>1, <3>2 DEF Index, With, Without
  <2> QED BY <2>1, <2>2
<1>8. D.slots[a] = left /\ \A b \in Archetypes \ {a} : D.slots[b] = W.slots[b]
  <2>1. DOMAIN W.slots = Archetypes
    BY DEF Sound, Shape
  <2> QED BY <1>2, <1>5, <2>1
<1>9. e \in Entity /\ e.slot \in Nat /\ IsAlive(W, e)
  BY DEF Sound, Shape, Owned, Entity
<1>10. /\ Len(W.arena) \in Nat /\ e.slot + 1 \in 1 .. Len(W.arena) /\ Vacant(e.gen) \in Cell
       /\ D.arena \in Seq(Cell) /\ Len(D.arena) = Len(W.arena)
       /\ \A s \in 0 .. Len(W.arena) - 1 :
            D.arena[s + 1] = IF s = e.slot THEN Vacant(e.gen) ELSE W.arena[s + 1]
  <2>1. Len(W.arena) \in Nat /\ W.arena \in Seq(Cell)
    BY LenProperties DEF Sound, Shape
  <2>2. e.slot + 1 \in 1 .. Len(W.arena)
    BY <1>9, <2>1 DEF IsAlive
  <2>3. Vacant(e.gen) \in Cell
    BY <1>9 DEF Vacant, Cell, Entity
  <2>4. /\ D.arena \in Seq(Cell) /\ Len(D.arena) = Len(W.arena)
        /\ \A j \in 1 .. Len(W.arena) : D.arena[j] = IF j = e.slot + 1 THEN Vacant(e.gen) ELSE W.arena[j]
    BY <1>5, <2>1, <2>2, <2>3, ExceptSeq
  <2>5. \A s \in 0 .. Len(W.arena) - 1 : s + 1 \in 1 .. Len(W.arena) /\ (s + 1 = e.slot + 1 => s = e.slot)
    BY <1>9, <2>1
  <2> QED BY <2>1, <2>2, <2>3, <2>4, <2>5
<1>11. /\ D.columns = [b \in Archetypes |-> D.columns[b]]
       /\ \A b \in Archetypes \ {a} : D.columns[b] = W.columns[b]
       /\ D.columns[a] = [c \in Components |->
            IF c \in Sparse THEN Without(W.columns[a][c], e.slot)
            ELSE IF c \in W.ready[a] THEN SwapRemove(W.columns[a][c], i) ELSE W.columns[a][c]]
  <2>1. W.columns = [b \in Archetypes |-> W.columns[b]]
    BY DEF Sound, Shape
  <2> QED BY <1>2, <1>5, <2>1
<1>12. \A c \in W.ready[a] \cap Aligned :
         /\ SwapRemove(W.columns[a][c], i) \in Seq(Values \cup {Default})
         /\ Len(SwapRemove(W.columns[a][c], i)) = n - 1
  <2> TAKE c \in W.ready[a] \cap Aligned
  <2>1. W.columns[a][c] \in Seq(Values \cup {Default}) /\ Len(W.columns[a][c]) = n
    BY <1>2 DEF Sound, Shape, Filled, n
  <2> QED BY <1>2, <2>1, SwapRemoveProperties
<1>13. Shape(D)
  <2>1. D.arena \in Seq(Cell) /\ Len(D.arena) <= MaxSlots
    BY <1>10 DEF Sound, Shape
  <2>2. D.free \in Seq(Nat)
    BY <1>5, <1>9, AppendProperties DEF Sound, Shape
  <2>3. D.slots \in [Archetypes -> Seq(Entity)]
    BY <1>4, <1>5, <1>2 DEF Sound, Shape
  <2>4. D.entity_index \in [Index(D) -> Archetypes \X (Nat \ {0})] /\ Index(D) \subseteq Entity
    <3>1. D.entity_index = [d \in Index(D) |-> D.entity_index[d]]
      BY <1>5 DEF With, Without, Index
    <3>2. <<a, i>> \in Archetypes \X (Nat \ {0})
      BY <1>2
    <3>3. Index(W) \subseteq Entity /\ \A d \in Index(W) : W.entity_index[d] \in Archetypes \X (Nat \ {0})
      BY DEF Sound, Shape
    <3>4. \A d \in Index(D) : D.entity_index[d] \in Archetypes \X (Nat \ {0})
      BY <1>7, <3>2, <3>3
    <3> QED BY <1>7, <3>1, <3>3, <3>4
  <2>5. D.ready \in [Archetypes -> SUBSET Components]
    BY <1>5 DEF Sound, Shape
  <2>6. ASSUME NEW b \in Archetypes
        PROVE  /\ D.columns[b] = [c \in Components |-> D.columns[b][c]]
               /\ \A c \in Aligned : D.columns[b][c] \in Seq(Values \cup {Default})
    <3>1. CASE b = a
      <4>1. \A c \in Aligned : /\ c \in Components /\ c \notin Sparse
                               /\ W.columns[a][c] \in Seq(Values \cup {Default})
        BY <1>2 DEF Sound, Shape, Aligned
      <4> QED BY <1>11, <1>12, <3>1, <4>1
    <3>2. CASE b # a
      BY <1>11, <3>2 DEF Sound, Shape
    <3> QED BY <3>1, <3>2
  <2> QED BY <1>5, <1>11, <2>1, <2>2, <2>3, <2>4, <2>5, <2>6 DEF Shape
<1>14. Stack(D)
  <2>1. /\ Len(W.free) \in Nat /\ DOMAIN W.free = 1 .. Len(W.free) /\ W.free \in Seq(Nat)
        /\ \A k \in 1 .. Len(W.free) : W.free[k] \in Nat
    BY LenProperties DEF Sound, Shape
  <2>2. /\ DOMAIN D.free = 1 .. Len(W.free) + 1
        /\ \A k \in 1 .. Len(W.free) : D.free[k] = W.free[k]
        /\ D.free[Len(W.free) + 1] = e.slot
    BY <1>5, <1>9, <2>1, AppendProperties, LenProperties
  <2>3. \A k \in 1 .. Len(W.free) :
          W.free[k] < Len(W.arena) /\ ~W.arena[W.free[k] + 1].occupied /\ W.free[k] # e.slot
    <3>1. W.arena[e.slot + 1].occupied
      BY <1>9 DEF IsAlive
    <3> QED BY <2>1, <3>1 DEF Sound, Stack, ToSet
  <2>4. IsInjective(D.free)
    <3>1. \A j, k \in 1 .. Len(W.free) : W.free[j] = W.free[k] => j = k
      BY <2>1 DEF Sound, Stack, IsInjective
    <3>2. \A k \in 1 .. Len(W.free) + 1 : k # Len(W.free) + 1 => k \in 1 .. Len(W.free)
      BY <2>1
    <3> SUFFICES ASSUME NEW j \in 1 .. Len(W.free) + 1, NEW k \in 1 .. Len(W.free) + 1,
                        D.free[j] = D.free[k]
                 PROVE  j = k
      BY <2>2 DEF IsInjective
    <3> QED BY <2>2, <2>3, <3>1, <3>2
  <2>5. \A s \in ToSet(D.free) : s < Len(D.arena) /\ ~D.arena[s + 1].occupied
    <3> SUFFICES ASSUME NEW k \in 1 .. Len(W.free) + 1
                 PROVE  D.free[k] < Len(D.arena) /\ ~D.arena[D.free[k] + 1].occupied
      BY <2>2 DEF ToSet
    <3>1. CASE k = Len(W.free) + 1
      <4>1. e.slot \in 0 .. Len(W.arena) - 1
        BY <1>9, <1>10
      <4>2. D.arena[e.slot + 1] = Vacant(e.gen)
        BY <1>10, <4>1
      <4> QED BY <1>10, <2>2, <3>1, <4>1, <4>2 DEF Vacant
    <3>2. CASE k # Len(W.free) + 1
      <4>1. k \in 1 .. Len(W.free)
        BY <2>1, <3>2
      <4>2. W.free[k] \in 0 .. Len(W.arena) - 1
        BY <1>10, <2>1, <2>3, <4>1
      <4>3. D.arena[W.free[k] + 1] = W.arena[W.free[k] + 1]
        BY <1>10, <2>3, <4>1, <4>2
      <4> QED BY <1>10, <2>2, <2>3, <4>1, <4>3
    <3> QED BY <3>1, <3>2
  <2> QED BY <2>4, <2>5 DEF Stack
<1>15. Owned(D)
  <2>1. ASSUME NEW d \in Index(D)
        PROVE  IsAlive(D, d)
    <3>1. d \in Index(W) /\ d # e /\ IsAlive(W, d) /\ d.slot \in Nat
      BY <1>7 DEF Sound, Shape, Owned, Entity
    <3>2. d.slot # e.slot /\ d.slot \in 0 .. Len(W.arena) - 1
      BY <1>10, <3>1, SlotsDiffer DEF IsAlive
    <3>3. D.arena[d.slot + 1] = W.arena[d.slot + 1]
      BY <1>10, <3>2
    <3> QED BY <1>10, <3>1, <3>3 DEF IsAlive
  <2>2. ASSUME NEW s \in 0 .. Len(D.arena) - 1, D.arena[s + 1].occupied
        PROVE  \E d \in Index(D) : d.slot = s
    <3>1. s # e.slot /\ W.arena[s + 1].occupied /\ s \in 0 .. Len(W.arena) - 1
      <4>1. ~Vacant(e.gen).occupied
        BY DEF Vacant
      <4>2. s \in 0 .. Len(W.arena) - 1
        BY <1>10
      <4>3. D.arena[s + 1] = IF s = e.slot THEN Vacant(e.gen) ELSE W.arena[s + 1]
        BY <1>10, <4>2
      <4> QED BY <2>2, <4>1, <4>2, <4>3
    <3>2. PICK d \in Index(W) : d.slot = s
      BY <3>1 DEF Sound, Owned
    <3> QED BY <1>7, <3>1, <3>2
  <2> QED BY <2>1, <2>2 DEF Owned
<1>16. Located(D)
  <2>1. ASSUME NEW d \in Index(D)
        PROVE  LET b == D.entity_index[d][1]
                   k == D.entity_index[d][2]
               IN  k \in 1 .. Len(D.slots[b]) /\ D.slots[b][k] = d
    <3>1. d \in Index(W) /\ d # e
      BY <1>7
    <3>2. CASE d = last
      <4>1. i # n /\ i \in 1 .. n - 1
        BY <1>2, <1>3, <3>1, <3>2 DEF last
      <4>2. D.entity_index[d] = <<a, i>>
        BY <1>7, <3>2
      <4> QED BY <1>4, <1>8, <3>2, <4>1, <4>2
    <3>3. CASE d # last
      <4> DEFINE b == Home(W, d)
                 k == Place(W, d)
      <4>1. /\ b \in Archetypes /\ k \in 1 .. Len(W.slots[b]) /\ W.slots[b][k] = d
            /\ W.entity_index[d] = <<b, k>>
        BY <3>1, Homes
      <4>2. D.entity_index[d] = <<b, k>>
        BY <1>7, <3>3, <4>1
      <4> HIDE DEF b, k
      <4>3. k \in 1 .. Len(D.slots[b]) /\ D.slots[b][k] = d
        <5>1. CASE b # a
          BY <1>8, <4>1, <5>1
        <5>2. CASE b = a
          <6>1. k # i /\ k # n /\ k \in 1 .. n
            BY <1>2, <3>1, <3>3, <4>1, <5>2 DEF last, n
          <6> QED BY <1>3, <1>4, <1>8, <4>1, <5>2, <6>1
        <5> QED BY <5>1, <5>2
      <4> QED BY <4>2, <4>3
    <3> QED BY <3>2, <3>3
  <2>2. ASSUME NEW b \in Archetypes, NEW k \in 1 .. Len(D.slots[b])
        PROVE  D.slots[b][k] \in Index(D) /\ D.entity_index[D.slots[b][k]] = <<b, k>>
    <3>1. CASE b # a
      <4> DEFINE d == W.slots[b][k]
      <4>1. /\ D.slots[b][k] = d /\ d \in Index(W) /\ Home(W, d) = b /\ Place(W, d) = k
            /\ W.entity_index[d] = <<b, k>>
        <5>1. k \in 1 .. Len(W.slots[b]) /\ D.slots[b][k] = d
          BY <1>8, <3>1
        <5> QED BY <5>1, Homes
      <4> HIDE DEF d
      <4>2. d # e /\ d # last
        BY <1>6, <3>1, <4>1 DEF a
      <4> QED BY <1>7, <4>1, <4>2
    <3>2. CASE b = a /\ k = i
      <4>1. i \in 1 .. n - 1 /\ i # n
        BY <1>3, <1>4, <1>8, <3>2
      <4>2. D.slots[b][k] = last
        BY <1>4, <1>8, <3>2, <4>1
      <4> QED BY <1>6, <1>7, <3>2, <4>1, <4>2
    <3>3. CASE b = a /\ k # i
      <4> DEFINE d == W.slots[a][k]
      <4>1. k \in 1 .. n - 1 /\ k \in 1 .. n /\ k # n
        BY <1>3, <1>4, <1>8, <3>3
      <4>2. D.slots[b][k] = d
        BY <1>4, <1>8, <3>3, <4>1
      <4>3. d \in Index(W) /\ Home(W, d) = a /\ Place(W, d) = k /\ W.entity_index[d] = <<a, k>>
        BY <1>2, <4>1, Homes DEF n
      <4> HIDE DEF d
      <4>4. d # e /\ d # last
        BY <1>6, <3>3, <4>1, <4>3 DEF i
      <4> QED BY <1>7, <3>3, <4>2, <4>3, <4>4
    <3> QED BY <3>1, <3>2, <3>3
  <2> QED BY <2>1, <2>2 DEF Located
<1>17. Filled(D)
  <2> SUFFICES ASSUME NEW b \in Archetypes
               PROVE  /\ \A c \in D.ready[b] \cap Aligned : Len(D.columns[b][c]) = Len(D.slots[b])
                      /\ \A c \in Sparse : \A s \in DOMAIN D.columns[b][c] :
                           \E k \in 1 .. Len(D.slots[b]) : D.slots[b][k].slot = s
    BY DEF Filled
  <2>1. CASE b # a
    <3>1. D.ready[b] = W.ready[b] /\ D.slots[b] = W.slots[b] /\ D.columns[b] = W.columns[b]
      BY <1>5, <1>8, <1>11, <2>1
    <3> QED BY <3>1 DEF Sound, Filled
  <2>2. CASE b = a
    <3>1. \A c \in D.ready[a] \cap Aligned : Len(D.columns[a][c]) = Len(D.slots[a])
      <4>1. \A c \in Aligned : c \in Components /\ c \notin Sparse
        BY DEF Aligned
      <4> QED BY <1>4, <1>5, <1>8, <1>11, <1>12, <4>1
    <3>2. ASSUME NEW c \in Sparse, NEW s \in DOMAIN D.columns[a][c]
          PROVE  \E k \in 1 .. Len(D.slots[a]) : D.slots[a][k].slot = s
      <4>1. D.columns[a][c] = Without(W.columns[a][c], e.slot)
        BY <1>11, SparseAssumption
      <4>2. s \in DOMAIN W.columns[a][c] /\ s # e.slot
        BY <4>1 DEF Without
      <4>3. PICK k \in 1 .. n : W.slots[a][k].slot = s
        BY <1>2, <4>2 DEF Sound, Filled, n
      <4>4. k # i
        BY <1>2, <4>2, <4>3
      <4>5. CASE k = n
        <5>1. i \in 1 .. n - 1 /\ left[i] = last
          BY <1>2, <1>3, <1>4, <4>4, <4>5
        <5>2. i \in 1 .. Len(D.slots[a]) /\ D.slots[a][i].slot = s
          BY <1>4, <1>8, <4>3, <4>5, <5>1 DEF last
        <5> QED BY <5>2
      <4>6. CASE k # n
        <5>1. k \in 1 .. n - 1 /\ left[k] = W.slots[a][k]
          BY <1>3, <1>4, <4>4, <4>6
        <5>2. k \in 1 .. Len(D.slots[a]) /\ D.slots[a][k].slot = s
          BY <1>4, <1>8, <4>3, <5>1
        <5> QED BY <5>2
      <4> QED BY <4>5, <4>6
    <3> QED BY <2>2, <3>1, <3>2
  <2> QED BY <2>1, <2>2
<1> QED BY <1>13, <1>14, <1>15, <1>16, <1>17 DEF Sound, D

----------------------------------------------------------------------------
(* Components *)

\* V is W with the columns C in archetype a, of which r are ready.
Stored(V, W, a, r, C) ==
  V = [arena |-> W.arena, free |-> W.free, slots |-> W.slots, entity_index |-> W.entity_index,
       ready |-> [W.ready EXCEPT ![a] = r], columns |-> [W.columns EXCEPT ![a] = C]]

\* Columns that fit the slots of archetype a of W.
Fits(W, a, r, C) ==
  /\ C = [c \in Components |-> C[c]]
  /\ \A c \in Aligned : C[c] \in Seq(Values \cup {Default})
  /\ \A c \in r \cap Aligned : Len(C[c]) = Len(W.slots[a])
  /\ \A c \in Sparse : \A s \in DOMAIN C[c] : \E i \in 1 .. Len(W.slots[a]) : W.slots[a][i].slot = s

\* What is done to the columns of one archetype leaves the entities alone.
LEMMA StoredSound ==
  ASSUME NEW W, Sound(W), NEW a \in Archetypes, NEW r \in SUBSET Components,
         NEW C, Fits(W, a, r, C), NEW V, Stored(V, W, a, r, C)
  PROVE  Sound(V)
<1> DEFINE ready == [W.ready EXCEPT ![a] = r]
           columns == [W.columns EXCEPT ![a] = C]
<1>1. /\ V.arena = W.arena /\ V.free = W.free /\ V.slots = W.slots
      /\ V.entity_index = W.entity_index /\ V.ready = ready /\ V.columns = columns
  <2> HIDE DEF ready, columns
  <2>1. V = [arena |-> W.arena, free |-> W.free, slots |-> W.slots,
             entity_index |-> W.entity_index, ready |-> ready, columns |-> columns]
    BY DEF Stored, ready, columns
  <2> QED BY <2>1
<1>2. V = [arena |-> V.arena, free |-> V.free, slots |-> V.slots,
           entity_index |-> V.entity_index, ready |-> V.ready, columns |-> V.columns]
  <2> HIDE DEF ready, columns
  <2>1. V = [arena |-> W.arena, free |-> W.free, slots |-> W.slots,
             entity_index |-> W.entity_index, ready |-> ready, columns |-> columns]
    BY DEF Stored, ready, columns
  <2> QED BY <1>1, <2>1
<1>3. /\ V.columns = [b \in Archetypes |-> V.columns[b]] /\ V.columns[a] = C
      /\ \A b \in Archetypes \ {a} : V.columns[b] = W.columns[b]
  <2>1. W.columns = [b \in Archetypes |-> W.columns[b]]
    BY DEF Sound, Shape
  <2> QED BY <1>1, <2>1
<1>4. /\ V.ready \in [Archetypes -> SUBSET Components] /\ V.ready[a] = r
      /\ \A b \in Archetypes \ {a} : V.ready[b] = W.ready[b]
  <2>1. W.ready \in [Archetypes -> SUBSET Components]
    BY DEF Sound, Shape
  <2> QED BY <1>1, <2>1
<1> HIDE DEF ready, columns
<1>5. Shape(V)
  <2>1. ASSUME NEW b \in Archetypes
        PROVE  /\ V.columns[b] = [c \in Components |-> V.columns[b][c]]
               /\ \A c \in Aligned : V.columns[b][c] \in Seq(Values \cup {Default})
    <3>1. CASE b = a
      BY <1>3, <3>1 DEF Fits
    <3>2. CASE b # a
      BY <1>3, <3>2 DEF Sound, Shape
    <3> QED BY <3>1, <3>2
  <2>2. Index(V) = Index(W)
    BY <1>1 DEF Index
  <2>3. /\ V.arena \in Seq(Cell) /\ Len(V.arena) <= MaxSlots /\ V.free \in Seq(Nat)
        /\ V.slots \in [Archetypes -> Seq(Entity)] /\ Index(V) \subseteq Entity
        /\ V.entity_index \in [Index(V) -> Archetypes \X (Nat \ {0})]
    BY <1>1, <2>2 DEF Sound, Shape
  <2> QED BY <1>2, <1>3, <1>4, <2>1, <2>3 DEF Shape
<1>6. Stack(V)
  BY <1>1 DEF Sound, Stack
<1>7. Owned(V)
  BY <1>1 DEF Sound, Owned, Index, IsAlive
<1>8. Located(V)
  BY <1>1 DEF Sound, Located, Index
<1>9. Filled(V)
  <2> SUFFICES ASSUME NEW b \in Archetypes
               PROVE  /\ \A c \in V.ready[b] \cap Aligned : Len(V.columns[b][c]) = Len(V.slots[b])
                      /\ \A c \in Sparse : \A s \in DOMAIN V.columns[b][c] :
                           \E k \in 1 .. Len(V.slots[b]) : V.slots[b][k].slot = s
    BY DEF Filled
  <2>1. CASE b = a
    <3>1. V.ready[b] = r /\ V.slots[b] = W.slots[a] /\ V.columns[b] = C
      BY <1>1, <1>3, <1>4, <2>1
    <3> QED BY <3>1 DEF Fits
  <2>2. CASE b # a
    <3>1. V.ready[b] = W.ready[b] /\ V.slots[b] = W.slots[b] /\ V.columns[b] = W.columns[b]
      BY <1>1, <1>3, <1>4, <2>2
    <3> QED BY <3>1 DEF Sound, Filled
  <2> QED BY <2>1, <2>2
<1> QED BY <1>5, <1>6, <1>7, <1>8, <1>9 DEF Sound

\* An assignment to the columns of an archetype, or to one of them.
LEMMA ColumnsStored ==
  ASSUME NEW W, Sound(W), NEW a \in Archetypes, NEW C
  PROVE  /\ Stored([W EXCEPT !.columns[a] = C], W, a, W.ready[a], C)
         /\ W.ready[a] \in SUBSET Components
<1> DEFINE columns == [W.columns EXCEPT ![a] = C]
           W1 == [W EXCEPT !.columns[a] = C]
<1>1. W1 = [arena |-> W.arena, free |-> W.free, slots |-> W.slots,
            entity_index |-> W.entity_index, ready |-> W.ready, columns |-> columns]
  <2>1. W = [arena |-> W.arena, free |-> W.free, slots |-> W.slots,
             entity_index |-> W.entity_index, ready |-> W.ready, columns |-> W.columns]
    BY DEF Sound, Shape
  <2> QED BY <2>1
<1> HIDE DEF W1, columns
<1>2. W.ready \in [Archetypes -> SUBSET Components] /\ W.ready = [W.ready EXCEPT ![a] = W.ready[a]]
  BY DEF Sound, Shape
<1>3. Stored(W1, W, a, W.ready[a], C)
  BY <1>1, <1>2 DEF Stored, columns
<1> QED BY <1>2, <1>3 DEF W1

\* What one write leaves in the column of any archetype and component.
LEMMA ColumnStored ==
  ASSUME NEW W, Sound(W), NEW a \in Archetypes, NEW c, NEW column
  PROVE  Stored([W EXCEPT !.columns[a][c] = column], W, a, W.ready[a],
                [W.columns[a] EXCEPT ![c] = column])
<1> DEFINE C == [W.columns[a] EXCEPT ![c] = column]
<1>1. [W EXCEPT !.columns[a][c] = column] = [W EXCEPT !.columns[a] = C]
  OBVIOUS
<1> HIDE DEF C
<1>2. Stored([W EXCEPT !.columns[a] = C], W, a, W.ready[a], C)
  BY ColumnsStored
<1> QED BY <1>1, <1>2 DEF C

\* A new column has the default for every entity of the archetype.
NewColumn(W, a, c) == IF c \in Sparse THEN <<>> ELSE [i \in DOMAIN W.slots[a] |-> Default]

\* What creating a column leaves in each column (ensure_column).
LEMMA MadeReadyStored ==
  ASSUME NEW W, Sound(W), NEW a \in Archetypes, NEW c \in Components, c \notin W.ready[a]
  PROVE  Stored(MadeReady(W, a, c), W, a, W.ready[a] \cup {c},
                [W.columns[a] EXCEPT ![c] = NewColumn(W, a, c)])
<1> DEFINE column == NewColumn(W, a, c)
           r == W.ready[a] \cup {c}
           C == [W.columns[a] EXCEPT ![c] = column]
           ready == [W.ready EXCEPT ![a] = r]
           columns == [W.columns EXCEPT ![a] = C]
           W1 == [W EXCEPT !.ready[a] = r]
           W2 == [W1 EXCEPT !.columns[a][c] = column]
<1>1. MadeReady(W, a, c) = W2
  BY DEF MadeReady, NewColumn
<1> HIDE DEF column, r
<1>2. W1 = [arena |-> W.arena, free |-> W.free, slots |-> W.slots,
            entity_index |-> W.entity_index, ready |-> ready, columns |-> W.columns]
  <2>1. W = [arena |-> W.arena, free |-> W.free, slots |-> W.slots,
             entity_index |-> W.entity_index, ready |-> W.ready, columns |-> W.columns]
    BY DEF Sound, Shape
  <2> QED BY <2>1
<1> HIDE DEF W1, ready
<1>3. W2 = [arena |-> W.arena, free |-> W.free, slots |-> W.slots,
            entity_index |-> W.entity_index, ready |-> ready, columns |-> columns]
  BY <1>2
<1> HIDE DEF W2, columns, C
<1>4. Stored(W2, W, a, r, C)
  BY <1>3 DEF Stored, ready, columns
<1> QED BY <1>1, <1>4 DEF C, column, r

\* The columns of an archetype fit its slots, and do so with another column c.
LEMMA FitsOne ==
  ASSUME NEW W, Sound(W), NEW a \in Archetypes, NEW c \in Components, NEW column,
         c \in Aligned => /\ column \in Seq(Values \cup {Default})
                          /\ Len(column) = Len(W.slots[a]),
         c \in Sparse => \A s \in DOMAIN column : \E i \in 1 .. Len(W.slots[a]) : W.slots[a][i].slot = s
  PROVE  /\ Fits(W, a, W.ready[a], [W.columns[a] EXCEPT ![c] = column])
         /\ Fits(W, a, W.ready[a] \cup {c}, [W.columns[a] EXCEPT ![c] = column])
<1> DEFINE C == [W.columns[a] EXCEPT ![c] = column]
<1>1. C = [d \in Components |-> C[d]] /\ C[c] = column
      /\ \A d \in Components \ {c} : C[d] = W.columns[a][d]
  <2>1. W.columns[a] = [d \in Components |-> W.columns[a][d]]
    BY DEF Sound, Shape
  <2> QED BY <2>1
<1> HIDE DEF C
<1>2. /\ \A d \in Aligned : d \in Components /\ W.columns[a][d] \in Seq(Values \cup {Default})
      /\ \A d \in W.ready[a] \cap Aligned : Len(W.columns[a][d]) = Len(W.slots[a])
      /\ \A d \in Sparse : d \in Components
      /\ \A d \in Sparse : \A s \in DOMAIN W.columns[a][d] :
           \E i \in 1 .. Len(W.slots[a]) : W.slots[a][i].slot = s
  BY SparseAssumption DEF Sound, Shape, Filled, Aligned
<1>3. \A d \in Aligned : C[d] \in Seq(Values \cup {Default})
  BY <1>1, <1>2
<1>4. \A d \in (W.ready[a] \cup {c}) \cap Aligned : Len(C[d]) = Len(W.slots[a])
  BY <1>1, <1>2
<1>5. \A d \in Sparse : \A s \in DOMAIN C[d] : \E i \in 1 .. Len(W.slots[a]) : W.slots[a][i].slot = s
  <2> TAKE d \in Sparse
  <2>1. CASE d = c
    BY <1>1, <2>1
  <2>2. CASE d # c
    <3>1. C[d] = W.columns[a][d]
      BY <1>1, <1>2, <2>2
    <3> QED BY <1>2, <3>1
  <2> QED BY <2>1, <2>2
<1> QED BY <1>1, <1>3, <1>4, <1>5 DEF Fits, C

\* A new column has the default for every entity of the archetype
\* (soa.rs:41-70).
LEMMA MadeReadySound ==
  ASSUME NEW W, Sound(W), NEW a \in Archetypes, NEW c \in Components
  PROVE  LET V == MadeReady(W, a, c)
         IN  Sound(V) /\ c \in V.ready[a] /\ V.entity_index = W.entity_index
<1>1. CASE c \in W.ready[a]
  BY <1>1 DEF MadeReady
<1>2. CASE c \notin W.ready[a]
  <2> DEFINE n == Len(W.slots[a])
             column == NewColumn(W, a, c)
             r == W.ready[a] \cup {c}
             C == [W.columns[a] EXCEPT ![c] = column]
             V == MadeReady(W, a, c)
  <2>1. Stored(V, W, a, r, C)
    BY <1>2, MadeReadyStored
  <2>2. n \in Nat /\ DOMAIN W.slots[a] = 1 .. n
    BY LenProperties DEF Sound, Shape
  <2>3. c \in Aligned => column \in Seq(Values \cup {Default}) /\ Len(column) = n
    <3> SUFFICES ASSUME c \in Aligned
                 PROVE  column \in Seq(Values \cup {Default}) /\ Len(column) = n
      OBVIOUS
    <3>1. column \in [1 .. n -> Values \cup {Default}]
      BY <2>2 DEF Aligned, NewColumn
    <3> HIDE DEF column
    <3>2. \E m \in Nat : column \in [1 .. m -> Values \cup {Default}]
      BY <2>2, <3>1
    <3>3. column \in Seq(Values \cup {Default})
      BY <3>2, SeqDef, Zenon
    <3> QED BY <2>2, <3>1, <3>3, LenProperties
  <2>4. c \in Sparse => DOMAIN column = {}
    BY DEF NewColumn
  <2> HIDE DEF column, V
  <2>5. Fits(W, a, r, C)
    BY <2>3, <2>4, FitsOne
  <2> HIDE DEF C
  <2>6. r \in SUBSET Components
    BY DEF Sound, Shape
  <2>7. Sound(V)
    BY <2>1, <2>5, <2>6, StoredSound
  <2>8. V.entity_index = W.entity_index /\ V.ready[a] = r
    <3>1. DOMAIN W.ready = Archetypes
      BY DEF Sound, Shape
    <3> QED BY <2>1, <3>1 DEF Stored
  <2> QED BY <2>7, <2>8 DEF V
<1> QED BY <1>1, <1>2

\* A value of a ready component is written to the place of the entity, or under
\* its slot (world.rs:388-430).
LEMMA WrittenSound ==
  ASSUME NEW W, Sound(W), NEW e \in Index(W), NEW c \in Components,
         c \in W.ready[Home(W, e)], NEW v \in Values \cup {Default}
  PROVE  Sound(Written(W, e, c, v))
<1> DEFINE a == Home(W, e)
           i == Place(W, e)
           n == Len(W.slots[a])
           column == IF c \in Sparse THEN With(W.columns[a][c], e.slot, v)
                     ELSE [W.columns[a][c] EXCEPT ![i] = v]
           C == [W.columns[a] EXCEPT ![c] = column]
           W1 == [W EXCEPT !.columns[a][c] = column]
<1>1. a \in Archetypes /\ i \in 1 .. n /\ W.slots[a][i] = e
  BY Homes
<1>2. Written(W, e, c, v) = W1
  <2>1. CASE c \in Sparse
    BY <2>1 DEF Written, Home, Place
  <2>2. CASE c \notin Sparse
    BY <2>2 DEF Written, Home, Place
  <2> QED BY <2>1, <2>2
<1>3. c \in Aligned => column \in Seq(Values \cup {Default}) /\ Len(column) = n
  <2> SUFFICES ASSUME c \in Aligned
               PROVE  column \in Seq(Values \cup {Default}) /\ Len(column) = n
    OBVIOUS
  <2>1. W.columns[a][c] \in Seq(Values \cup {Default}) /\ Len(W.columns[a][c]) = n
    BY <1>1 DEF Sound, Shape, Filled
  <2>2. column = [W.columns[a][c] EXCEPT ![i] = v]
    BY DEF Aligned
  <2> QED BY <1>1, <2>1, <2>2, ExceptSeq
<1>4. c \in Sparse => \A s \in DOMAIN column : \E k \in 1 .. Len(W.slots[a]) : W.slots[a][k].slot = s
  <2> SUFFICES ASSUME c \in Sparse, NEW s \in DOMAIN column
               PROVE  \E k \in 1 .. Len(W.slots[a]) : W.slots[a][k].slot = s
    OBVIOUS
  <2>1. s \in DOMAIN W.columns[a][c] \/ s = e.slot
    BY DEF With
  <2> QED BY <1>1, <2>1 DEF Sound, Filled
<1> HIDE DEF column, a
<1>5. Fits(W, a, W.ready[a], C)
  BY <1>1, <1>3, <1>4, FitsOne
<1>6. Stored(W1, W, a, W.ready[a], C) /\ W.ready[a] \in SUBSET Components
  BY <1>1, ColumnStored, ColumnsStored
<1> HIDE DEF W1, C
<1> QED BY <1>1, <1>2, <1>5, <1>6, StoredSound

\* A sparse value is taken out.
LEMMA TakenOutSound ==
  ASSUME NEW W, Sound(W), NEW a \in Archetypes, NEW c \in Sparse, NEW s
  PROVE  Sound([W EXCEPT !.columns[a][c] = Without(W.columns[a][c], s)])
<1> DEFINE column == Without(W.columns[a][c], s)
           C == [W.columns[a] EXCEPT ![c] = column]
           W1 == [W EXCEPT !.columns[a][c] = column]
<1>1. c \in Components /\ c \notin Aligned
  BY SparseAssumption DEF Aligned
<1>2. \A t \in DOMAIN column : \E k \in 1 .. Len(W.slots[a]) : W.slots[a][k].slot = t
  BY DEF Without, Sound, Filled
<1> HIDE DEF column
<1>3. Fits(W, a, W.ready[a], C)
  BY <1>1, <1>2, FitsOne
<1>4. Stored(W1, W, a, W.ready[a], C) /\ W.ready[a] \in SUBSET Components
  BY ColumnStored, ColumnsStored
<1> HIDE DEF W1, C
<1>5. Sound(W1)
  BY <1>3, <1>4, StoredSound
<1> QED BY <1>5 DEF W1, column

\* What get returns of an aligned component is a value or the default.
LEMMA ValueTyped ==
  ASSUME NEW W, Sound(W), NEW e \in Index(W), NEW c \in Aligned
  PROVE  Value(W, e, c) \in Values \cup {Default}
<1> DEFINE a == Home(W, e)
           i == Place(W, e)
           column == W.columns[a][c]
<1>1. a \in Archetypes /\ i \in 1 .. Len(W.slots[a])
  BY Homes
<1>2. c \in W.ready[a] => column[i] \in Values \cup {Default}
  <2> SUFFICES ASSUME c \in W.ready[a]
               PROVE  column[i] \in Values \cup {Default}
    OBVIOUS
  <2>1. column \in Seq(Values \cup {Default}) /\ Len(column) = Len(W.slots[a])
    BY <1>1 DEF Sound, Shape, Filled
  <2> QED BY <1>1, <2>1, ElementOfSeq
<1>3. Value(W, e, c) = IF c \notin W.ready[a] THEN Default ELSE column[i]
  BY DEF Value, Home, Place
<1> QED BY <1>2, <1>3

\* What a migration gives a new entity goes to that entity's places
\* (migration.rs:94-130).
LEMMA GivenSound ==
  ASSUME NEW W, Sound(W), NEW new \in Index(W), NEW V, Sound(V), NEW e \in Index(V),
         NEW cs \in SUBSET W.ready[Home(W, new)]
  PROVE  Sound(Given(W, V, e, new, cs))
<1> DEFINE a == Home(W, new)
           i == Place(W, new)
           n == Len(W.slots[a])
           C == [c \in Components |->
                   IF c \notin cs THEN W.columns[a][c]
                   ELSE IF c \in Sparse THEN With(W.columns[a][c], new.slot, Value(V, e, c))
                   ELSE [W.columns[a][c] EXCEPT ![i] = Value(V, e, c)]]
           W1 == [W EXCEPT !.columns[a] = C]
<1>1. a \in Archetypes /\ i \in 1 .. n /\ W.slots[a][i] = new
  BY Homes
<1>2. Given(W, V, e, new, cs) = W1
  BY DEF Given, Home, Place
<1> HIDE DEF a, i
<1>3. ASSUME NEW c \in Aligned
      PROVE  /\ C[c] \in Seq(Values \cup {Default})
             /\ c \in W.ready[a] => Len(C[c]) = n
  <2>1. c \in Components /\ c \notin Sparse /\ W.columns[a][c] \in Seq(Values \cup {Default})
    BY <1>1 DEF Sound, Shape, Aligned
  <2>2. c \in W.ready[a] => Len(W.columns[a][c]) = n
    BY <1>1 DEF Sound, Filled
  <2>3. CASE c \in cs
    <3>1. c \in W.ready[a] /\ Value(V, e, c) \in Values \cup {Default}
      BY <2>3, ValueTyped DEF a
    <3>2. C[c] = [W.columns[a][c] EXCEPT ![i] = Value(V, e, c)]
      BY <2>1, <2>3
    <3> QED BY <1>1, <2>1, <2>2, <3>1, <3>2, ExceptSeq
  <2>4. CASE c \notin cs
    BY <2>1, <2>2, <2>4
  <2> QED BY <2>3, <2>4
<1>4. ASSUME NEW c \in Sparse, NEW s \in DOMAIN C[c]
      PROVE  \E k \in 1 .. n : W.slots[a][k].slot = s
  <2>1. C[c] = IF c \notin cs THEN W.columns[a][c]
               ELSE With(W.columns[a][c], new.slot, Value(V, e, c))
    BY SparseAssumption
  <2>2. s \in DOMAIN W.columns[a][c] \/ s = new.slot
    BY <2>1 DEF With
  <2> QED BY <1>1, <2>2 DEF Sound, Filled
<1>5. C = [c \in Components |-> C[c]]
  OBVIOUS
<1> HIDE DEF C
<1>6. Fits(W, a, W.ready[a], C)
  BY <1>3, <1>4, <1>5 DEF Fits
<1>7. Stored(W1, W, a, W.ready[a], C) /\ W.ready[a] \in SUBSET Components
  BY <1>1, ColumnsStored
<1> HIDE DEF W1
<1> QED BY <1>1, <1>2, <1>6, <1>7, StoredSound

----------------------------------------------------------------------------
(* Every operation keeps every world sound *)

\* A new world is sound.
LEMMA EmptySound == Sound(EmptyWorld)
<1> DEFINE E == EmptyWorld
<1>1. /\ E.arena = <<>> /\ E.free = <<>> /\ E.entity_index = <<>>
      /\ E.slots = [a \in Archetypes |-> <<>>] /\ E.ready = [a \in Archetypes |-> {}]
      /\ E.columns = [a \in Archetypes |-> [c \in Components |-> <<>>]]
      /\ E = [arena |-> E.arena, free |-> E.free, slots |-> E.slots,
              entity_index |-> E.entity_index, ready |-> E.ready, columns |-> E.columns]
  BY DEF EmptyWorld
<1> HIDE DEF E
<1>2. Index(E) = {} /\ E.entity_index \in [{} -> Archetypes \X (Nat \ {0})]
  BY <1>1 DEF Index
<1>3. \A S : <<>> \in Seq(S)
  BY EmptySeq
<1>4. Len(<<>>) = 0 /\ DOMAIN <<>> = {}
  OBVIOUS
<1>5. Shape(E)
  <2>1. E.arena \in Seq(Cell) /\ Len(E.arena) <= MaxSlots /\ E.free \in Seq(Nat)
    BY <1>1, <1>3, <1>4, BoundAssumption
  <2>2. E.slots \in [Archetypes -> Seq(Entity)] /\ E.ready \in [Archetypes -> SUBSET Components]
    BY <1>1, <1>3
  <2>3. /\ E.columns = [a \in Archetypes |-> E.columns[a]]
        /\ \A a \in Archetypes : E.columns[a] = [c \in Components |-> <<>>]
    BY <1>1
  <2>4. ASSUME NEW a \in Archetypes
        PROVE  /\ E.columns[a] = [c \in Components |-> E.columns[a][c]]
               /\ \A c \in Aligned : E.columns[a][c] \in Seq(Values \cup {Default})
    <3>1. E.columns[a] = [c \in Components |-> <<>>]
      BY <2>3
    <3> QED BY <1>3, <3>1 DEF Aligned
  <2> QED BY <1>1, <1>2, <2>1, <2>2, <2>3, <2>4 DEF Shape
<1>6. Stack(E)
  BY <1>1, <1>4 DEF Stack, IsInjective, ToSet
<1>7. Owned(E)
  BY <1>1, <1>2, <1>4 DEF Owned
<1>8. Located(E)
  BY <1>1, <1>2, <1>4 DEF Located
<1>9. Filled(E)
  BY <1>1, <1>4, SparseAssumption DEF Filled
<1> QED BY <1>5, <1>6, <1>7, <1>8, <1>9 DEF Sound, E

\* The worlds start sound.
LEMMA InitSound == WInit => WInv
  BY EmptySound DEF WInit, WInv

\* One world changes.
LEMMA OneChanges ==
  ASSUME WInv, NEW w \in WorldSet, NEW X, Sound(X), world' = [world EXCEPT ![w] = X]
  PROVE  WInv'
<1>1. /\ world' = [v \in WorldSet |-> world'[v]]
      /\ \A v \in WorldSet : world'[v] = IF v = w THEN X ELSE world[v]
  BY DEF WInv
<1> QED BY <1>1 DEF WInv

\* World::spawn keeps worlds sound.
LEMMA SpawnSound ==
  ASSUME NoRunOver, WInv, NEW w \in WorldSet, NEW a \in Archetypes, Spawn(w, a)
  PROVE  WInv'
<1>1. Sound(world[w]) /\ CanAllocate(world[w])
  BY DEF WInv, Spawn
<1>2. Fresh(world[w], Allocate(world[w]))
  BY <1>1, AllocateFresh DEF Sound
<1>3. Sound(Placed(world[w], a, Allocate(world[w])))
  BY <1>1, <1>2, PlacedSound
<1>4. world' = [world EXCEPT ![w] = Placed(world[w], a, Allocate(world[w]))]
  BY DEF Spawn
<1> QED BY <1>3, <1>4, OneChanges

\* World::insert keeps worlds sound, also when it creates a column first.
LEMMA InsertSound ==
  ASSUME WInv, NEW w \in WorldSet, NEW e \in Live(w), NEW c \in Components, NEW v \in Values,
         Insert(w, e, c, v)
  PROVE  WInv'
<1> DEFINE W == world[w]
           a == Home(W, e)
           M == MadeReady(W, a, c)
<1>1. Sound(W) /\ e \in Index(W)
  BY DEF WInv, Live, Index
<1>2. a \in Archetypes
  BY <1>1, Homes
<1>3. Sound(M) /\ c \in M.ready[a] /\ M.entity_index = W.entity_index
  BY <1>1, <1>2, MadeReadySound
<1>4. e \in Index(M) /\ Home(M, e) = a
  BY <1>1, <1>3 DEF Index, Home
<1>5. world' = [world EXCEPT ![w] = Written(M, e, c, v)]
  BY DEF Insert, Home
<1> HIDE DEF M
<1>6. Sound(Written(M, e, c, v))
  BY <1>3, <1>4, WrittenSound
<1> QED BY <1>5, <1>6, OneChanges

\* World::remove keeps worlds sound.
LEMMA RemoveSound ==
  ASSUME WInv, NEW w \in WorldSet, NEW e \in Live(w), NEW c \in Components,
         RemoveComponent(w, e, c)
  PROVE  WInv'
<1> DEFINE W == world[w]
           a == Home(W, e)
<1>1. Sound(W) /\ e \in Index(W)
  BY DEF WInv, Live, Index
<1>2. a \in Archetypes
  BY <1>1, Homes
<1>3. CASE c \in Sparse
  <2>1. world' = [world EXCEPT ![w] = [W EXCEPT !.columns[a][c] = Without(W.columns[a][c], e.slot)]]
    BY <1>3 DEF RemoveComponent, Home
  <2> QED BY <1>1, <1>2, <1>3, <2>1, TakenOutSound, OneChanges
<1>4. CASE c \notin Sparse
  <2>1. c \in W.ready[a] /\ world' = [world EXCEPT ![w] = Written(W, e, c, Default)]
    BY <1>4 DEF RemoveComponent, Home
  <2>2. Sound(Written(W, e, c, Default))
    BY <1>1, <2>1, WrittenSound
  <2> QED BY <2>1, <2>2, OneChanges
<1> QED BY <1>3, <1>4

\* World::despawn keeps worlds sound.
LEMMA DespawnSound ==
  ASSUME WInv, NEW w \in WorldSet, NEW e \in Live(w), Despawn(w, e)
  PROVE  WInv'
<1>1. Sound(world[w]) /\ e \in Index(world[w])
  BY DEF WInv, Live, Index
<1>2. Sound(Despawned(world[w], e))
  BY <1>1, DespawnedSound
<1>3. world' = [world EXCEPT ![w] = Despawned(world[w], e)]
  BY DEF Despawn
<1> QED BY <1>2, <1>3, OneChanges

\* What migrate_entity does to the target before it gives the values
\* (migration.rs:60-93).
LEMMA ArrivalSound ==
  ASSUME NoRunOver, NEW V, Sound(V), NEW W, Sound(W), NEW e \in Index(V),
         SlotVacant(W, e) \/ CanAllocate(W)
  PROVE  LET allocated == IF SlotVacant(W, e) THEN AllocateExact(W, e) ELSE Allocate(W)
             P == Placed(W, Home(V, e), allocated)
         IN  /\ Fresh(W, allocated)
             /\ Joined(P, W, Home(V, e), allocated)
             /\ Sound(P) /\ allocated.entity \in Index(P)
             /\ Home(P, allocated.entity) = Home(V, e)
             /\ Place(P, allocated.entity) = Len(W.slots[Home(V, e)]) + 1
             /\ P.ready = W.ready
<1> DEFINE allocated == IF SlotVacant(W, e) THEN AllocateExact(W, e) ELSE Allocate(W)
           a == Home(V, e)
           P == Placed(W, a, allocated)
<1>1. e \in Entity /\ a \in Archetypes
  BY Homes DEF Sound, Shape
<1>2. Fresh(W, allocated)
  <2>1. CASE SlotVacant(W, e)
    BY <1>1, <2>1, AllocateExactFresh DEF Sound
  <2>2. CASE ~SlotVacant(W, e)
    BY <2>2, AllocateFresh DEF Sound
  <2> QED BY <2>1, <2>2
<1> HIDE DEF allocated, a
<1>3. Joined(P, W, a, allocated)
  BY <1>1, PlacedParts DEF Sound
<1>4. Sound(P)
  BY <1>1, <1>2, PlacedSound
<1> HIDE DEF P
<1>5. /\ P.entity_index = With(W.entity_index, allocated.entity, <<a, Len(W.slots[a]) + 1>>)
      /\ P.ready = W.ready
  BY <1>3, Zenon DEF Joined
<1>6. /\ allocated.entity \in Index(P)
      /\ P.entity_index[allocated.entity] = <<a, Len(W.slots[a]) + 1>>
  BY <1>5 DEF With, Index
<1>7. Home(P, allocated.entity) = a /\ Place(P, allocated.entity) = Len(W.slots[a]) + 1
  BY <1>6 DEF Home, Place
<1> QED BY <1>2, <1>3, <1>4, <1>5, <1>6, <1>7, Zenon DEF P, allocated, a

\* migrate_entity keeps worlds sound, also when it gives up half-way.
LEMMA MigrateSound ==
  ASSUME NoRunOver, WInv, NEW v \in WorldSet, NEW w \in WorldSet, NEW e \in Live(v),
         MigrateEntity(v, w, e)
  PROVE  WInv'
<1> DEFINE V == world[v]
           W == world[w]
           a == Home(V, e)
           allocated == IF SlotVacant(W, e) THEN AllocateExact(W, e) ELSE Allocate(W)
           P == Placed(W, a, allocated)
           fit == Taken(V, e) \cap W.ready[a]
<1>1. Sound(V) /\ Sound(W) /\ e \in Index(V) /\ v # w
  BY DEF WInv, Live, Index, MigrateEntity
<1>2. SlotVacant(W, e) \/ CanAllocate(W)
  BY DEF MigrateEntity
<1>3. /\ Sound(P) /\ allocated.entity \in Index(P)
      /\ Home(P, allocated.entity) = a /\ P.ready = W.ready
  BY <1>1, <1>2, ArrivalSound
<1>4. PICK given \in SUBSET fit :
        world' = [world EXCEPT ![v] = Despawned(V, e),
                               ![w] = Given(P, V, e, allocated.entity, given)]
  BY <1>1 DEF MigrateEntity, Home
<1> HIDE DEF P, allocated
<1>5. given \in SUBSET P.ready[Home(P, allocated.entity)]
  BY <1>3
<1>6. Sound(Given(P, V, e, allocated.entity, given))
  BY <1>1, <1>3, <1>5, GivenSound
<1>7. Sound(Despawned(V, e))
  BY <1>1, DespawnedSound
<1> DEFINE G == Given(P, V, e, allocated.entity, given)
           D == Despawned(V, e)
<1> HIDE DEF G, D
<1>8. world' = [world EXCEPT ![v] = D, ![w] = G]
  BY <1>4 DEF G, D
<1>9. /\ world' = [u \in WorldSet |-> world'[u]]
      /\ \A u \in WorldSet : world'[u] = IF u = w THEN G ELSE IF u = v THEN D ELSE world[u]
  BY <1>1, <1>8 DEF WInv
<1> QED BY <1>6, <1>7, <1>9 DEF WInv, G, D

\* Every step keeps worlds sound.
LEMMA NextSound ==
  ASSUME NoRunOver, WInv, [WNext]_wvars
  PROVE  WInv'
<1>1. ASSUME NEW w \in WorldSet, NEW a \in Archetypes, Spawn(w, a)
      PROVE  WInv'
  BY <1>1, SpawnSound
<1>2. ASSUME NEW w \in WorldSet, NEW e \in Live(w), Despawn(w, e)
      PROVE  WInv'
  BY <1>2, DespawnSound
<1>3. ASSUME NEW w \in WorldSet, NEW e \in Live(w), NEW c \in Components, RemoveComponent(w, e, c)
      PROVE  WInv'
  BY <1>3, RemoveSound
<1>4. ASSUME NEW w \in WorldSet, NEW e \in Live(w), NEW c \in Components, NEW v \in Values,
             Insert(w, e, c, v)
      PROVE  WInv'
  BY <1>4, InsertSound
<1>5. ASSUME NEW w \in WorldSet, NEW e \in Live(w), NEW v \in WorldSet, MigrateEntity(w, v, e)
      PROVE  WInv'
  BY <1>5, MigrateSound
<1>6. CASE UNCHANGED wvars
  BY <1>6 DEF wvars, WInv
<1> QED BY <1>1, <1>2, <1>3, <1>4, <1>5, <1>6 DEF WNext

\* After any sequence of operations every world is sound.
THEOREM WorldsSound ==
  ASSUME NoRunOver
  PROVE  WSpec => []WInv
<1>1. WInit => WInv
  BY InitSound
<1>2. WInv /\ [WNext]_wvars => WInv'
  BY NextSound
<1> QED BY <1>1, <1>2, PTL DEF WSpec

\* In sound worlds the tables agree.
LEMMA SoundConsistent == ASSUME WInv PROVE IndexConsistent
<1> SUFFICES ASSUME NEW w \in WorldSet
             PROVE
    LET W == world[w]
    IN  /\ IsInjective(W.free)
        /\ \A s \in ToSet(W.free) : ~W.arena[s + 1].occupied
        /\ {e.slot : e \in Live(w)} = {s \in 0 .. Len(W.arena) - 1 : W.arena[s + 1].occupied}
        /\ \A e \in Live(w) : W.entity_index[e][2] \in DOMAIN W.slots[W.entity_index[e][1]]
        /\ \A a \in Archetypes :
             /\ \A i \in DOMAIN W.slots[a] :
                  W.slots[a][i] \in Live(w) /\ W.entity_index[W.slots[a][i]] = <<a, i>>
             /\ \A c \in W.ready[a] \cap Aligned : Len(W.columns[a][c]) = Len(W.slots[a])
  BY DEF IndexConsistent
<1> DEFINE W == world[w]
<1>1. Sound(W) /\ Live(w) = Index(W)
  BY DEF WInv, Live, Index
<1> HIDE DEF W
<1>2. \A a \in Archetypes : DOMAIN W.slots[a] = 1 .. Len(W.slots[a])
  BY <1>1, LenProperties DEF Sound, Shape
<1>3. IsInjective(W.free) /\ \A s \in ToSet(W.free) : ~W.arena[s + 1].occupied
  BY <1>1 DEF Sound, Stack
<1>4. {e.slot : e \in Index(W)} = {s \in 0 .. Len(W.arena) - 1 : W.arena[s + 1].occupied}
  <2>1. ASSUME NEW e \in Index(W)
        PROVE  e.slot \in 0 .. Len(W.arena) - 1 /\ W.arena[e.slot + 1].occupied
    <3>1. IsAlive(W, e) /\ e \in Entity /\ Len(W.arena) \in Nat
      BY <1>1, LenProperties DEF Sound, Shape, Owned
    <3> QED BY <3>1 DEF IsAlive, Entity
  <2> QED BY <1>1, <2>1 DEF Sound, Owned
<1>5. \A e \in Index(W) : W.entity_index[e][2] \in DOMAIN W.slots[W.entity_index[e][1]]
  BY <1>1, <1>2, Homes DEF Home, Place
<1>6. \A a \in Archetypes :
        /\ \A i \in DOMAIN W.slots[a] :
             W.slots[a][i] \in Index(W) /\ W.entity_index[W.slots[a][i]] = <<a, i>>
        /\ \A c \in W.ready[a] \cap Aligned : Len(W.columns[a][c]) = Len(W.slots[a])
  BY <1>1, <1>2 DEF Sound, Located, Filled
<1> QED BY <1>1, <1>3, <1>4, <1>5, <1>6, Zenon DEF W

\* The arena, the index, the slots and the columns of every world agree after any
\* sequence of spawns, despawns and migrations, and no slot is handed out twice
\* (world.rs:255-285, entity.rs:217-219).
THEOREM TablesAgree ==
  ASSUME NoRunOver
  PROVE  WSpec => []IndexConsistent
<1>1. WInv => IndexConsistent
  BY SoundConsistent
<1> QED BY <1>1, WorldsSound, PTL

\* Every part of a world stays in its set.
THEOREM TypeCorrect ==
  ASSUME NoRunOver
  PROVE  WSpec => []WTypeOK
<1>1. ASSUME WInv PROVE WTypeOK
  <2> SUFFICES ASSUME NEW w \in WorldSet
               PROVE
      LET W == world[w]
      IN  /\ W.arena \in Seq([gen : Nat, occupied : BOOLEAN])
          /\ W.free \in Seq(0 .. Len(W.arena) - 1)
          /\ W.entity_index \in [Live(w) -> Archetypes \X (Nat \ {0})]
          /\ \A e \in Live(w) : e.slot < Len(W.arena)
          /\ \A a \in Archetypes : W.slots[a] \in Seq(Handles) /\ W.ready[a] \subseteq Components
    BY DEF WTypeOK
  <2> DEFINE W == world[w]
  <2>1. Sound(W) /\ Live(w) = Index(W)
    BY <1>1 DEF WInv, Live, Index
  <2> HIDE DEF W
  <2>2. W.arena \in Seq([gen : Nat, occupied : BOOLEAN])
    <3>1. Cell \subseteq [gen : Nat, occupied : BOOLEAN]
      BY DEF Cell
    <3>2. W.arena \in Seq(Cell)
      BY <2>1 DEF Sound, Shape
    <3> QED BY <3>1, <3>2, SeqMonotonic
  <2>3. W.free \in Seq(0 .. Len(W.arena) - 1)
    <3>1. Len(W.free) \in Nat /\ W.free \in [1 .. Len(W.free) -> Nat] /\ DOMAIN W.free = 1 .. Len(W.free)
      BY <2>1, LenProperties DEF Sound, Shape
    <3>2. Len(W.arena) \in Nat
      BY <2>1, LenProperties DEF Sound, Shape
    <3>3. \A k \in 1 .. Len(W.free) : W.free[k] \in 0 .. Len(W.arena) - 1
      <4>1. \A s \in ToSet(W.free) : s < Len(W.arena)
        BY <2>1 DEF Sound, Stack
      <4>2. \A k \in 1 .. Len(W.free) : W.free[k] \in ToSet(W.free) /\ W.free[k] \in Nat
        BY <3>1 DEF ToSet
      <4> QED BY <3>2, <4>1, <4>2
    <3>4. \E n \in Nat : W.free \in [1 .. n -> 0 .. Len(W.arena) - 1]
      BY <3>1, <3>3
    <3> QED BY <3>4, SeqDef, Zenon
  <2>4. /\ W.entity_index \in [Index(W) -> Archetypes \X (Nat \ {0})]
        /\ \A e \in Index(W) : e.slot < Len(W.arena)
    BY <2>1 DEF Sound, Shape, Owned, IsAlive
  <2>5. \A a \in Archetypes : W.slots[a] \in Seq(Handles) /\ W.ready[a] \subseteq Components
    BY <2>1, HandlesAreEntities DEF Sound, Shape
  <2> QED BY <2>1, <2>2, <2>3, <2>4, <2>5, Zenon DEF W
<1>2. WInv => WTypeOK
  BY <1>1
<1> QED BY <1>2, WorldsSound, PTL

----------------------------------------------------------------------------
(* The values of the entities *)

Blank == [c \in Components |-> Default]

\* What get shows, in terms of the place of an entity.
LEMMA ValueAt ==
  ASSUME NEW W, NEW e, NEW c
  PROVE  Value(W, e, c) =
           IF c \notin W.ready[Home(W, e)] THEN Default
           ELSE IF c \in Aligned THEN W.columns[Home(W, e)][c][Place(W, e)]
           ELSE IF e.slot \in DOMAIN W.columns[Home(W, e)][c] THEN W.columns[Home(W, e)][c][e.slot]
           ELSE Default
  BY DEF Value, Home, Place

\* A new entity has the defaults, whatever was in its slot before, and the
\* others keep their values.
LEMMA PlacedVals ==
  ASSUME NEW W, Sound(W), NEW a \in Archetypes, NEW allocated, Fresh(W, allocated)
  PROVE  /\ allocated.entity \notin Index(W)
         /\ Vals(Placed(W, a, allocated)) = With(Vals(W), allocated.entity, Blank)
<1> DEFINE P == Placed(W, a, allocated)
           e == allocated.entity
           n == Len(W.slots[a])
<1>1. Joined(P, W, a, allocated) /\ Sound(P)
  BY PlacedParts, PlacedSound DEF Sound
<1> HIDE DEF P
<1>2. /\ P.ready = W.ready
      /\ P.entity_index = With(W.entity_index, e, <<a, n + 1>>)
      /\ P.columns = [W.columns EXCEPT ![a] = [c \in Components |->
           IF c \in W.ready[a] \cap Aligned THEN Append(W.columns[a][c], Default)
           ELSE W.columns[a][c]]]
  BY <1>1, Zenon DEF Joined
<1>3. e \notin Index(W) /\ \A d \in Index(W) : d.slot # e.slot
  <2> SUFFICES ASSUME NEW d \in Index(W), d.slot = e.slot
               PROVE  FALSE
    OBVIOUS
  <2>1. IsAlive(W, d)
    BY DEF Sound, Owned
  <2>2. e.slot < Len(W.arena) /\ W.arena[e.slot + 1].occupied
    BY <2>1 DEF IsAlive
  <2> QED BY <2>2 DEF Fresh
<1>4. /\ Index(P) = Index(W) \cup {e}
      /\ Home(P, e) = a /\ Place(P, e) = n + 1
      /\ \A d \in Index(W) : Home(P, d) = Home(W, d) /\ Place(P, d) = Place(W, d)
  BY <1>2, <1>3 DEF Index, Home, Place, With
<1>5. /\ \A b \in Archetypes \ {a} : P.columns[b] = W.columns[b]
      /\ \A c \in Components : P.columns[a][c] =
           IF c \in W.ready[a] \cap Aligned THEN Append(W.columns[a][c], Default)
           ELSE W.columns[a][c]
  <2>1. W.columns = [b \in Archetypes |-> W.columns[b]]
    BY DEF Sound, Shape
  <2> QED BY <1>2, <2>1
<1>6. \A c \in W.ready[a] \cap Aligned :
        /\ c \in Components
        /\ \A i \in 1 .. n : Append(W.columns[a][c], Default)[i] = W.columns[a][c][i]
        /\ Append(W.columns[a][c], Default)[n + 1] = Default
  <2> TAKE c \in W.ready[a] \cap Aligned
  <2>1. /\ W.columns[a][c] \in Seq(Values \cup {Default}) /\ Default \in Values \cup {Default}
        /\ Len(W.columns[a][c]) = n
    BY DEF Sound, Shape, Filled
  <2> DEFINE column == W.columns[a][c]
             T == Values \cup {Default}
  <2> HIDE DEF n, column, T
  <2>2. column \in Seq(T) /\ Len(column) = n /\ Default \in T
    BY <2>1 DEF column, T
  <2>3. /\ \A i \in 1 .. Len(column) : Append(column, Default)[i] = column[i]
        /\ Append(column, Default)[Len(column) + 1] = Default
    BY <2>2, AppendProperties
  <2> QED BY <2>2, <2>3 DEF column, Aligned
<1>7. ASSUME NEW c \in Components
      PROVE  Value(P, e, c) = Default
  <2>1. CASE c \notin W.ready[a]
    BY <1>2, <1>4, <2>1, ValueAt
  <2>2. CASE c \in W.ready[a] /\ c \in Aligned
    <3>1. P.columns[a][c][n + 1] = Default
      BY <1>5, <1>6, <2>2
    <3> QED BY <1>2, <1>4, <2>2, <3>1, ValueAt
  <2>3. CASE c \in W.ready[a] /\ c \notin Aligned
    <3>1. P.columns[a][c] = W.columns[a][c] /\ c \in Sparse
      BY <1>5, <2>3 DEF Aligned
    <3>2. e.slot \notin DOMAIN W.columns[a][c]
      <4> SUFFICES ASSUME e.slot \in DOMAIN W.columns[a][c]
                   PROVE  FALSE
        OBVIOUS
      <4>1. PICK i \in 1 .. Len(W.slots[a]) : W.slots[a][i].slot = e.slot
        BY <3>1 DEF Sound, Filled
      <4> QED BY <1>3, <4>1, Homes
    <3> QED BY <1>2, <1>4, <2>3, <3>1, <3>2, ValueAt
  <2> QED BY <2>1, <2>2, <2>3
<1>8. ASSUME NEW d \in Index(W), NEW c \in Components
      PROVE  Value(P, d, c) = Value(W, d, c)
  <2> DEFINE b == Home(W, d)
             i == Place(W, d)
  <2>1. b \in Archetypes /\ i \in 1 .. Len(W.slots[b])
    BY Homes
  <2>2. Home(P, d) = b /\ Place(P, d) = i
    BY <1>4
  <2>3. Value(W, d, c) = IF c \notin W.ready[b] THEN Default
                         ELSE IF c \in Aligned THEN W.columns[b][c][i]
                         ELSE IF d.slot \in DOMAIN W.columns[b][c] THEN W.columns[b][c][d.slot]
                         ELSE Default
    BY ValueAt
  <2>4. Value(P, d, c) = IF c \notin W.ready[b] THEN Default
                         ELSE IF c \in Aligned THEN P.columns[b][c][i]
                         ELSE IF d.slot \in DOMAIN P.columns[b][c] THEN P.columns[b][c][d.slot]
                         ELSE Default
    BY <1>2, <2>2, ValueAt
  <2> HIDE DEF b, i
  <2>5. CASE b # a
    BY <1>5, <2>1, <2>3, <2>4, <2>5
  <2>6. CASE b = a /\ c \in W.ready[a] \cap Aligned
    <3>1. P.columns[b][c] = Append(W.columns[a][c], Default)
      BY <1>5, <2>6
    <3>2. i \in 1 .. n
      BY <2>1, <2>6
    <3>3. P.columns[b][c][i] = W.columns[b][c][i]
      BY <1>6, <2>6, <3>1, <3>2
    <3> QED BY <2>3, <2>4, <2>6, <3>3
  <2>7. CASE b = a /\ c \notin W.ready[a] \cap Aligned
    <3>1. P.columns[b][c] = W.columns[b][c]
      BY <1>5, <2>7
    <3> QED BY <2>3, <2>4, <3>1
  <2> QED BY <2>5, <2>6, <2>7
<1>9. Vals(P) = With(Vals(W), e, Blank)
  <2>1. /\ DOMAIN Vals(W) = Index(W)
        /\ \A d \in Index(W) : Vals(W)[d] = [c \in Components |-> Value(W, d, c)]
    BY DEF Vals, Index
  <2>2. Vals(P) = [d \in Index(W) \cup {e} |-> [c \in Components |-> Value(P, d, c)]]
    BY <1>4 DEF Vals, Index
  <2>3. With(Vals(W), e, Blank) = [d \in Index(W) \cup {e} |-> IF d = e THEN Blank ELSE Vals(W)[d]]
    BY <2>1 DEF With
  <2>4. [c \in Components |-> Value(P, e, c)] = Blank
    BY <1>7 DEF Blank
  <2>5. \A d \in Index(W) : [c \in Components |-> Value(P, d, c)] = Vals(W)[d]
    BY <1>8, <2>1
  <2> QED BY <1>3, <2>2, <2>3, <2>4, <2>5
<1> QED BY <1>3, <1>9 DEF P

\* Values follow the entity that another's despawn moves (soa.rs:72-79,
\* world.rs:264-280).
LEMMA DespawnedVals ==
  ASSUME NEW W, Sound(W), NEW e \in Index(W)
  PROVE  Vals(Despawned(W, e)) = Without(Vals(W), e)
<1> DEFINE D == Despawned(W, e)
           a == Home(W, e)
           i == Place(W, e)
           n == Len(W.slots[a])
           last == W.slots[a][n]
           left == SwapRemove(W.slots[a], i)
<1>1. Left(D, W, e)
  BY DespawnedParts
<1> HIDE DEF D
<1>2. /\ a \in Archetypes /\ i \in 1 .. n /\ n \in Nat
      /\ W.slots[a] \in Seq(Entity) /\ W.slots[a][i] = e
  BY Homes, LenProperties DEF Sound, Shape
<1>3. /\ n \in 1 .. n /\ \A k \in 1 .. n : k # n => k \in 1 .. n - 1
  <2>1. \A m \in Nat : \A j \in 1 .. m : m \in 1 .. m /\ \A k \in 1 .. m : k # m => k \in 1 .. m - 1
    OBVIOUS
  <2> QED BY <1>2, <2>1
<1>4. Len(left) = n - 1 /\ \A k \in 1 .. n - 1 : left[k] = IF k = i THEN last ELSE W.slots[a][k]
  BY <1>2, SwapRemoveProperties
<1>5. /\ D.ready = W.ready
      /\ D.entity_index = IF i <= Len(left) THEN With(Without(W.entity_index, e), left[i], <<a, i>>)
                          ELSE Without(W.entity_index, e)
      /\ D.columns = [W.columns EXCEPT ![a] = [c \in Components |->
           IF c \in Sparse THEN Without(W.columns[a][c], e.slot)
           ELSE IF c \in W.ready[a] THEN SwapRemove(W.columns[a][c], i) ELSE W.columns[a][c]]]
  BY <1>1, Zenon DEF Left
<1>6. last \in Index(W) /\ Home(W, last) = a /\ Place(W, last) = n
  BY <1>2, <1>3, Homes
<1> HIDE DEF left, last
<1>7. /\ Index(D) = Index(W) \ {e}
      /\ \A d \in Index(D) : D.entity_index[d] = IF d = last THEN <<a, i>> ELSE W.entity_index[d]
  <2>1. CASE i = n
    <3>1. ~(i <= Len(left)) /\ last = e
      BY <1>2, <1>4, <2>1 DEF last
    <3>2. D.entity_index = Without(W.entity_index, e)
      BY <1>5, <3>1
    <3> QED BY <3>1, <3>2 DEF Index, Without
  <2>2. CASE i # n
    <3>1. i \in 1 .. n - 1 /\ i <= Len(left) /\ left[i] = last /\ last # e
      BY <1>2, <1>3, <1>4, <1>6, <2>2
    <3>2. D.entity_index = With(Without(W.entity_index, e), last, <<a, i>>)
      BY <1>5, <3>1
    <3> QED BY <1>6, <3>1, <3>2 DEF Index, With, Without
  <2> QED BY <2>1, <2>2
<1>8. /\ \A b \in Archetypes \ {a} : D.columns[b] = W.columns[b]
      /\ \A c \in Components : D.columns[a][c] =
           IF c \in Sparse THEN Without(W.columns[a][c], e.slot)
           ELSE IF c \in W.ready[a] THEN SwapRemove(W.columns[a][c], i) ELSE W.columns[a][c]
  <2>1. W.columns = [b \in Archetypes |-> W.columns[b]]
    BY DEF Sound, Shape
  <2> QED BY <1>2, <1>5, <2>1
<1>9. \A c \in W.ready[a] \cap Aligned : \A k \in 1 .. n - 1 :
         SwapRemove(W.columns[a][c], i)[k] = IF k = i THEN W.columns[a][c][n] ELSE W.columns[a][c][k]
  <2> TAKE c \in W.ready[a] \cap Aligned
  <2>1. W.columns[a][c] \in Seq(Values \cup {Default}) /\ Len(W.columns[a][c]) = n
    BY <1>2 DEF Sound, Shape, Filled
  <2> DEFINE column == W.columns[a][c]
             T == Values \cup {Default}
  <2> HIDE DEF n, i, column, T
  <2>2. column \in Seq(T) /\ Len(column) = n /\ i \in 1 .. Len(column)
    BY <1>2, <2>1 DEF column, T
  <2>3. \A k \in 1 .. Len(column) - 1 :
          SwapRemove(column, i)[k] = IF k = i THEN column[Len(column)] ELSE column[k]
    BY <2>2, SwapRemoveProperties
  <2> QED BY <2>2, <2>3 DEF column
<1>10. ASSUME NEW d \in Index(D), NEW c \in Components
       PROVE  Value(D, d, c) = Value(W, d, c)
  <2> DEFINE b == Home(W, d)
             k == Place(W, d)
             j == IF d = last THEN i ELSE k
  <2>1. d \in Index(W) /\ d # e
    BY <1>7
  <2>2. /\ b \in Archetypes /\ k \in 1 .. Len(W.slots[b]) /\ W.slots[b][k] = d
        /\ W.entity_index[d] = <<b, k>>
    BY <2>1, Homes
  <2>3. Home(D, d) = b /\ Place(D, d) = j
    <3>1. CASE d = last
      BY <1>6, <1>7, <3>1 DEF Home, Place
    <3>2. CASE d # last
      BY <1>7, <3>2 DEF Home, Place
    <3> QED BY <3>1, <3>2
  <2>4. Value(W, d, c) = IF c \notin W.ready[b] THEN Default
                         ELSE IF c \in Aligned THEN W.columns[b][c][k]
                         ELSE IF d.slot \in DOMAIN W.columns[b][c] THEN W.columns[b][c][d.slot]
                         ELSE Default
    BY ValueAt
  <2>5. Value(D, d, c) = IF c \notin W.ready[b] THEN Default
                         ELSE IF c \in Aligned THEN D.columns[b][c][j]
                         ELSE IF d.slot \in DOMAIN D.columns[b][c] THEN D.columns[b][c][d.slot]
                         ELSE Default
    BY <1>5, <2>3, ValueAt
  <2>6. d = last => b = a /\ k = n
    BY <1>6
  <2>7. b = a /\ d # last => k \in 1 .. n - 1 /\ k # i
    <3> SUFFICES ASSUME b = a, d # last
                 PROVE  k \in 1 .. n - 1 /\ k # i
      OBVIOUS
    <3>1. k # n /\ k # i /\ k \in 1 .. n
      BY <1>2, <2>1, <2>2 DEF last
    <3> QED BY <1>3, <3>1
  <2>8. d = last => i \in 1 .. n - 1
    <3> SUFFICES ASSUME d = last
                 PROVE  i \in 1 .. n - 1
      OBVIOUS
    <3>1. i # n
      BY <1>2, <2>1 DEF last
    <3> QED BY <1>2, <1>3, <3>1
  <2>9. d.slot # e.slot
    BY <2>1, SlotsDiffer
  <2> HIDE DEF b, k
  <2>10. CASE b # a
    <3>1. D.columns[b] = W.columns[b] /\ j = k
      BY <1>8, <2>2, <2>6, <2>10
    <3> QED BY <2>4, <2>5, <3>1
  <2>11. CASE b = a /\ c \notin W.ready[a]
    BY <2>4, <2>5, <2>11
  <2>12. CASE b = a /\ c \in W.ready[a] /\ c \in Aligned
    <3>1. c \notin Sparse
      BY <2>12 DEF Aligned
    <3>2. D.columns[a][c] = SwapRemove(W.columns[a][c], i)
      BY <1>8, <2>12, <3>1
    <3>3. D.columns[a][c][j] = W.columns[a][c][k]
      <4>1. CASE d = last
        BY <1>9, <2>6, <2>8, <2>12, <3>2, <4>1
      <4>2. CASE d # last
        BY <1>9, <2>7, <2>12, <3>2, <4>2
      <4> QED BY <4>1, <4>2
    <3> QED BY <2>4, <2>5, <2>12, <3>3
  <2>13. CASE b = a /\ c \in W.ready[a] /\ c \notin Aligned
    <3>1. D.columns[a][c] = Without(W.columns[a][c], e.slot)
      BY <1>8, <2>13 DEF Aligned
    <3>2. /\ d.slot \in DOMAIN D.columns[a][c] <=> d.slot \in DOMAIN W.columns[a][c]
          /\ d.slot \in DOMAIN W.columns[a][c] => D.columns[a][c][d.slot] = W.columns[a][c][d.slot]
      BY <2>9, <3>1 DEF Without
    <3> QED BY <2>4, <2>5, <2>13, <3>2
  <2> QED BY <2>10, <2>11, <2>12, <2>13
<1>11. Vals(D) = Without(Vals(W), e)
  <2>1. /\ DOMAIN Vals(W) = Index(W)
        /\ \A d \in Index(W) : Vals(W)[d] = [c \in Components |-> Value(W, d, c)]
    BY DEF Vals, Index
  <2>2. Vals(D) = [d \in Index(W) \ {e} |-> [c \in Components |-> Value(D, d, c)]]
    BY <1>7 DEF Vals, Index
  <2>3. Without(Vals(W), e) = [d \in Index(W) \ {e} |-> Vals(W)[d]]
    BY <2>1 DEF Without
  <2>4. \A d \in Index(W) \ {e} : [c \in Components |-> Value(D, d, c)] = Vals(W)[d]
    BY <1>7, <1>10, <2>1
  <2> QED BY <2>2, <2>3, <2>4
<1> QED BY <1>11 DEF D

\* What is stored in the columns of one archetype is seen of its entities only.
LEMMA StoredValue ==
  ASSUME NEW W, Sound(W), NEW a \in Archetypes, NEW r, NEW C, NEW V, Stored(V, W, a, r, C)
  PROVE  /\ Index(V) = Index(W)
         /\ \A d \in Index(W), c \in Components :
              Value(V, d, c) =
                IF Home(W, d) # a THEN Value(W, d, c)
                ELSE IF c \notin r THEN Default
                ELSE IF c \in Aligned THEN C[c][Place(W, d)]
                ELSE IF d.slot \in DOMAIN C[c] THEN C[c][d.slot]
                ELSE Default
<1> DEFINE ready == [W.ready EXCEPT ![a] = r]
           columns == [W.columns EXCEPT ![a] = C]
<1>1. V.entity_index = W.entity_index /\ V.ready = ready /\ V.columns = columns
  <2> HIDE DEF ready, columns
  <2>1. V = [arena |-> W.arena, free |-> W.free, slots |-> W.slots,
             entity_index |-> W.entity_index, ready |-> ready, columns |-> columns]
    BY DEF Stored, ready, columns
  <2> QED BY <2>1
<1>2. /\ V.ready[a] = r /\ V.columns[a] = C
      /\ \A b \in Archetypes \ {a} : V.ready[b] = W.ready[b] /\ V.columns[b] = W.columns[b]
  <2>1. W.columns = [b \in Archetypes |-> W.columns[b]] /\ W.ready \in [Archetypes -> SUBSET Components]
    BY DEF Sound, Shape
  <2> QED BY <1>1, <2>1
<1> HIDE DEF ready, columns
<1>3. Index(V) = Index(W) /\ \A d : Home(V, d) = Home(W, d) /\ Place(V, d) = Place(W, d)
  BY <1>1 DEF Index, Home, Place
<1>4. ASSUME NEW d \in Index(W), NEW c \in Components
      PROVE  Value(V, d, c) =
                IF Home(W, d) # a THEN Value(W, d, c)
                ELSE IF c \notin r THEN Default
                ELSE IF c \in Aligned THEN C[c][Place(W, d)]
                ELSE IF d.slot \in DOMAIN C[c] THEN C[c][d.slot]
                ELSE Default
  <2> DEFINE b == Home(W, d)
             i == Place(W, d)
  <2>1. b \in Archetypes
    BY Homes
  <2>2. Value(W, d, c) = IF c \notin W.ready[b] THEN Default
                         ELSE IF c \in Aligned THEN W.columns[b][c][i]
                         ELSE IF d.slot \in DOMAIN W.columns[b][c] THEN W.columns[b][c][d.slot]
                         ELSE Default
    BY ValueAt
  <2>3. Value(V, d, c) = IF c \notin V.ready[b] THEN Default
                         ELSE IF c \in Aligned THEN V.columns[b][c][i]
                         ELSE IF d.slot \in DOMAIN V.columns[b][c] THEN V.columns[b][c][d.slot]
                         ELSE Default
    BY <1>3, ValueAt
  <2> HIDE DEF b, i
  <2>4. CASE b = a
    BY <1>2, <2>3, <2>4 DEF b, i
  <2>5. CASE b # a
    <3>1. V.ready[b] = W.ready[b] /\ V.columns[b] = W.columns[b]
      BY <1>2, <2>1, <2>5
    <3> QED BY <2>2, <2>3, <2>5, <3>1 DEF b, i
  <2> QED BY <2>4, <2>5
<1> QED BY <1>3, <1>4

\* Two worlds with the same entities show the same if every value is the same.
LEMMA SameVals ==
  ASSUME NEW W, NEW V, Index(V) = Index(W),
         \A d \in Index(W), c \in Components : Value(V, d, c) = Value(W, d, c)
  PROVE  Vals(V) = Vals(W)
<1>1. \A d \in Index(W) : [c \in Components |-> Value(V, d, c)] = [c \in Components |-> Value(W, d, c)]
  OBVIOUS
<1>2. Vals(V) = [d \in Index(W) |-> [c \in Components |-> Value(V, d, c)]]
  BY DEF Vals, Index
<1> QED BY <1>1, <1>2 DEF Vals, Index

\* One value changes.
LEMMA OneValue ==
  ASSUME NEW W, NEW V, Index(V) = Index(W), NEW e \in Index(W), NEW c \in Components, NEW v,
         \A d \in Index(W), k \in Components :
           Value(V, d, k) = IF d = e /\ k = c THEN v ELSE Value(W, d, k)
  PROVE  Vals(V) = [Vals(W) EXCEPT ![e][c] = v]
<1> DEFINE X == [Vals(W) EXCEPT ![e][c] = v]
<1>1. X = [d \in Index(W) |-> IF d = e THEN [Vals(W)[e] EXCEPT ![c] = v] ELSE Vals(W)[d]]
  BY DEF Vals, Index
<1>2. \A d \in Index(W) : Vals(W)[d] = [k \in Components |-> Value(W, d, k)]
  BY DEF Vals, Index
<1>3. [Vals(W)[e] EXCEPT ![c] = v] = [k \in Components |-> Value(V, e, k)]
  <2>1. [Vals(W)[e] EXCEPT ![c] = v] = [k \in Components |-> IF k = c THEN v ELSE Value(W, e, k)]
    BY <1>2
  <2>2. \A k \in Components : Value(V, e, k) = IF k = c THEN v ELSE Value(W, e, k)
    OBVIOUS
  <2> QED BY <2>1, <2>2
<1>4. \A d \in Index(W) : d # e => Vals(W)[d] = [k \in Components |-> Value(V, d, k)]
  BY <1>2
<1>5. Vals(V) = [d \in Index(W) |-> [k \in Components |-> Value(V, d, k)]]
  BY DEF Vals, Index
<1> HIDE DEF X
<1>6. Vals(V) = X
  BY <1>1, <1>3, <1>4, <1>5
<1> QED BY <1>6 DEF X

\* Creating a column changes no value (soa.rs:41-70).
LEMMA MadeReadyVals ==
  ASSUME NEW W, Sound(W), NEW a \in Archetypes, NEW c \in Components
  PROVE  Vals(MadeReady(W, a, c)) = Vals(W)
<1>1. CASE c \in W.ready[a]
  BY <1>1 DEF MadeReady
<1>2. CASE c \notin W.ready[a]
  <2> DEFINE column == NewColumn(W, a, c)
             r == W.ready[a] \cup {c}
             C == [W.columns[a] EXCEPT ![c] = column]
             V == MadeReady(W, a, c)
  <2>1. Stored(V, W, a, r, C)
    BY <1>2, MadeReadyStored
  <2>2. C[c] = column /\ \A d \in Components \ {c} : C[d] = W.columns[a][d]
    <3>1. W.columns[a] = [d \in Components |-> W.columns[a][d]]
      BY DEF Sound, Shape
    <3> QED BY <3>1
  <2>3. DOMAIN W.slots[a] = 1 .. Len(W.slots[a])
    BY LenProperties DEF Sound, Shape
  <2> HIDE DEF C, V
  <2>4. Index(V) = Index(W)
    BY <2>1, StoredValue
  <2>5. ASSUME NEW d \in Index(W), NEW k \in Components
        PROVE  Value(V, d, k) = Value(W, d, k)
    <3> DEFINE b == Home(W, d)
               i == Place(W, d)
    <3>1. b \in Archetypes /\ i \in 1 .. Len(W.slots[b])
      BY Homes
    <3>2. Value(V, d, k) = IF b # a THEN Value(W, d, k)
                           ELSE IF k \notin r THEN Default
                           ELSE IF k \in Aligned THEN C[k][i]
                           ELSE IF d.slot \in DOMAIN C[k] THEN C[k][d.slot]
                           ELSE Default
      BY <2>1, StoredValue
    <3>3. Value(W, d, k) = IF k \notin W.ready[b] THEN Default
                           ELSE IF k \in Aligned THEN W.columns[b][k][i]
                           ELSE IF d.slot \in DOMAIN W.columns[b][k] THEN W.columns[b][k][d.slot]
                           ELSE Default
      BY ValueAt
    <3> HIDE DEF b, i
    <3>4. CASE b # a
      BY <3>2, <3>4
    <3>5. CASE b = a /\ k # c
      BY <2>2, <3>2, <3>3, <3>5
    <3>6. CASE b = a /\ k = c
      <4>1. c \in Aligned => column[i] = Default
        BY <2>3, <3>1, <3>6 DEF NewColumn, Aligned
      <4>2. c \notin Aligned => DOMAIN column = {}
        BY DEF NewColumn, Aligned
      <4> HIDE DEF column
      <4> QED BY <1>2, <2>2, <3>2, <3>3, <3>6, <4>1, <4>2
    <3> QED BY <3>4, <3>5, <3>6
  <2>6. Vals(V) = Vals(W)
    BY <2>4, <2>5, SameVals
  <2> QED BY <2>6 DEF V
<1> QED BY <1>1, <1>2

\* Writing a component is writing one value.
LEMMA WrittenVals ==
  ASSUME NEW W, Sound(W), NEW e \in Index(W), NEW c \in Components,
         c \in W.ready[Home(W, e)], NEW v
  PROVE  Vals(Written(W, e, c, v)) = [Vals(W) EXCEPT ![e][c] = v]
<1> DEFINE a == Home(W, e)
           i == Place(W, e)
           column == IF c \in Sparse THEN With(W.columns[a][c], e.slot, v)
                     ELSE [W.columns[a][c] EXCEPT ![i] = v]
           C == [W.columns[a] EXCEPT ![c] = column]
           V == [W EXCEPT !.columns[a][c] = column]
<1>1. a \in Archetypes /\ i \in 1 .. Len(W.slots[a]) /\ W.slots[a][i] = e
  BY Homes
<1>2. Written(W, e, c, v) = V
  <2>1. CASE c \in Sparse
    BY <2>1 DEF Written, Home, Place
  <2>2. CASE c \notin Sparse
    BY <2>2 DEF Written, Home, Place
  <2> QED BY <2>1, <2>2
<1>3. c \in Aligned =>
        column[i] = v /\ \A k \in 1 .. Len(W.slots[a]) : k # i => column[k] = W.columns[a][c][k]
  <2> SUFFICES ASSUME c \in Aligned
               PROVE  column[i] = v /\ \A k \in 1 .. Len(W.slots[a]) : k # i => column[k] = W.columns[a][c][k]
    OBVIOUS
  <2>1. DOMAIN W.columns[a][c] = 1 .. Len(W.slots[a])
    BY <1>1, LenProperties DEF Sound, Shape, Filled
  <2>2. column = [W.columns[a][c] EXCEPT ![i] = v]
    BY DEF Aligned
  <2> QED BY <1>1, <2>1, <2>2
<1>4. c \in Sparse =>
        /\ DOMAIN column = DOMAIN W.columns[a][c] \cup {e.slot} /\ column[e.slot] = v
        /\ \A s \in DOMAIN W.columns[a][c] : s # e.slot => column[s] = W.columns[a][c][s]
  BY DEF With
<1> HIDE DEF column, a, i
<1>5. C[c] = column /\ \A d \in Components \ {c} : C[d] = W.columns[a][d]
  <2>1. W.columns[a] = [d \in Components |-> W.columns[a][d]]
    BY <1>1 DEF Sound, Shape
  <2> QED BY <2>1
<1>6. Stored(V, W, a, W.ready[a], C)
  BY <1>1, ColumnStored
<1> HIDE DEF V, C
<1>7. Index(V) = Index(W)
  BY <1>1, <1>6, StoredValue
<1>8. ASSUME NEW d \in Index(W), NEW k \in Components
      PROVE  Value(V, d, k) = IF d = e /\ k = c THEN v ELSE Value(W, d, k)
  <2> DEFINE b == Home(W, d)
             j == Place(W, d)
  <2>1. b \in Archetypes /\ j \in 1 .. Len(W.slots[b]) /\ W.slots[b][j] = d
    BY Homes
  <2>2. Value(V, d, k) = IF b # a THEN Value(W, d, k)
                         ELSE IF k \notin W.ready[a] THEN Default
                         ELSE IF k \in Aligned THEN C[k][j]
                         ELSE IF d.slot \in DOMAIN C[k] THEN C[k][d.slot]
                         ELSE Default
    BY <1>1, <1>6, StoredValue
  <2>3. Value(W, d, k) = IF k \notin W.ready[b] THEN Default
                         ELSE IF k \in Aligned THEN W.columns[b][k][j]
                         ELSE IF d.slot \in DOMAIN W.columns[b][k] THEN W.columns[b][k][d.slot]
                         ELSE Default
    BY ValueAt
  <2>4. /\ d = e => b = a /\ j = i
        /\ d # e => d.slot # e.slot /\ (b = a => j # i)
    BY <1>1, <2>1, SlotsDiffer DEF a, i
  <2>5. c \in W.ready[a] /\ (c \in Sparse \/ c \in Aligned) /\ ~(c \in Sparse /\ c \in Aligned)
    BY DEF a, Aligned
  <2> HIDE DEF b, j
  <2>6. CASE b # a
    BY <2>2, <2>4, <2>6
  <2>7. CASE b = a /\ k # c
    BY <1>5, <2>2, <2>3, <2>7
  <2>8. CASE b = a /\ k = c /\ c \in Aligned
    BY <1>3, <1>5, <2>1, <2>2, <2>3, <2>4, <2>5, <2>8
  <2>9. CASE b = a /\ k = c /\ c \in Sparse
    BY <1>4, <1>5, <2>2, <2>3, <2>4, <2>5, <2>9
  <2> QED BY <2>5, <2>6, <2>7, <2>8, <2>9
<1>9. Vals(V) = [Vals(W) EXCEPT ![e][c] = v]
  BY <1>7, <1>8, OneValue
<1> QED BY <1>2, <1>9

\* Taking a sparse value out is writing the default.
LEMMA TakenOutVals ==
  ASSUME NEW W, Sound(W), NEW e \in Index(W), NEW c \in Sparse
  PROVE  Vals([W EXCEPT !.columns[Home(W, e)][c] = Without(W.columns[Home(W, e)][c], e.slot)])
           = [Vals(W) EXCEPT ![e][c] = Default]
<1> DEFINE a == Home(W, e)
           column == Without(W.columns[a][c], e.slot)
           C == [W.columns[a] EXCEPT ![c] = column]
           V == [W EXCEPT !.columns[a][c] = column]
<1>1. a \in Archetypes /\ c \in Components /\ c \notin Aligned
  BY Homes, SparseAssumption DEF Aligned
<1>2. /\ DOMAIN column = DOMAIN W.columns[a][c] \ {e.slot}
      /\ \A s \in DOMAIN column : column[s] = W.columns[a][c][s]
  BY DEF Without
<1> HIDE DEF column, a
<1>3. C[c] = column /\ \A d \in Components \ {c} : C[d] = W.columns[a][d]
  <2>1. W.columns[a] = [d \in Components |-> W.columns[a][d]]
    BY <1>1 DEF Sound, Shape
  <2> QED BY <1>1, <2>1
<1>4. Stored(V, W, a, W.ready[a], C)
  BY <1>1, ColumnStored
<1> HIDE DEF V, C
<1>5. Index(V) = Index(W)
  BY <1>1, <1>4, StoredValue
<1>6. ASSUME NEW d \in Index(W), NEW k \in Components
      PROVE  Value(V, d, k) = IF d = e /\ k = c THEN Default ELSE Value(W, d, k)
  <2> DEFINE b == Home(W, d)
             j == Place(W, d)
  <2>1. Value(V, d, k) = IF b # a THEN Value(W, d, k)
                         ELSE IF k \notin W.ready[a] THEN Default
                         ELSE IF k \in Aligned THEN C[k][j]
                         ELSE IF d.slot \in DOMAIN C[k] THEN C[k][d.slot]
                         ELSE Default
    BY <1>1, <1>4, StoredValue
  <2>2. Value(W, d, k) = IF k \notin W.ready[b] THEN Default
                         ELSE IF k \in Aligned THEN W.columns[b][k][j]
                         ELSE IF d.slot \in DOMAIN W.columns[b][k] THEN W.columns[b][k][d.slot]
                         ELSE Default
    BY ValueAt
  <2>3. d = e => b = a
    BY DEF a
  <2>4. d # e => d.slot # e.slot
    BY SlotsDiffer
  <2> HIDE DEF b, j
  <2>5. CASE b # a
    BY <2>1, <2>3, <2>5
  <2>6. CASE b = a /\ k # c
    BY <1>3, <2>1, <2>2, <2>6
  <2>7. CASE b = a /\ k = c /\ d = e
    BY <1>1, <1>2, <1>3, <2>1, <2>7
  <2>8. CASE b = a /\ k = c /\ d # e
    BY <1>1, <1>2, <1>3, <2>1, <2>2, <2>4, <2>8
  <2> QED BY <2>5, <2>6, <2>7, <2>8
<1>7. Vals(V) = [Vals(W) EXCEPT ![e][c] = Default]
  BY <1>1, <1>5, <1>6, OneValue
<1> QED BY <1>7 DEF V, column, a

\* The values a migration gives are those of the new entity alone.
LEMMA GivenVals ==
  ASSUME NEW W, Sound(W), NEW new \in Index(W), NEW V, NEW e,
         NEW cs \in SUBSET W.ready[Home(W, new)]
  PROVE  Vals(Given(W, V, e, new, cs)) =
           [Vals(W) EXCEPT ![new] = [c \in Components |-> IF c \in cs THEN Value(V, e, c)
                                                           ELSE Value(W, new, c)]]
<1> DEFINE a == Home(W, new)
           i == Place(W, new)
           C == [c \in Components |->
                   IF c \notin cs THEN W.columns[a][c]
                   ELSE IF c \in Sparse THEN With(W.columns[a][c], new.slot, Value(V, e, c))
                   ELSE [W.columns[a][c] EXCEPT ![i] = Value(V, e, c)]]
           G == [W EXCEPT !.columns[a] = C]
<1>1. a \in Archetypes /\ i \in 1 .. Len(W.slots[a]) /\ W.slots[a][i] = new
  BY Homes
<1>2. Given(W, V, e, new, cs) = G
  BY DEF Given, Home, Place
<1>3. Stored(G, W, a, W.ready[a], C)
  BY <1>1, ColumnsStored
<1> HIDE DEF a, i, G
<1>4. /\ cs \subseteq W.ready[a] /\ cs \subseteq Components
      /\ \A c \in cs \cap Aligned : DOMAIN W.columns[a][c] = 1 .. Len(W.slots[a])
  <2>1. cs \subseteq W.ready[a] /\ W.ready[a] \subseteq Components
    BY <1>1 DEF a, Sound, Shape
  <2> QED BY <1>1, <2>1, LenProperties DEF Sound, Shape, Filled
<1>5. ASSUME NEW c \in cs \cap Aligned
      PROVE  C[c][i] = Value(V, e, c) /\ \A k \in 1 .. Len(W.slots[a]) : k # i => C[c][k] = W.columns[a][c][k]
  <2>1. C[c] = [W.columns[a][c] EXCEPT ![i] = Value(V, e, c)]
    BY <1>4 DEF Aligned
  <2> HIDE DEF C
  <2> QED BY <1>1, <1>4, <2>1
<1>6. ASSUME NEW c \in cs, c \notin Aligned
      PROVE  /\ DOMAIN C[c] = DOMAIN W.columns[a][c] \cup {new.slot} /\ C[c][new.slot] = Value(V, e, c)
             /\ \A s \in DOMAIN W.columns[a][c] : s # new.slot => C[c][s] = W.columns[a][c][s]
  <2>1. C[c] = With(W.columns[a][c], new.slot, Value(V, e, c))
    BY <1>4, <1>6 DEF Aligned
  <2> HIDE DEF C
  <2> QED BY <2>1 DEF With
<1>7. \A c \in Components : c \notin cs => C[c] = W.columns[a][c]
  OBVIOUS
<1> HIDE DEF C
<1>8. Index(G) = Index(W)
  BY <1>1, <1>3, StoredValue
<1>9. ASSUME NEW d \in Index(W), NEW k \in Components
      PROVE  Value(G, d, k) = IF d = new /\ k \in cs THEN Value(V, e, k) ELSE Value(W, d, k)
  <2> DEFINE b == Home(W, d)
             j == Place(W, d)
  <2>1. b \in Archetypes /\ j \in 1 .. Len(W.slots[b]) /\ W.slots[b][j] = d
    BY Homes
  <2>2. Value(G, d, k) = IF b # a THEN Value(W, d, k)
                         ELSE IF k \notin W.ready[a] THEN Default
                         ELSE IF k \in Aligned THEN C[k][j]
                         ELSE IF d.slot \in DOMAIN C[k] THEN C[k][d.slot]
                         ELSE Default
    BY <1>1, <1>3, StoredValue
  <2>3. Value(W, d, k) = IF k \notin W.ready[b] THEN Default
                         ELSE IF k \in Aligned THEN W.columns[b][k][j]
                         ELSE IF d.slot \in DOMAIN W.columns[b][k] THEN W.columns[b][k][d.slot]
                         ELSE Default
    BY ValueAt
  <2>4. /\ d = new => b = a /\ j = i
        /\ d # new => d.slot # new.slot /\ (b = a => j # i)
    BY <1>1, <2>1, SlotsDiffer DEF a, i
  <2> HIDE DEF b, j
  <2>5. CASE b # a
    BY <2>2, <2>4, <2>5
  <2>6. CASE b = a /\ k \notin cs
    BY <1>7, <2>2, <2>3, <2>6
  <2>7. CASE b = a /\ k \in cs /\ k \in Aligned
    BY <1>4, <1>5, <2>1, <2>2, <2>3, <2>4, <2>7
  <2>8. CASE b = a /\ k \in cs /\ k \notin Aligned
    BY <1>4, <1>6, <2>2, <2>3, <2>4, <2>8
  <2> QED BY <2>5, <2>6, <2>7, <2>8
<1> DEFINE new_values == [c \in Components |-> IF c \in cs THEN Value(V, e, c) ELSE Value(W, new, c)]
<1>10. Vals(G) = [Vals(W) EXCEPT ![new] = new_values]
  <2>1. /\ DOMAIN Vals(W) = Index(W)
        /\ \A d \in Index(W) : Vals(W)[d] = [c \in Components |-> Value(W, d, c)]
    BY DEF Vals, Index
  <2>2. Vals(G) = [d \in Index(W) |-> [c \in Components |-> Value(G, d, c)]]
    BY <1>8 DEF Vals, Index
  <2>3. [c \in Components |-> Value(G, new, c)] = new_values
    BY <1>9
  <2>4. \A d \in Index(W) : d # new => [c \in Components |-> Value(G, d, c)] = Vals(W)[d]
    BY <1>9, <2>1
  <2> HIDE DEF new_values
  <2>5. [Vals(W) EXCEPT ![new] = new_values] =
          [d \in Index(W) |-> IF d = new THEN new_values ELSE Vals(W)[d]]
    BY <2>1 DEF Vals, Index
  <2> QED BY <2>2, <2>3, <2>4, <2>5
<1> QED BY <1>2, <1>10

----------------------------------------------------------------------------
(* The tables implement the map from entities to values *)

Shown == [w \in WorldSet |-> Vals(world[w])]

\* What is shown after the tables of one world have changed.
LEMMA OneShown ==
  ASSUME WInv, NEW w \in WorldSet, NEW X, world' = [world EXCEPT ![w] = X]
  PROVE  /\ Shown' = [Shown EXCEPT ![w] = Vals(X)]
         /\ Shown[w] = Vals(world[w]) /\ Shown'[w] = Vals(X)
<1>1. \A u \in WorldSet : world'[u] = IF u = w THEN X ELSE world[u]
  BY DEF WInv
<1>2. \A u \in WorldSet : Vals(world'[u]) = IF u = w THEN Vals(X) ELSE Vals(world[u])
  BY <1>1
<1>3. Shown' = [u \in WorldSet |-> Vals(world'[u])]
  BY DEF Shown
<1>4. Shown = [u \in WorldSet |-> Vals(world[u])]
  BY DEF Shown
<1> QED BY <1>2, <1>3, <1>4

\* Values are shown of the entities in the index.
LEMMA ShownDomain == \A W : DOMAIN Vals(W) = Index(W)
  BY DEF Vals, Index

\* spawn adds an entity with defaults and changes nothing else that shows.
LEMMA SpawnImplements ==
  ASSUME NoRunOver, WInv, NEW w \in WorldSet, NEW a \in Archetypes, Spawn(w, a)
  PROVE  Store!Next
<1> DEFINE W == world[w]
           e == Allocate(W).entity
           P == Placed(W, a, Allocate(W))
<1>1. Sound(W) /\ Fresh(W, Allocate(W))
  BY AllocateFresh DEF WInv, Spawn, Sound
<1>2. e \notin Index(W) /\ Vals(P) = With(Vals(W), e, Blank)
  BY <1>1, PlacedVals
<1>3. world' = [world EXCEPT ![w] = P] /\ answer' = "none"
  BY DEF Spawn
<1> HIDE DEF e, P
<1>4. /\ Shown' = [Shown EXCEPT ![w] = Vals(P)]
      /\ Shown[w] = Vals(W) /\ Shown'[w] = Vals(P)
  BY <1>3, OneShown
<1>5. With(Vals(W), e, Blank) = Store!With(Shown[w], e, Store!Blank)
  BY <1>4 DEF With, Store!With, Blank, Store!Blank
<1>6. Store!Spawn(w, e)
  BY <1>2, <1>3, <1>4, <1>5 DEF Store!Spawn, Shown
<1>7. e \in Store!New(w)
  BY <1>2, <1>4, ShownDomain DEF Store!New, Shown, With
<1> QED BY <1>6, <1>7 DEF Store!Next

\* despawn takes one entity from the map.
LEMMA DespawnImplements ==
  ASSUME WInv, NEW w \in WorldSet, NEW e \in Live(w), Despawn(w, e)
  PROVE  Store!Next
<1> DEFINE W == world[w]
           D == Despawned(W, e)
<1>1. Sound(W) /\ e \in Index(W)
  BY DEF WInv, Live, Index
<1>2. Vals(D) = Without(Vals(W), e)
  BY <1>1, DespawnedVals
<1>3. world' = [world EXCEPT ![w] = D] /\ answer' = "none"
  BY DEF Despawn
<1> HIDE DEF D
<1>4. /\ Shown' = [Shown EXCEPT ![w] = Vals(D)]
      /\ Shown[w] = Vals(W) /\ Shown'[w] = Vals(D)
  BY <1>3, OneShown
<1>5. Without(Vals(W), e) = Store!Without(Shown[w], e)
  BY <1>4 DEF Without, Store!Without
<1>6. Store!Despawn(w, e)
  BY <1>2, <1>3, <1>4, <1>5 DEF Store!Despawn, Shown
<1>7. e \in Store!Gone(w)
  BY <1>1, <1>2, <1>4, ShownDomain DEF Store!Gone, Shown, Without
<1> QED BY <1>6, <1>7 DEF Store!Next

\* Whatever sets one value of a live entity is a Set.
LEMMA SetImplements ==
  ASSUME WInv, NEW w \in WorldSet, NEW e \in Index(world[w]), NEW c \in Components,
         NEW v \in Values \cup {Default}, NEW X,
         world' = [world EXCEPT ![w] = X], answer' = "none",
         Vals(X) = [Vals(world[w]) EXCEPT ![e][c] = v]
  PROVE  Store!Next
<1> DEFINE W == world[w]
<1>1. /\ Shown' = [Shown EXCEPT ![w] = Vals(X)]
      /\ Shown[w] = Vals(W) /\ Shown'[w] = Vals(X)
  BY OneShown
<1>2. Vals(W)[e] = [k \in Components |-> Value(W, e, k)] /\ e \in DOMAIN Vals(W)
  BY DEF Vals, Index
<1>3. Vals(X)[e][c] = v /\ DOMAIN Vals(X) = DOMAIN Vals(W)
  BY <1>2
<1>4. Shown' = [Shown EXCEPT ![w][e][c] = v]
  BY <1>1
<1>5. Store!Set(w, e, c, v)
  BY <1>1, <1>3, <1>4 DEF Store!Set, Shown
<1>6. e \in DOMAIN Shown[w] \ Store!Gone(w)
  BY <1>1, <1>2, <1>3 DEF Store!Gone, Shown
<1> QED BY <1>5, <1>6 DEF Store!Next, Shown

\* insert sets one value of the map.
LEMMA InsertImplements ==
  ASSUME WInv, NEW w \in WorldSet, NEW e \in Live(w), NEW c \in Components, NEW v \in Values,
         Insert(w, e, c, v)
  PROVE  Store!Next
<1> DEFINE W == world[w]
           a == Home(W, e)
           M == MadeReady(W, a, c)
<1>1. Sound(W) /\ e \in Index(W)
  BY DEF WInv, Live, Index
<1>2. a \in Archetypes
  BY <1>1, Homes
<1>3. Sound(M) /\ c \in M.ready[a] /\ M.entity_index = W.entity_index /\ Vals(M) = Vals(W)
  BY <1>1, <1>2, MadeReadySound, MadeReadyVals
<1>4. e \in Index(M) /\ Home(M, e) = a
  BY <1>1, <1>3 DEF Index, Home
<1>5. world' = [world EXCEPT ![w] = Written(M, e, c, v)] /\ answer' = "none"
  BY DEF Insert, Home
<1> HIDE DEF M
<1>6. Vals(Written(M, e, c, v)) = [Vals(W) EXCEPT ![e][c] = v]
  BY <1>3, <1>4, WrittenVals
<1> QED BY <1>1, <1>5, <1>6, SetImplements

\* remove resets one value of the map to the default.
LEMMA RemoveImplements ==
  ASSUME WInv, NEW w \in WorldSet, NEW e \in Live(w), NEW c \in Components,
         RemoveComponent(w, e, c)
  PROVE  Store!Next
<1> DEFINE W == world[w]
           a == Home(W, e)
<1>1. Sound(W) /\ e \in Index(W)
  BY DEF WInv, Live, Index
<1>2. answer' = "none" /\ c \in W.ready[a]
  BY DEF RemoveComponent, Home
<1>3. CASE c \in Sparse
  <2> DEFINE X == [W EXCEPT !.columns[a][c] = Without(W.columns[a][c], e.slot)]
  <2>1. world' = [world EXCEPT ![w] = X]
    BY <1>3 DEF RemoveComponent, Home
  <2>2. Vals(X) = [Vals(W) EXCEPT ![e][c] = Default]
    BY <1>1, <1>3, TakenOutVals
  <2> HIDE DEF X
  <2> QED BY <1>1, <1>2, <2>1, <2>2, SetImplements
<1>4. CASE c \notin Sparse
  <2>1. world' = [world EXCEPT ![w] = Written(W, e, c, Default)]
    BY <1>4 DEF RemoveComponent, Home
  <2>2. Vals(Written(W, e, c, Default)) = [Vals(W) EXCEPT ![e][c] = Default]
    BY <1>1, <1>2, WrittenVals
  <2> QED BY <1>1, <1>2, <2>1, <2>2, SetImplements
<1> QED BY <1>3, <1>4

\* A migration loses the values that found no column in the target; it says so
\* (migration.rs:94-130).
LEMMA MigrateImplements ==
  ASSUME NoRunOver, WInv, NEW v \in WorldSet, NEW w \in WorldSet, NEW e \in Live(v),
         MigrateEntity(v, w, e)
  PROVE  Store!Next
<1> DEFINE V == world[v]
           W == world[w]
           a == Home(V, e)
           allocated == IF SlotVacant(W, e) THEN AllocateExact(W, e) ELSE Allocate(W)
           new == allocated.entity
           P == Placed(W, a, allocated)
           D == Despawned(V, e)
           taken == Taken(V, e)
           fit == taken \cap W.ready[a]
<1>1. Sound(V) /\ Sound(W) /\ e \in Index(V) /\ v # w /\ a \in Archetypes
  BY Homes DEF WInv, Live, Index, MigrateEntity
<1>2. SlotVacant(W, e) \/ CanAllocate(W)
  BY DEF MigrateEntity
<1>3. /\ Fresh(W, allocated) /\ Sound(P) /\ new \in Index(P)
      /\ Home(P, new) = a /\ P.ready = W.ready
  BY <1>1, <1>2, ArrivalSound
<1>4. new \notin Index(W) /\ Vals(P) = With(Vals(W), new, Blank)
  BY <1>1, <1>3, PlacedVals
<1>5. PICK given \in SUBSET fit :
        /\ taken = fit => given = fit
        /\ world' = [world EXCEPT ![v] = D, ![w] = Given(P, V, e, new, given)]
  BY <1>1 DEF MigrateEntity, Home
<1>6. answer' = IF taken = fit THEN "ok" ELSE "failed"
  BY DEF MigrateEntity, Home
<1>7. new = e \/ \E x \in Index(W) : x.slot = e.slot
  <2>1. CASE SlotVacant(W, e)
    BY <2>1 DEF AllocateExact
  <2>2. CASE ~SlotVacant(W, e)
    <3>1. e.slot < Len(W.arena) /\ W.arena[e.slot + 1].occupied
      BY <2>2 DEF SlotVacant
    <3>2. e.slot \in 0 .. Len(W.arena) - 1
      BY <1>1, <3>1, LenProperties DEF Sound, Shape, Entity
    <3> QED BY <1>1, <3>1, <3>2 DEF Sound, Owned
  <2> QED BY <2>1, <2>2
<1>8. taken \subseteq Components /\ \A c \in Components : c \notin taken => Value(V, e, c) = Default
  <2>1. taken = {c \in V.ready[a] : c \in Aligned \/ e.slot \in DOMAIN V.columns[a][c]}
    BY DEF Taken, Home
  <2>2. V.ready[a] \subseteq Components
    BY <1>1 DEF Sound, Shape
  <2> HIDE DEF taken, a
  <2>3. \A c \in Components : c \notin taken => Value(V, e, c) = Default
    BY <2>1, ValueAt DEF a
  <2> QED BY <2>1, <2>2, <2>3
<1> HIDE DEF allocated, new, P, D, taken
<1>9. Vals(D) = Without(Vals(V), e)
  BY <1>1, DespawnedVals DEF D
<1> DEFINE lost == taken \ given
           G == Given(P, V, e, new, given)
           values == [c \in Components |-> IF c \in lost THEN Default ELSE Vals(V)[e][c]]
<1>10. Vals(G) = With(Vals(W), new, values)
  <2>1. given \in SUBSET P.ready[Home(P, new)] /\ given \subseteq taken
    BY <1>3
  <2> DEFINE given_values == [c \in Components |-> IF c \in given THEN Value(V, e, c)
                                                   ELSE Value(P, new, c)]
  <2>2. Vals(G) = [Vals(P) EXCEPT ![new] = given_values]
    BY <1>3, <2>1, GivenVals
  <2>3. /\ Vals(P)[new] = Blank /\ Vals(P)[new] = [c \in Components |-> Value(P, new, c)]
        /\ Vals(V)[e] = [c \in Components |-> Value(V, e, c)]
    BY <1>1, <1>3, <1>4 DEF Vals, Index, With
  <2>4. \A c \in Components : Value(P, new, c) = Default /\ Vals(V)[e][c] = Value(V, e, c)
    <3>1. \A c \in Components : Vals(P)[new][c] = Default /\ Vals(P)[new][c] = Value(P, new, c)
      BY <2>3 DEF Blank
    <3> QED BY <2>3, <3>1
  <2>5. \A c \in Components : (IF c \in given THEN Value(V, e, c) ELSE Value(P, new, c))
                               = IF c \in lost THEN Default ELSE Vals(V)[e][c]
    BY <1>8, <2>1, <2>4
  <2>6. given_values = values
    BY <2>5
  <2> HIDE DEF given_values, values, G
  <2>7. Vals(G) = [With(Vals(W), new, Blank) EXCEPT ![new] = values]
    BY <1>4, <2>2, <2>6
  <2> QED BY <2>7 DEF With
<1> HIDE DEF G
<1>11. world' = [world EXCEPT ![v] = D, ![w] = G]
  BY <1>5 DEF G
<1>12. /\ Shown' = [Shown EXCEPT ![v] = Vals(D), ![w] = Vals(G)]
       /\ Shown[v] = Vals(V) /\ Shown[w] = Vals(W) /\ Shown'[v] = Vals(D) /\ Shown'[w] = Vals(G)
  <2>1. \A u \in WorldSet : world'[u] = IF u = w THEN G ELSE IF u = v THEN D ELSE world[u]
    BY <1>1, <1>11 DEF WInv
  <2> QED BY <1>1, <2>1 DEF Shown
<1>13. answer' = IF lost = {} THEN "ok" ELSE "failed"
  <2>1. CASE taken = fit
    BY <1>5, <1>6, <2>1
  <2>2. CASE taken # fit
    <3>1. PICK c \in taken : c \notin fit
      BY <2>2
    <3>2. c \in lost
      BY <3>1
    <3> QED BY <1>6, <2>2, <3>2
  <2> QED BY <2>1, <2>2
<1>14. lost \in SUBSET Components
  BY <1>8
<1>15. new = e \/ \E x \in DOMAIN Shown[w] : x.slot = e.slot
  BY <1>7, <1>12, ShownDomain
<1>16. e \in Store!Gone(v) /\ new \in Store!New(w)
  <2>1. e \in DOMAIN Shown[v] \ DOMAIN Shown'[v]
    BY <1>1, <1>9, <1>12, ShownDomain DEF Without
  <2>2. new \in DOMAIN Shown'[w] \ DOMAIN Shown[w]
    BY <1>4, <1>10, <1>12, ShownDomain DEF With
  <2> QED BY <2>1, <2>2 DEF Store!Gone, Store!New, Shown
<1>17. Shown' = [Shown EXCEPT
          ![v] = Store!Without(Shown[v], e),
          ![w] = Store!With(Shown[w], new,
                   [c \in Components |-> IF c \in lost THEN Default ELSE Shown[v][e][c]])]
  BY <1>9, <1>10, <1>12 DEF With, Without, Store!With, Store!Without
<1> HIDE DEF lost
<1>18. Store!Migrate(v, w, e, new, lost)
  BY <1>1, <1>13, <1>15, <1>17 DEF Store!Migrate, Shown
<1> QED BY <1>1, <1>14, <1>16, <1>18 DEF Store!Next

\* The tables of the worlds implement the map from entities to values: a value
\* follows its entity through the moves of others, a reused slot starts from the
\* defaults, and only a migration that says so loses values.
THEOREM TablesImplementStore ==
  ASSUME NoRunOver
  PROVE  WSpec => ImplementsStore
<1>1. WInit => Store!Init
  <2> SUFFICES ASSUME WInit
               PROVE  Store!Init
    OBVIOUS
  <2>1. \A w \in WorldSet : Vals(world[w]) = <<>>
    <3>1. \A w \in WorldSet : world[w].entity_index = <<>>
      BY DEF WInit, EmptyWorld
    <3>2. DOMAIN <<>> = {}
      OBVIOUS
    <3> QED BY <3>1, <3>2 DEF Vals
  <2> QED BY <2>1 DEF Store!Init, WInit
<1>2. WInv /\ [WNext]_wvars => [Store!Next]_(Store!svars)
  <2> SUFFICES ASSUME WInv, [WNext]_wvars
               PROVE  [Store!Next]_(Store!svars)
    OBVIOUS
  <2>1. ASSUME NEW w \in WorldSet, NEW a \in Archetypes, Spawn(w, a)
        PROVE  Store!Next
    BY <2>1, SpawnImplements
  <2>2. ASSUME NEW w \in WorldSet, NEW e \in Live(w), Despawn(w, e)
        PROVE  Store!Next
    BY <2>2, DespawnImplements
  <2>3. ASSUME NEW w \in WorldSet, NEW e \in Live(w), NEW c \in Components, RemoveComponent(w, e, c)
        PROVE  Store!Next
    BY <2>3, RemoveImplements
  <2>4. ASSUME NEW w \in WorldSet, NEW e \in Live(w), NEW c \in Components, NEW x \in Values,
               Insert(w, e, c, x)
        PROVE  Store!Next
    BY <2>4, InsertImplements
  <2>5. ASSUME NEW w \in WorldSet, NEW e \in Live(w), NEW v \in WorldSet, MigrateEntity(w, v, e)
        PROVE  Store!Next
    BY <2>5, MigrateImplements
  <2>6. CASE UNCHANGED wvars
    BY <2>6 DEF wvars, Store!svars
  <2> QED BY <2>1, <2>2, <2>3, <2>4, <2>5, <2>6 DEF WNext
<1> QED BY <1>1, <1>2, WorldsSound, PTL DEF WSpec, ImplementsStore, Store!Spec

=============================================================================

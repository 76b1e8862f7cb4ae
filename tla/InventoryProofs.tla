--------------------------- MODULE InventoryProofs ---------------------------
(***************************************************************************)
(* Proofs about the inventory of a player for any materials with any       *)
(* limits, any number of slots, any slot that is watched and any number of *)
(* operations: nothing comes out of nothing, clicks conserve items, and    *)
(* the client sees what there is.  The loops of the code are folds; what   *)
(* they preserve is an instance of Folding for each of them.               *)
(***************************************************************************)
EXTENDS Inventory, SequenceTheorems, FiniteSetTheorems, TLAPS

Drags ==
  {d \in [targets : Seq(Slots), snapshot : Seq(Stacks)] :
     /\ Len(d.snapshot) = Len(d.targets)
     /\ \A i, j \in 1 .. Len(d.targets) : d.targets[i] = d.targets[j] => i = j}

Inventories ==
  [slots : [Slots -> Stacks], cursor : Stacks, dirty : SUBSET Slots, full : BOOLEAN, drag : Drags]

----------------------------------------------------------------------------
(* Stacks and slots *)

\* Slots and window slots are two numberings of the same places.
LEMMA SlotNumbers ==
  /\ N \in Nat /\ N >= 3 /\ H \in Nat /\ B \in Nat /\ H < N /\ H + B < N /\ Slots \subseteq Nat
  /\ \A w \in Slots : ToInternal(w) \in Slots /\ ToWindow(ToInternal(w)) = w
  /\ \A s \in Slots : ToWindow(s) \in Slots /\ ToInternal(ToWindow(s)) = s
  BY SlotAssumption DEF N, Slots, ToInternal, ToWindow

LEMMA StackFacts ==
  /\ MaxStack \in Nat /\ MaxStack >= 1 /\ Air \in Stacks /\ IsAir(Air)
  /\ \A i \in Stacks :
       /\ i.amount \in 0 .. MaxStack /\ i.comps \in BOOLEAN
       /\ IsAir(i) <=> i = Air
       /\ i # Air => i.mat \in Materials /\ i.amount >= 1
       /\ MaxOf(i) \in 1 .. MaxStack
       /\ \A k \in 0 .. MaxStack : i # Air => Amount(i, k) \in Stacks
       /\ \A k \in 0 .. MaxStack : i # Air => New(i.mat, k) \in Stacks
<1>1. MaxStack \in Nat /\ MaxStack >= 1 /\ Air \in Stacks /\ IsAir(Air)
  BY StackAssumption DEF Stacks, IsAir, Air
<1>2. ASSUME NEW i \in Stacks
      PROVE  /\ i.amount \in 0 .. MaxStack /\ i.comps \in BOOLEAN
             /\ IsAir(i) <=> i = Air
             /\ i # Air => i.mat \in Materials /\ i.amount >= 1 /\ i.amount \in 1 .. MaxStack
             /\ i # Air => i = [mat |-> i.mat, amount |-> i.amount, comps |-> i.comps]
  <2>1. CASE i = Air
    BY <1>1, <2>1 DEF IsAir, Air
  <2>2. CASE i \in [mat : Materials, amount : 1 .. MaxStack, comps : BOOLEAN]
    BY <1>1, <2>2 DEF IsAir, Air
  <2> QED BY <2>1, <2>2 DEF Stacks
<1>3. ASSUME NEW i \in Stacks
      PROVE  MaxOf(i) \in 1 .. MaxStack
  <2>1. CASE i = Air
    BY <1>1, <2>1 DEF MaxOf, Air
  <2>2. CASE i # Air
    BY <1>1, <1>2, <2>2, StackAssumption DEF MaxOf
  <2> QED BY <2>1, <2>2
<1>4. ASSUME NEW i \in Stacks, NEW k \in 0 .. MaxStack, i # Air
      PROVE  Amount(i, k) \in Stacks /\ New(i.mat, k) \in Stacks
  <2>1. CASE k = 0
    BY <1>1, <2>1 DEF Amount, New
  <2>2. CASE k # 0
    <3>1. k \in 1 .. MaxStack
      BY <1>1, <2>2
    <3>2. Amount(i, k) = [mat |-> i.mat, amount |-> k, comps |-> i.comps]
      BY <1>2, <1>4, <2>2 DEF Amount
    <3> QED BY <1>2, <1>4, <2>2, <3>1, <3>2 DEF New, Stacks
  <2> QED BY <2>1, <2>2
<1> QED BY <1>1, <1>2, <1>3, <1>4

\* How many items of m a stack holds.
Held(i, m) == IF i.mat = m THEN i.amount ELSE 0

\* Stacks with their amount changed.
LEMMA AmountHeld ==
  ASSUME NEW i \in Stacks, i # Air, NEW k \in 0 .. MaxStack, NEW m
  PROVE  /\ Held(Amount(i, k), m) = (IF i.mat = m THEN k ELSE 0)
         /\ Held(New(i.mat, k), m) = (IF i.mat = m THEN k ELSE 0)
         /\ Held(i, m) = (IF i.mat = m THEN i.amount ELSE 0)
         /\ Held(Air, m) = 0
         /\ (k # 0 => ~IsAir(Amount(i, k)) /\ ~IsAir(New(i.mat, k)))
         /\ (k # 0 => Amount(i, k).amount = k /\ New(i.mat, k).amount = k)
         /\ (k # 0 => Amount(i, k).mat = i.mat /\ New(i.mat, k).mat = i.mat)
         /\ (k = 0 => Amount(i, k) = Air /\ New(i.mat, k) = Air)
<1>1. i = [mat |-> i.mat, amount |-> i.amount, comps |-> i.comps]
  BY DEF Stacks
<1>2. k # 0 => Amount(i, k) = [mat |-> i.mat, amount |-> k, comps |-> i.comps]
  BY <1>1 DEF Amount
<1> QED BY <1>2 DEF Held, Amount, New, Air, IsAir

LEMMA Amounts ==
  ASSUME NEW i \in Stacks, i # Air, NEW k \in 0 .. MaxStack
  PROVE  /\ Amount(i, k) \in Stacks /\ New(i.mat, k) \in Stacks
         /\ k # 0 => ~IsAir(Amount(i, k)) /\ ~IsAir(New(i.mat, k))
         /\ k = 0 => Amount(i, k) = Air /\ New(i.mat, k) = Air
<1>1. Amount(i, k) \in Stacks /\ New(i.mat, k) \in Stacks
  BY StackFacts
<1>2. i = [mat |-> i.mat, amount |-> i.amount, comps |-> i.comps]
  BY DEF Stacks
<1>3. k # 0 => Amount(i, k) = [mat |-> i.mat, amount |-> k, comps |-> i.comps]
  BY <1>2 DEF Amount
<1>4. /\ k # 0 => ~IsAir(Amount(i, k)) /\ ~IsAir(New(i.mat, k))
      /\ k = 0 => Amount(i, k) = Air /\ New(i.mat, k) = Air
  BY <1>3 DEF Amount, New, IsAir
<1> QED BY <1>1, <1>4

\* Set changes one slot, and marks it unless it is emptied.
LEMMA SetShape ==
  ASSUME NEW v \in Inventories, NEW s \in Slots, NEW i \in Stacks
  PROVE  Set(v, s, i) = [slots |-> [v.slots EXCEPT ![s] = i], cursor |-> v.cursor,
                         dirty |-> IF IsAir(i) THEN v.dirty ELSE v.dirty \cup {s},
                         full |-> v.full, drag |-> v.drag]
<1> DEFINE w == [v EXCEPT !.slots[s] = i]
<1>1. w = [slots |-> [v.slots EXCEPT ![s] = i], cursor |-> v.cursor, dirty |-> v.dirty,
           full |-> v.full, drag |-> v.drag]
  BY DEF Inventories
<1> HIDE DEF w
<1> DEFINE d == w.dirty \cup {s}
<1>2. [w EXCEPT !.dirty = d] = [slots |-> w.slots, cursor |-> w.cursor, dirty |-> d,
                                full |-> w.full, drag |-> w.drag]
  <2> HIDE DEF d
  <2> QED BY <1>1
<1>3. Set(v, s, i) = IF IsAir(i) THEN w ELSE [w EXCEPT !.dirty = d]
  BY DEF Set, w, d
<1>4. CASE IsAir(i)
  BY <1>1, <1>3, <1>4
<1>5. CASE ~IsAir(i)
  BY <1>1, <1>2, <1>3, <1>5
<1> QED BY <1>4, <1>5

LEMMA SetSlots ==
  ASSUME NEW v \in Inventories, NEW s \in Slots, NEW i \in Stacks
  PROVE  Set(v, s, i).slots = [v.slots EXCEPT ![s] = i]
<1> DEFINE f == [v.slots EXCEPT ![s] = i]
<1>1. Set(v, s, i) = [slots |-> f, cursor |-> v.cursor,
                      dirty |-> IF IsAir(i) THEN v.dirty ELSE v.dirty \cup {s},
                      full |-> v.full, drag |-> v.drag]
  BY SetShape
<1> HIDE DEF f
<1>2. Set(v, s, i).slots = f
  BY <1>1
<1> QED BY <1>2 DEF f

LEMMA SetRest ==
  ASSUME NEW v \in Inventories, NEW s \in Slots, NEW i \in Stacks
  PROVE  Set(v, s, i).cursor = v.cursor /\ Set(v, s, i).full = v.full /\ Set(v, s, i).drag = v.drag
  BY SetShape

LEMMA SetDirty ==
  ASSUME NEW v \in Inventories, NEW s \in Slots, NEW i \in Stacks
  PROVE  Set(v, s, i).dirty = (IF IsAir(i) THEN v.dirty ELSE v.dirty \cup {s})
<1> DEFINE d == IF IsAir(i) THEN v.dirty ELSE v.dirty \cup {s}
           f == [v.slots EXCEPT ![s] = i]
<1>1. Set(v, s, i) = [slots |-> f, cursor |-> v.cursor, dirty |-> d, full |-> v.full, drag |-> v.drag]
  BY SetShape
<1> HIDE DEF d, f
<1>2. Set(v, s, i).dirty = d
  BY <1>1
<1> QED BY <1>2 DEF d

LEMMA SetType ==
  ASSUME NEW v \in Inventories, NEW s \in Slots, NEW i \in Stacks
  PROVE  Set(v, s, i) \in Inventories
<1> DEFINE f == [v.slots EXCEPT ![s] = i]
           d == IF IsAir(i) THEN v.dirty ELSE v.dirty \cup {s}
<1>1. Set(v, s, i) = [slots |-> f, cursor |-> v.cursor, dirty |-> d, full |-> v.full, drag |-> v.drag]
  BY SetShape
<1>2. f \in [Slots -> Stacks] /\ d \in SUBSET Slots
  BY DEF Inventories
<1> HIDE DEF f, d
<1> QED BY <1>1, <1>2 DEF Inventories

----------------------------------------------------------------------------
(* Counting *)

HeldIn(a, s, z) == Held(z[1].slots[s], z[2]) + a
Anything(a, n, z) == TRUE
Items == INSTANCE Folding WITH Op <- HeldIn, P <- Anything

\* The items of m in the slots T of v.
InSlots(v, m, T) == Items!OverSet(0, T, <<v, m>>)

\* Count is the sum over the slots, and the cursor.
LEMMA CountIs ==
  ASSUME NEW v, NEW m
  PROVE  Count(v, m) = InSlots(v, m, Slots) + Held(v.cursor, m)
  BY DEF Count, InSlots, Items!OverSet, MapThenSumSet, MapThenFoldSet, Items!MapThenFoldSet, HeldIn, Held

\* The sum over some slots in two inventories that differ in one slot only.
Compared(a, T, z) ==
  LET v == z[1]
      w == z[2]
      m == z[3]
      s == z[4]
  IN  /\ InSlots(v, m, T) \in Nat /\ InSlots(w, m, T) \in Nat
      /\ s \in T => InSlots(v, m, T) >= Held(v.slots[s], m)
      /\ InSlots(w, m, T) = InSlots(v, m, T)
                              + (IF s \in T THEN Held(w.slots[s], m) - Held(v.slots[s], m) ELSE 0)
Compare == INSTANCE Folding WITH Op <- HeldIn, P <- Compared

LEMMA HeldType ==
  ASSUME NEW i \in Stacks, NEW m
  PROVE  Held(i, m) \in Nat
  BY StackFacts DEF Held

LEMMA InSlotsStep ==
  ASSUME NEW v, NEW m, NEW T, IsFiniteSet(T)
  PROVE  /\ InSlots(v, m, {}) = 0
         /\ T # {} => InSlots(v, m, T) = Held(v.slots[Compare!Chosen(T)], m)
                                           + InSlots(v, m, T \ {Compare!Chosen(T)})
<1>1. IsFiniteSet({})
  BY FS_EmptySet
<1>2. InSlots(v, m, {}) = 0
  BY <1>1, Items!OverSetStep DEF InSlots, Items!IsFiniteSet, IsFiniteSet
<1>3. T # {} => InSlots(v, m, T) = HeldIn(InSlots(v, m, T \ {Items!Chosen(T)}), Items!Chosen(T), <<v, m>>)
  BY Items!OverSetStep DEF InSlots, Items!IsFiniteSet, IsFiniteSet
<1> QED BY <1>2, <1>3 DEF HeldIn, Items!Chosen, Compare!Chosen

\* What another content of one slot makes of the number of items.
LEMMA SlotChanged ==
  ASSUME NEW v \in Inventories, NEW w \in Inventories, NEW m, NEW s \in Slots,
         \A t \in Slots \ {s} : w.slots[t] = v.slots[t]
  PROVE  /\ InSlots(v, m, Slots) \in Nat /\ InSlots(w, m, Slots) \in Nat
         /\ InSlots(v, m, Slots) >= Held(v.slots[s], m)
         /\ InSlots(w, m, Slots)
              = InSlots(v, m, Slots) + Held(w.slots[s], m) - Held(v.slots[s], m)
<1> DEFINE z == <<v, w, m, s>>
<1>1. /\ IsFiniteSet(Slots)
      /\ \A t \in Slots : Held(v.slots[t], m) \in Nat /\ Held(w.slots[t], m) \in Nat
  <2>1. IsFiniteSet(Slots)
    BY SlotNumbers, FS_Interval DEF Slots
  <2>2. \A t \in Slots : v.slots[t] \in Stacks /\ w.slots[t] \in Stacks
    BY DEF Inventories
  <2> QED BY <2>1, <2>2, HeldType
<1>2. Compared(Compare!OverSet(0, {}, z), {}, z)
  BY InSlotsStep, FS_EmptySet DEF Compared
<1>3. ASSUME NEW T \in SUBSET Slots, T # {},
             Compared(Compare!OverSet(0, T \ {Compare!Chosen(T)}, z), T \ {Compare!Chosen(T)}, z)
      PROVE  Compared(Compare!OverSet(0, T, z), T, z)
  <2> DEFINE x == Compare!Chosen(T)
             R == T \ {x}
  <2>1. x \in T /\ IsFiniteSet(T)
    BY <1>1, <1>3, FS_Subset DEF Compare!Chosen
  <2>2. /\ InSlots(v, m, T) = Held(v.slots[x], m) + InSlots(v, m, R)
        /\ InSlots(w, m, T) = Held(w.slots[x], m) + InSlots(w, m, R)
    BY <1>3, <2>1, InSlotsStep
  <2>3. /\ InSlots(v, m, R) \in Nat /\ InSlots(w, m, R) \in Nat
        /\ s \in R => InSlots(v, m, R) >= Held(v.slots[s], m)
        /\ InSlots(w, m, R) = InSlots(v, m, R)
                                + (IF s \in R THEN Held(w.slots[s], m) - Held(v.slots[s], m) ELSE 0)
    BY <1>3 DEF Compared
  <2> HIDE DEF x, R
  <2>4. (s \in R <=> s \in T /\ s # x) /\ x \in Slots
    BY <2>1 DEF R
  <2>5. CASE x = s
    <3>1. s \in T /\ s \notin R
      BY <2>1, <2>4, <2>5
    <3> QED BY <1>1, <2>2, <2>3, <2>5, <3>1 DEF Compared
  <2>6. CASE x # s
    <3>1. w.slots[x] = v.slots[x] /\ (s \in R <=> s \in T)
      BY <2>4, <2>6
    <3> QED BY <1>1, <2>2, <2>3, <2>4, <3>1 DEF Compared
  <2> QED BY <2>5, <2>6
<1> HIDE DEF z
<1>4. Compared(Compare!OverSet(0, Slots, z), Slots, z)
  BY <1>1, <1>2, <1>3, Compare!OverSetInduction DEF Compare!IsFiniteSet, IsFiniteSet
<1> QED BY <1>1, <1>4 DEF Compared, z

\* What is known of the items of an inventory, and what a change of one slot or of
\* the cursor does to them.
LEMMA SetCount ==
  ASSUME NEW v \in Inventories, NEW s \in Slots, NEW i \in Stacks, NEW m
  PROVE  /\ Count(v, m) \in Nat /\ Count(Set(v, s, i), m) \in Nat
         /\ Held(v.slots[s], m) \in Nat /\ Held(i, m) \in Nat /\ Held(v.cursor, m) \in Nat
         /\ Count(v, m) >= Held(v.slots[s], m) + Held(v.cursor, m)
         /\ Count(Set(v, s, i), m) = Count(v, m) + Held(i, m) - Held(v.slots[s], m)
<1> DEFINE w == Set(v, s, i)
<1>1. /\ w \in Inventories /\ w.slots = [v.slots EXCEPT ![s] = i] /\ w.cursor = v.cursor
  BY SetType, SetSlots, SetRest
<1> HIDE DEF w
<1>2. /\ w.slots[s] = i /\ \A t \in Slots \ {s} : w.slots[t] = v.slots[t]
      /\ v.slots[s] \in Stacks /\ v.cursor \in Stacks
  BY <1>1 DEF Inventories
<1>3. /\ InSlots(v, m, Slots) \in Nat /\ InSlots(w, m, Slots) \in Nat
      /\ InSlots(v, m, Slots) >= Held(v.slots[s], m)
      /\ InSlots(w, m, Slots) = InSlots(v, m, Slots) + Held(i, m) - Held(v.slots[s], m)
  <2>1. w \in Inventories /\ \A t \in Slots \ {s} : w.slots[t] = v.slots[t]
    BY <1>1, <1>2
  <2>2. /\ InSlots(v, m, Slots) \in Nat /\ InSlots(w, m, Slots) \in Nat
        /\ InSlots(v, m, Slots) >= Held(v.slots[s], m)
        /\ InSlots(w, m, Slots) = InSlots(v, m, Slots) + Held(w.slots[s], m) - Held(v.slots[s], m)
    BY <2>1, SlotChanged
  <2> QED BY <1>2, <2>2
<1>4. Held(v.slots[s], m) \in Nat /\ Held(i, m) \in Nat /\ Held(v.cursor, m) \in Nat
  BY <1>2, HeldType
<1>5. /\ Count(v, m) = InSlots(v, m, Slots) + Held(v.cursor, m)
      /\ Count(w, m) = InSlots(w, m, Slots) + Held(v.cursor, m)
  BY <1>1, CountIs
<1> QED BY <1>3, <1>4, <1>5 DEF w

LEMMA CountType ==
  ASSUME NEW v \in Inventories, NEW m
  PROVE  Count(v, m) \in Nat /\ Held(v.cursor, m) \in Nat /\ Count(v, m) >= Held(v.cursor, m)
<1>1. 0 \in Slots /\ Air \in Stacks
  BY SlotNumbers, StackFacts DEF Slots
<1> QED BY <1>1, SetCount

LEMMA CursorCount ==
  ASSUME NEW v \in Inventories, NEW w \in Inventories, w.slots = v.slots, NEW m
  PROVE  Count(w, m) = Count(v, m) + Held(w.cursor, m) - Held(v.cursor, m)
<1>1. 0 \in Slots
  BY SlotNumbers DEF Slots
<1>2. v.cursor \in Stacks /\ w.cursor \in Stacks /\ v.slots[0] \in Stacks
  BY <1>1 DEF Inventories
<1>3. Held(v.cursor, m) \in Nat /\ Held(w.cursor, m) \in Nat /\ Held(v.slots[0], m) \in Nat
  BY <1>2, HeldType
<1>4. InSlots(v, m, Slots) \in Nat /\ InSlots(w, m, Slots) = InSlots(v, m, Slots)
  BY <1>1, <1>3, SlotChanged
<1>5. /\ Count(v, m) = InSlots(v, m, Slots) + Held(v.cursor, m)
      /\ Count(w, m) = InSlots(w, m, Slots) + Held(w.cursor, m)
  BY CountIs
<1> QED BY <1>3, <1>4, <1>5

\* Inventories with one field changed.
LEMMA Fields ==
  ASSUME NEW v \in Inventories
  PROVE  /\ v.slots \in [Slots -> Stacks] /\ v.cursor \in Stacks /\ v.drag \in Drags
         /\ v.dirty \in SUBSET Slots /\ v.full \in BOOLEAN
  BY DEF Inventories

LEMMA WithCursor ==
  ASSUME NEW v \in Inventories, NEW c \in Stacks
  PROVE  LET w == [v EXCEPT !.cursor = c]
         IN  /\ w \in Inventories /\ w.slots = v.slots /\ w.cursor = c
             /\ w.dirty = v.dirty /\ w.full = v.full /\ w.drag = v.drag
  BY DEF Inventories

LEMMA WithDrag ==
  ASSUME NEW v \in Inventories, NEW d \in Drags
  PROVE  LET w == [v EXCEPT !.drag = d]
         IN  /\ w \in Inventories /\ w.slots = v.slots /\ w.cursor = v.cursor
             /\ w.dirty = v.dirty /\ w.full = v.full /\ w.drag = d
  BY DEF Inventories

LEMMA WithFull ==
  ASSUME NEW v \in Inventories, NEW f \in BOOLEAN
  PROVE  LET w == [v EXCEPT !.full = f]
         IN  /\ w \in Inventories /\ w.slots = v.slots /\ w.cursor = v.cursor
             /\ w.dirty = v.dirty /\ w.full = f /\ w.drag = v.drag
  BY DEF Inventories

LEMMA WithClean ==
  ASSUME NEW v \in Inventories
  PROVE  LET w == [v EXCEPT !.dirty = {}]
         IN  /\ w \in Inventories /\ w.slots = v.slots /\ w.cursor = v.cursor
             /\ w.dirty = {} /\ w.full = v.full /\ w.drag = v.drag
  BY DEF Inventories

LEMMA Balance ==
  ASSUME NEW a \in Nat, NEW i \in Nat, NEW c \in Nat, NEW s \in Nat, NEW u \in Nat, i + c = s + u
  PROVE  a + i - s + c - u = a
  OBVIOUS

\* A slot and the cursor changed.
LEMMA Exchange ==
  ASSUME NEW v \in Inventories, NEW s \in Slots, NEW i \in Stacks, NEW c \in Stacks, NEW m
  PROVE  LET w == Set([v EXCEPT !.cursor = c], s, i)
         IN  /\ w \in Inventories /\ w.full = v.full /\ w.drag = v.drag
             /\ Held(c, m) \in Nat /\ Held(i, m) \in Nat /\ Count(v, m) \in Nat
             /\ Held(v.slots[s], m) \in Nat /\ Held(v.cursor, m) \in Nat
             /\ Count(w, m) = Count(v, m) + Held(i, m) - Held(v.slots[s], m)
                                + Held(c, m) - Held(v.cursor, m)
<1> DEFINE u == [v EXCEPT !.cursor = c]
           w == Set(u, s, i)
<1>1. /\ u \in Inventories /\ u.slots = v.slots /\ u.cursor = c
      /\ u.full = v.full /\ u.drag = v.drag
  BY WithCursor
<1> HIDE DEF u
<1>2. /\ w \in Inventories /\ w.full = v.full /\ w.drag = v.drag
  BY <1>1, SetType, SetRest
<1>3. /\ Held(c, m) \in Nat /\ Held(i, m) \in Nat /\ Held(v.slots[s], m) \in Nat
      /\ Count(u, m) \in Nat /\ Count(w, m) \in Nat
      /\ Count(w, m) = Count(u, m) + Held(i, m) - Held(u.slots[s], m)
  BY <1>1, SetCount
<1>4. Count(u, m) = Count(v, m) + Held(u.cursor, m) - Held(v.cursor, m)
  BY <1>1, CursorCount
<1>5. Count(v, m) \in Nat /\ Held(v.cursor, m) \in Nat
  BY CountType
<1>6. Count(w, m) = Count(v, m) + Held(i, m) - Held(v.slots[s], m)
                      + Held(c, m) - Held(v.cursor, m)
  BY <1>1, <1>3, <1>4, <1>5
<1> QED BY <1>2, <1>3, <1>5, <1>6 DEF u

----------------------------------------------------------------------------
(* Clicks *)

\* What the client was told of v is true of w too, but for what is dirty in w.
Same(v, w) ==
  /\ w.cursor = v.cursor /\ w.full = v.full /\ v.dirty \subseteq w.dirty
  /\ \A t \in Slots \ w.dirty : w.slots[t] = v.slots[t]

\* The result of a click on v: an inventory, of which the client knows all if the
\* click does not say that it changed it.
Sound(r, v) ==
  /\ r.inv \in Inventories /\ r.inv.full = v.full
  /\ ~r.changed => Same(v, r.inv)

LEMMA Results ==
  /\ \A v \in Inventories : Kept(v).inv = v /\ Sound(Kept(v), v)
  /\ \A v, w \in Inventories : w.full = v.full => Changed(w).inv = w /\ Sound(Changed(w), v)
  BY DEF Kept, Changed, Sound, Same

\* A click that leaves a drag alone and conserves items.
Conserves(r, v) ==
  Sound(r, v) /\ r.inv.drag = v.drag /\ \A m : Count(r.inv, m) = Count(v, m)

LEMMA PickupConserves ==
  ASSUME NEW v \in Inventories, NEW s \in Slots, NEW b \in {0, 1}
  PROVE  Conserves(Pickup(v, s, b), v)
<1> DEFINE slot == v.slots[s]
           cur  == v.cursor
           take == IF b = 0 THEN slot.amount ELSE Half(slot.amount)
           put  == Least(Minus(MaxOf(slot), slot.amount), IF b = 0 THEN cur.amount ELSE 1)
<1>0. /\ slot \in Stacks /\ cur \in Stacks
      /\ Kept(v).inv = v /\ Sound(Kept(v), v)
  <2>1. v.cursor \in Stacks /\ v.slots[s] \in Stacks
    BY Fields
  <2> QED BY <2>1, Results
<1>1. CASE Pickup(v, s, b) = Kept(v)
  BY <1>0, <1>1 DEF Conserves
<1>2. ASSUME NEW i \in Stacks, NEW c \in Stacks,
             Pickup(v, s, b) = Changed(Set([v EXCEPT !.cursor = c], s, i)),
             \A m : Held(i, m) + Held(c, m) = Held(slot, m) + Held(cur, m)
      PROVE  Conserves(Pickup(v, s, b), v)
  <2> DEFINE w == Set([v EXCEPT !.cursor = c], s, i)
  <2>1. w \in Inventories /\ w.full = v.full /\ w.drag = v.drag
    BY Exchange
  <2>2. ASSUME NEW m
        PROVE  Count(w, m) = Count(v, m)
    <3>1. /\ Held(c, m) \in Nat /\ Held(i, m) \in Nat /\ Count(v, m) \in Nat
          /\ Held(slot, m) \in Nat /\ Held(cur, m) \in Nat
          /\ Count(w, m) = Count(v, m) + Held(i, m) - Held(slot, m) + Held(c, m) - Held(cur, m)
      BY Exchange
    <3>2. Held(i, m) + Held(c, m) = Held(slot, m) + Held(cur, m)
      BY <1>2
    <3>3. Count(v, m) + Held(i, m) - Held(slot, m) + Held(c, m) - Held(cur, m) = Count(v, m)
      BY <3>1, <3>2, Balance
    <3> QED BY <3>1, <3>3
  <2> HIDE DEF w
  <2>3. Changed(w).inv = w /\ Sound(Changed(w), v)
    BY <2>1, Results
  <2> QED BY <1>2, <2>1, <2>2, <2>3 DEF Conserves, w
<1> HIDE DEF slot, cur
<1>3. CASE IsAir(cur) /\ ~IsAir(slot)
  <2> DEFINE c == IF b = 0 THEN slot ELSE New(slot.mat, take)
             i == Amount(slot, slot.amount - take)
  <2>1. slot # Air /\ cur = Air /\ slot.amount \in 1 .. MaxStack /\ MaxStack \in Nat
    BY <1>0, <1>3, StackFacts
  <2>2. take \in 0 .. MaxStack /\ slot.amount - take \in 0 .. MaxStack
    BY <2>1 DEF Half
  <2>3. b = 0 => take = slot.amount
    OBVIOUS
  <2> HIDE DEF take
  <2>4. i \in Stacks /\ c \in Stacks
    BY <1>0, <2>1, <2>2, StackFacts
  <2>5. ASSUME NEW m
        PROVE  Held(i, m) + Held(c, m) = Held(slot, m) + Held(cur, m)
    <3>1. /\ Held(i, m) = (IF slot.mat = m THEN slot.amount - take ELSE 0)
          /\ Held(New(slot.mat, take), m) = (IF slot.mat = m THEN take ELSE 0)
          /\ Held(slot, m) = (IF slot.mat = m THEN slot.amount ELSE 0) /\ Held(cur, m) = 0
      BY <1>0, <2>1, <2>2, AmountHeld
    <3>2. Held(c, m) = (IF slot.mat = m THEN take ELSE 0)
      BY <2>3, <3>1
    <3> QED BY <2>1, <2>2, <3>1, <3>2
  <2>6. Pickup(v, s, b) = Changed(Set([v EXCEPT !.cursor = c], s, i))
    BY <1>3 DEF Pickup, slot, cur, take
  <2> QED BY <1>2, <2>4, <2>5, <2>6
<1>4. CASE ~IsAir(cur) /\ (IsAir(slot) \/ slot.mat = cur.mat) /\ put # 0
  <2> DEFINE c == Amount(cur, cur.amount - put)
             i == New(cur.mat, slot.amount + put)
  <2>1. /\ cur # Air /\ cur.amount \in 1 .. MaxStack /\ slot.amount \in 0 .. MaxStack
        /\ MaxStack \in Nat /\ MaxOf(slot) \in 1 .. MaxStack
    BY <1>0, <1>4, StackFacts
  <2>2. put \in 1 .. cur.amount /\ slot.amount + put \in 1 .. MaxStack /\ cur.amount - put \in 0 .. MaxStack
    BY <1>4, <2>1 DEF Least, Minus
  <2> HIDE DEF put
  <2>4. i \in Stacks /\ c \in Stacks
    BY <1>0, <2>1, <2>2, StackFacts
  <2>5. ASSUME NEW m
        PROVE  Held(i, m) + Held(c, m) = Held(slot, m) + Held(cur, m)
    <3>1. /\ Held(c, m) = (IF cur.mat = m THEN cur.amount - put ELSE 0)
          /\ Held(cur, m) = (IF cur.mat = m THEN cur.amount ELSE 0)
      BY <1>0, <2>1, <2>2, AmountHeld
    <3>2. Held(i, m) = (IF cur.mat = m THEN slot.amount + put ELSE 0)
      <4>1. slot.amount + put \in 0 .. MaxStack
        BY <2>1, <2>2
      <4> QED BY <1>0, <2>1, <4>1, AmountHeld
    <3>3. Held(slot, m) = (IF cur.mat = m THEN slot.amount ELSE 0)
      <4>1. CASE slot.mat = cur.mat
        BY <4>1 DEF Held
      <4>2. CASE IsAir(slot)
        BY <4>2 DEF Held, IsAir
      <4> QED BY <1>4, <4>1, <4>2
    <3> QED BY <2>1, <2>2, <3>1, <3>2, <3>3
  <2>6. Pickup(v, s, b) = Changed(Set([v EXCEPT !.cursor = c], s, i))
    BY <1>4 DEF Pickup, slot, cur, put
  <2> QED BY <1>2, <2>4, <2>5, <2>6
<1>5. CASE ~IsAir(cur) /\ (IsAir(slot) \/ slot.mat = cur.mat) /\ put = 0
  BY <1>1, <1>5 DEF Pickup, slot, cur
<1>6. CASE IsAir(cur) /\ IsAir(slot)
  BY <1>1, <1>6 DEF Pickup, slot, cur
<1>7. CASE ~IsAir(cur) /\ ~(IsAir(slot) \/ slot.mat = cur.mat)
  <2>1. Pickup(v, s, b) = Changed(Set([v EXCEPT !.cursor = slot], s, cur))
    BY <1>7 DEF Pickup, slot, cur
  <2>2. \A m : Held(cur, m) + Held(slot, m) = Held(slot, m) + Held(cur, m)
    BY <1>0, HeldType
  <2> QED BY <1>0, <1>2, <2>1, <2>2
<1> QED BY <1>3, <1>4, <1>5, <1>6, <1>7

----------------------------------------------------------------------------
(* What a drag can go back to *)

Targets(d) == {d.targets[j] : j \in 1 .. Len(d.targets)}
Place(d, t) == CHOOSE j \in 1 .. Len(d.targets) : d.targets[j] = t

\* The inventory with the targets of the drag as they were when they joined it.
BackSlots(v) ==
  [t \in Slots |-> IF t \in Targets(v.drag) THEN v.drag.snapshot[Place(v.drag, t)] ELSE v.slots[t]]
Back(v) == [v EXCEPT !.slots = BackSlots(v)]

LEMMA DragFacts ==
  ASSUME NEW d \in Drags
  PROVE  /\ d.targets \in Seq(Slots) /\ d.snapshot \in Seq(Stacks)
         /\ Len(d.targets) \in Nat /\ Len(d.snapshot) = Len(d.targets)
         /\ \A j \in 1 .. Len(d.targets) :
              /\ d.targets[j] \in Slots /\ d.snapshot[j] \in Stacks
              /\ d.targets[j] \in Targets(d) /\ Place(d, d.targets[j]) = j
         /\ \A t \in Targets(d) : Place(d, t) \in 1 .. Len(d.targets) /\ d.targets[Place(d, t)] = t
<1>1. /\ d.targets \in Seq(Slots) /\ d.snapshot \in Seq(Stacks) /\ Len(d.snapshot) = Len(d.targets)
      /\ \A i, j \in 1 .. Len(d.targets) : d.targets[i] = d.targets[j] => i = j
  BY DEF Drags
<1>2. /\ Len(d.targets) \in Nat
      /\ \A j \in 1 .. Len(d.targets) : d.targets[j] \in Slots /\ d.snapshot[j] \in Stacks
  BY <1>1, LenProperties, ElementOfSeq
<1>3. \A t \in Targets(d) : Place(d, t) \in 1 .. Len(d.targets) /\ d.targets[Place(d, t)] = t
  BY DEF Targets, Place
<1>4. \A j \in 1 .. Len(d.targets) : d.targets[j] \in Targets(d)
  BY DEF Targets
<1> QED BY <1>1, <1>2, <1>3, <1>4

LEMMA BackFacts ==
  ASSUME NEW v \in Inventories
  PROVE  /\ Back(v) \in Inventories /\ Back(v).slots = BackSlots(v) /\ Back(v).cursor = v.cursor
         /\ Back(v).full = v.full /\ Back(v).dirty = v.dirty /\ Back(v).drag = v.drag
<1>1. v.slots \in [Slots -> Stacks] /\ v.drag \in Drags
  BY Fields
<1>2. \A t \in Targets(v.drag) : v.drag.snapshot[Place(v.drag, t)] \in Stacks
  BY <1>1, DragFacts
<1>3. BackSlots(v) \in [Slots -> Stacks]
  BY <1>1, <1>2 DEF BackSlots
<1> QED BY <1>3 DEF Back, Inventories

\* A slot that changes during a drag changes what the drag goes back to unless it
\* is a target.
LEMMA BackSet ==
  ASSUME NEW v \in Inventories, NEW s \in Slots, NEW i \in Stacks, NEW m
  PROVE  /\ Count(Back(v), m) \in Nat
         /\ Held(i, m) \in Nat /\ Held(v.slots[s], m) \in Nat
         /\ Count(Back(Set(v, s, i)), m)
              = IF s \in Targets(v.drag) THEN Count(Back(v), m)
                ELSE Count(Back(v), m) + Held(i, m) - Held(v.slots[s], m)
<1> DEFINE w == Set(v, s, i)
           x == Set(Back(v), s, i)
<1>1. /\ w \in Inventories /\ w.slots = [v.slots EXCEPT ![s] = i] /\ w.cursor = v.cursor
      /\ w.drag = v.drag /\ v.slots \in [Slots -> Stacks] /\ v.slots[s] \in Stacks
  <2>1. /\ w \in Inventories /\ w.slots = [v.slots EXCEPT ![s] = i] /\ w.cursor = v.cursor
        /\ w.drag = v.drag
    BY SetType, SetSlots, SetRest
  <2>2. v.slots \in [Slots -> Stacks]
    BY Fields
  <2> QED BY <2>1, <2>2
<1> HIDE DEF w
<1>2. /\ Back(v) \in Inventories /\ Back(w) \in Inventories
      /\ Back(v).slots = BackSlots(v) /\ Back(w).slots = BackSlots(w)
      /\ Back(v).cursor = v.cursor /\ Back(w).cursor = v.cursor
  BY <1>1, BackFacts
<1>3. x \in Inventories /\ x.slots = [BackSlots(v) EXCEPT ![s] = i] /\ x.cursor = v.cursor
  <2> DEFINE y == Back(v)
  <2>1. y \in Inventories /\ y.slots = BackSlots(v) /\ y.cursor = v.cursor
    BY <1>2
  <2> HIDE DEF y
  <2>2. /\ Set(y, s, i) \in Inventories /\ Set(y, s, i).slots = [y.slots EXCEPT ![s] = i]
        /\ Set(y, s, i).cursor = y.cursor
    BY <2>1, SetType, SetSlots, SetRest
  <2>3. x = Set(y, s, i)
    BY DEF y
  <2> QED BY <2>1, <2>2, <2>3
<1>4. /\ Count(Back(v), m) \in Nat /\ Held(i, m) \in Nat /\ Held(v.slots[s], m) \in Nat
      /\ Count(x, m) = Count(Back(v), m) + Held(i, m) - Held(BackSlots(v)[s], m)
  BY <1>1, <1>2, SetCount, HeldType
<1>5. v.cursor \in Stacks /\ Held(v.cursor, m) \in Nat
  BY Fields, HeldType
<1>6. CASE s \in Targets(v.drag)
  <2>1. BackSlots(w) = BackSlots(v)
    BY <1>1, <1>6 DEF BackSlots
  <2>2. Count(Back(w), m) = Count(Back(v), m) + Held(v.cursor, m) - Held(v.cursor, m)
    BY <1>2, <2>1, CursorCount
  <2> QED BY <1>4, <1>5, <1>6, <2>2 DEF w
<1>7. CASE s \notin Targets(v.drag)
  <2>1. BackSlots(w) = [BackSlots(v) EXCEPT ![s] = i] /\ BackSlots(v)[s] = v.slots[s]
    BY <1>1, <1>7 DEF BackSlots
  <2> HIDE DEF x
  <2>2. Count(Back(w), m) = Count(x, m) + Held(v.cursor, m) - Held(v.cursor, m)
    BY <1>2, <1>3, <2>1, CursorCount
  <2>3. Count(x, m) = Count(Back(v), m) + Held(i, m) - Held(v.slots[s], m)
    BY <1>4, <2>1
  <2>4. Count(x, m) \in Nat
    BY <1>3, CountType
  <2> QED BY <1>4, <1>5, <1>7, <2>2, <2>3, <2>4 DEF w
<1> QED BY <1>6, <1>7

\* Without a drag there is nothing to go back to.
LEMMA BackIdle ==
  ASSUME NEW v \in Inventories, ~Dragging(v), NEW m
  PROVE  Count(Back(v), m) = Count(v, m)
<1>1. v.drag \in Drags /\ v.slots \in [Slots -> Stacks]
  BY Fields
<1>2. v.drag.targets = <<>>
  BY DEF Dragging
<1>3. Targets(v.drag) = {}
  BY <1>1, <1>2, DragFacts, EmptySeq DEF Targets
<1>4. BackSlots(v) = v.slots
  BY <1>1, <1>3 DEF BackSlots
<1>5. Back(v) \in Inventories /\ Back(v).slots = v.slots /\ Back(v).cursor = v.cursor
  BY <1>4, BackFacts
<1>6. Count(Back(v), m) = Count(v, m) + Held(v.cursor, m) - Held(v.cursor, m)
  BY <1>5, CursorCount
<1> QED BY <1>6, CountType

----------------------------------------------------------------------------
(* Items that move into slots *)

Of(mat, k, m) == IF mat = m THEN k ELSE 0

\* a.inv is v after amount - a.left items of mat were put into slots other than U.
Poured(a, v, amount, mat, U) ==
  /\ a.inv \in Inventories /\ a.left \in 0 .. amount
  /\ Same(v, a.inv) /\ a.inv.drag = v.drag
  /\ \A t \in U : a.inv.slots[t] = v.slots[t]
  /\ \A m : Count(a.inv, m) + Of(mat, a.left, m) = Count(v, m) + Of(mat, amount, m)
  /\ \A m : Count(Back(a.inv), m) + Of(mat, a.left, m) <= Count(Back(v), m) + Of(mat, amount, m)
  /\ a.left = amount => a.inv = v

LEMMA PourStart ==
  ASSUME NEW v \in Inventories, NEW amount \in Nat, NEW mat, NEW U
  PROVE  Poured([inv |-> v, left |-> amount], v, amount, mat, U)
<1>1. \A m : Count(v, m) \in Nat /\ Count(Back(v), m) \in Nat /\ Of(mat, amount, m) \in Nat
  BY CountType, BackFacts DEF Of
<1> QED BY <1>1 DEF Poured, Same

\* k more items of mat put into a slot.
LEMMA PourStep ==
  ASSUME NEW v \in Inventories, NEW amount \in Nat, NEW mat, NEW U, NEW a,
         Poured(a, v, amount, mat, U),
         NEW s \in Slots \ U, NEW i \in Stacks, NEW k \in 1 .. a.left, ~IsAir(i),
         \A m : Held(i, m) = Held(a.inv.slots[s], m) + Of(mat, k, m)
  PROVE  Poured([inv |-> Set(a.inv, s, i), left |-> a.left - k], v, amount, mat, U)
<1> DEFINE w == Set(a.inv, s, i)
           left == a.left - k
           b == [inv |-> w, left |-> left]
<1>1. /\ a.inv \in Inventories /\ a.left \in 0 .. amount /\ Same(v, a.inv) /\ a.inv.drag = v.drag
      /\ \A t \in U : a.inv.slots[t] = v.slots[t]
      /\ v.slots \in [Slots -> Stacks] /\ a.inv.slots \in [Slots -> Stacks]
  BY Fields DEF Poured
<1>2. /\ w \in Inventories /\ w.slots = [a.inv.slots EXCEPT ![s] = i]
      /\ w.cursor = a.inv.cursor /\ w.full = a.inv.full /\ w.drag = a.inv.drag
      /\ w.dirty = a.inv.dirty \cup {s}
  <2> DEFINE y == a.inv
  <2>1. y \in Inventories
    BY <1>1
  <2> HIDE DEF y
  <2>2. Set(y, s, i) \in Inventories
    BY <2>1, SetType
  <2>3. Set(y, s, i).slots = [y.slots EXCEPT ![s] = i]
    BY <2>1, SetSlots
  <2>4. /\ Set(y, s, i).cursor = y.cursor /\ Set(y, s, i).full = y.full
        /\ Set(y, s, i).drag = y.drag
    BY <2>1, SetRest
  <2>5. Set(y, s, i).dirty = y.dirty \cup {s}
    BY <2>1, SetDirty
  <2> QED BY <2>2, <2>3, <2>4, <2>5 DEF y
<1>3. left \in 0 .. amount /\ left # amount
  BY <1>1
<1>4. ASSUME NEW m
      PROVE  /\ Count(w, m) + Of(mat, left, m) = Count(v, m) + Of(mat, amount, m)
             /\ Count(Back(w), m) + Of(mat, left, m) <= Count(Back(v), m) + Of(mat, amount, m)
  <2> DEFINE it == a.inv.slots[s]
  <2>1. /\ Count(a.inv, m) \in Nat /\ Held(it, m) \in Nat /\ Held(i, m) \in Nat
        /\ Count(w, m) = Count(a.inv, m) + Held(i, m) - Held(it, m)
    BY <1>1, SetCount
  <2>2. /\ Count(Back(a.inv), m) \in Nat
        /\ Count(Back(w), m) = IF s \in Targets(a.inv.drag) THEN Count(Back(a.inv), m)
                               ELSE Count(Back(a.inv), m) + Held(i, m) - Held(it, m)
    BY <1>1, BackSet
  <2>3. Held(i, m) = Held(it, m) + Of(mat, k, m)
    OBVIOUS
  <2>4. /\ Of(mat, a.left, m) \in Nat /\ Of(mat, k, m) \in Nat /\ Of(mat, left, m) \in Nat
        /\ Of(mat, left, m) = Of(mat, a.left, m) - Of(mat, k, m)
    BY <1>1, <1>3 DEF Of
  <2>5. /\ Count(a.inv, m) + Of(mat, a.left, m) = Count(v, m) + Of(mat, amount, m)
        /\ Count(Back(a.inv), m) + Of(mat, a.left, m) <= Count(Back(v), m) + Of(mat, amount, m)
        /\ Count(v, m) \in Nat /\ Count(Back(v), m) \in Nat /\ Of(mat, amount, m) \in Nat
    BY CountType, BackFacts DEF Poured, Of
  <2> HIDE DEF w, it, left
  <2>6. Count(w, m) + Of(mat, left, m) = Count(v, m) + Of(mat, amount, m)
    BY <2>1, <2>3, <2>4, <2>5
  <2>7. Count(Back(w), m) + Of(mat, left, m) <= Count(Back(v), m) + Of(mat, amount, m)
    BY <2>1, <2>2, <2>3, <2>4, <2>5
  <2> QED BY <2>6, <2>7
<1> HIDE DEF w, left
<1>5. Same(v, w)
  BY <1>1, <1>2 DEF Same
<1>6. w.drag = v.drag /\ \A t \in U : w.slots[t] = v.slots[t]
  BY <1>1, <1>2
<1>7. Poured(b, v, amount, mat, U)
  <2>1. b.inv = w /\ b.left = left
    OBVIOUS
  <2> HIDE DEF b
  <2> QED BY <1>2, <1>3, <1>4, <1>5, <1>6, <2>1 DEF Poured
<1> QED BY <1>7 DEF b, w, left

MergeInto(a, d, z) == Merge(a, d, z[2])
Merged(a, n, z) == Poured(a, z[1], z[2].amount, z[2].mat, {z[3]})
Merging == INSTANCE Folding WITH Op <- MergeInto, P <- Merged

LEMMA MergeStep ==
  ASSUME NEW v \in Inventories, NEW i \in Stacks, i # Air, NEW s \in Slots, NEW d \in Slots \ {s},
         NEW a, Poured(a, v, i.amount, i.mat, {s})
  PROVE  Poured(Merge(a, d, i), v, i.amount, i.mat, {s})
<1> DEFINE it == a.inv.slots[d]
           k  == Least(Minus(MaxOf(i), it.amount), a.left)
           x  == Amount(it, it.amount + k)
<1>1. /\ a.inv \in Inventories /\ it \in Stacks /\ a.left \in Nat /\ i.amount \in Nat
  <2>1. a.inv \in Inventories /\ i.amount \in 0 .. MaxStack /\ MaxStack \in Nat
    BY StackFacts DEF Poured
  <2> QED BY <2>1, Fields DEF Poured
<1>2. CASE IsAir(it) \/ it.mat # i.mat \/ k = 0
  BY <1>2 DEF Merge
<1>3. CASE ~(IsAir(it) \/ it.mat # i.mat \/ k = 0)
  <2>1. it # Air /\ it.amount \in 0 .. MaxStack /\ MaxOf(i) \in 1 .. MaxStack /\ MaxStack \in Nat
    BY <1>1, <1>3, StackFacts
  <2>2. k \in 1 .. a.left /\ it.amount + k \in 1 .. MaxStack
    BY <1>1, <1>3, <2>1 DEF Least, Minus
  <2>3. Merge(a, d, i) = [inv |-> Set(a.inv, d, x), left |-> a.left - k]
    BY <1>3 DEF Merge
  <2> HIDE DEF k
  <2>4. it.amount + k \in 0 .. MaxStack /\ it.amount + k # 0
    BY <2>1, <2>2
  <2>5. x \in Stacks /\ ~IsAir(x)
    BY <1>1, <2>1, <2>4, Amounts
  <2>6. ASSUME NEW m
        PROVE  Held(x, m) = Held(it, m) + Of(i.mat, k, m)
    <3>1. /\ Held(x, m) = (IF it.mat = m THEN it.amount + k ELSE 0)
          /\ Held(it, m) = (IF it.mat = m THEN it.amount ELSE 0)
      BY <1>1, <2>1, <2>4, AmountHeld
    <3> QED BY <1>3, <2>1, <2>2, <3>1 DEF Of
  <2> HIDE DEF x
  <2>7. Poured([inv |-> Set(a.inv, d, x), left |-> a.left - k], v, i.amount, i.mat, {s})
    BY <1>1, <2>2, <2>5, <2>6, PourStep
  <2> QED BY <2>3, <2>7
<1> QED BY <1>2, <1>3

LEMMA QuickMoveConserves ==
  ASSUME NEW v \in Inventories, NEW s \in Slots
  PROVE  Conserves(QuickMove(v, s), v)
<1> DEFINE i == v.slots[s]
           dest == IF s < H THEN BackpackSeq ELSE HotbarSeq
           start == [inv |-> v, left |-> i.amount]
           z == <<v, i, s>>
           merged == FoldLeft(LAMBDA acc, d : Merge(acc, d, i), start, dest)
           free   == SelectInSeq(dest, LAMBDA d : IsAir(merged.inv.slots[d]))
           placed == IF merged.left = 0 \/ free = 0 THEN merged
                     ELSE [inv |-> Set(merged.inv, dest[free], New(i.mat, merged.left)), left |-> 0]
           w == Set(placed.inv, s, New(i.mat, placed.left))
<1>1. i \in Stacks
  BY Fields
<1>2. CASE IsAir(i) \/ s >= H + B
  BY <1>2, Results DEF QuickMove, Conserves
<1>3. CASE ~(IsAir(i) \/ s >= H + B)
  <2>1. i # Air /\ i.amount \in 1 .. MaxStack /\ i.mat \in Materials /\ MaxStack \in Nat
    BY <1>1, <1>3, StackFacts
  <2>2. dest \in Seq(Slots \ {s})
    <3>1. H \in Nat /\ B \in Nat /\ Slots = 0 .. 2 * H + B /\ s \in Nat /\ s < H + B
      BY <1>3, SlotNumbers DEF Slots, N
    <3>2. \A j \in 1 .. B : H + j - 1 \in Slots /\ H + j - 1 >= H
      BY <3>1
    <3>3. \A j \in 1 .. H : j - 1 \in Slots /\ j - 1 < H
      BY <3>1
    <3>4. CASE s < H
      BY <3>1, <3>2, <3>4, IsASeq DEF BackpackSeq
    <3>5. CASE ~(s < H)
      BY <3>1, <3>3, <3>5, IsASeq DEF HotbarSeq
    <3> QED BY <3>4, <3>5
  <2>3. merged = Merging!OverSeq(start, dest, z)
    BY DEF FoldLeft, Merging!OverSeq, MapThenFoldSet, Merging!MapThenFoldSet,
           Max, Merging!Largest, MergeInto
  <2> HIDE DEF merged, dest, i
  <2>4. Poured(start, v, i.amount, i.mat, {s})
    BY <2>1, PourStart
  <2>5. \A a : \A n \in 1 .. Len(dest) : Merged(a, n - 1, z) => Merged(MergeInto(a, dest[n], z), n, z)
    BY <1>1, <2>1, <2>2, ElementOfSeq, MergeStep DEF Merged, MergeInto
  <2>6. Poured(merged, v, i.amount, i.mat, {s})
    <3>1. Merged(start, 0, z)
      BY <2>4 DEF Merged
    <3> HIDE DEF start, z
    <3>2. Merged(Merging!OverSeq(start, dest, z), Len(dest), z)
      BY <2>2, <2>5, <3>1, Merging!OverSeqInduction
    <3> QED BY <2>3, <3>2 DEF Merged, z
  <2>7. free # 0 => free \in 1 .. Len(dest) /\ IsAir(merged.inv.slots[dest[free]])
    <3> DEFINE T == {j \in 1 .. Len(dest) : IsAir(merged.inv.slots[dest[j]])}
    <3>1. free = IF T # {} THEN Min(T) ELSE 0
      BY DEF SelectInSeq
    <3> HIDE DEF free
    <3>2. T # {} => Min(T) \in T
      <4>1. T \subseteq Nat
        OBVIOUS
      <4> HIDE DEF T
      <4>2. T # {} => \E d \in T : \A e \in T : d <= e
        BY <4>1, Items!Least
      <4> QED BY <4>2 DEF Min
    <3> QED BY <3>1, <3>2
  <2> HIDE DEF free
  <2>8. Poured(placed, v, i.amount, i.mat, {s})
    <3>1. CASE merged.left = 0 \/ free = 0
      BY <2>6, <3>1
    <3>2. CASE ~(merged.left = 0 \/ free = 0)
      <4> DEFINE d == dest[free]
                 k == merged.left
                 x == New(i.mat, k)
      <4>1. d \in Slots \ {s} /\ IsAir(merged.inv.slots[d])
        BY <2>2, <2>7, <3>2, ElementOfSeq
      <4>2. k \in 0 .. MaxStack /\ k # 0 /\ k \in 1 .. merged.left /\ merged.left - k = 0
        BY <2>1, <2>6, <3>2 DEF Poured
      <4>3. x \in Stacks /\ ~IsAir(x)
        BY <1>1, <2>1, <4>2, Amounts
      <4>4. \A m : Held(x, m) = Held(merged.inv.slots[d], m) + Of(i.mat, k, m)
        BY <1>1, <2>1, <4>1, <4>2, AmountHeld DEF Of, IsAir, Held
      <4> HIDE DEF d, x, k
      <4>5. Poured([inv |-> Set(merged.inv, d, x), left |-> merged.left - k], v, i.amount, i.mat, {s})
        BY <2>1, <2>6, <4>1, <4>2, <4>3, <4>4, PourStep
      <4> QED BY <3>2, <4>2, <4>5 DEF d, x, k
    <3> QED BY <3>1, <3>2
  <2>9. QuickMove(v, s) = IF placed.left = i.amount THEN Kept(w) ELSE Changed(w)
    BY <1>3 DEF QuickMove, merged, free, dest, i
  <2> HIDE DEF placed
  <2> DEFINE x == New(i.mat, placed.left)
  <2>10. /\ placed.inv \in Inventories /\ placed.left \in 0 .. i.amount
         /\ Same(v, placed.inv) /\ placed.inv.drag = v.drag /\ placed.inv.slots[s] = i
         /\ placed.left = i.amount => placed.inv = v
    BY <2>8 DEF Poured, i
  <2>11. placed.left \in 0 .. MaxStack /\ x \in Stacks
    BY <1>1, <2>1, <2>10, StackFacts
  <2>12. /\ w \in Inventories /\ w.cursor = placed.inv.cursor /\ w.full = placed.inv.full
         /\ w.drag = placed.inv.drag /\ w.slots = [placed.inv.slots EXCEPT ![s] = x]
         /\ w.dirty = (IF IsAir(x) THEN placed.inv.dirty ELSE placed.inv.dirty \cup {s})
    <3> DEFINE y == placed.inv
    <3>1. y \in Inventories
      BY <2>10
    <3> HIDE DEF y, x
    <3>2. Set(y, s, x) \in Inventories /\ Set(y, s, x).slots = [y.slots EXCEPT ![s] = x]
      BY <2>11, <3>1, SetType, SetSlots
    <3>3. /\ Set(y, s, x).cursor = y.cursor /\ Set(y, s, x).full = y.full
          /\ Set(y, s, x).drag = y.drag
      BY <2>11, <3>1, SetRest
    <3>4. Set(y, s, x).dirty = (IF IsAir(x) THEN y.dirty ELSE y.dirty \cup {s})
      BY <2>11, <3>1, SetDirty
    <3> QED BY <3>2, <3>3, <3>4 DEF y, x
  <2>13. ASSUME NEW m
         PROVE  Count(w, m) = Count(v, m)
    <3>1. Held(x, m) = Of(i.mat, placed.left, m) /\ Held(i, m) = Of(i.mat, i.amount, m)
      BY <1>1, <2>1, <2>11, AmountHeld DEF Of
    <3>2. /\ Count(placed.inv, m) \in Nat /\ Held(x, m) \in Nat /\ Held(i, m) \in Nat
          /\ Count(w, m) = Count(placed.inv, m) + Held(x, m) - Held(i, m)
      BY <2>10, <2>11, SetCount
    <3>3. /\ Count(v, m) \in Nat
          /\ Count(placed.inv, m) + Of(i.mat, placed.left, m) = Count(v, m) + Of(i.mat, i.amount, m)
      BY <2>8, CountType DEF Poured
    <3> HIDE DEF w, x
    <3> QED BY <3>1, <3>2, <3>3
  <2>14. placed.left = i.amount => Same(v, w)
    <3>1. ASSUME placed.left = i.amount
          PROVE  Same(v, w)
      <4>1. ~IsAir(x) /\ placed.inv = v
        BY <1>1, <2>1, <2>10, <2>11, <3>1, AmountHeld
      <4> HIDE DEF x, w
      <4> QED BY <2>10, <2>12, <4>1, Fields DEF Same
    <3> QED BY <3>1
  <2> HIDE DEF w, x
  <2>15. Sound(QuickMove(v, s), v)
    <3>1. w \in Inventories /\ w.full = v.full
      BY <2>10, <2>12 DEF Same
    <3>2. CASE placed.left = i.amount
      BY <2>9, <2>14, <3>1, <3>2 DEF Sound, Kept
    <3>3. CASE placed.left # i.amount
      BY <2>9, <3>1, <3>3, Results
    <3> QED BY <3>2, <3>3
  <2>16. QuickMove(v, s).inv = w
    BY <2>9 DEF Kept, Changed
  <2> QED BY <2>10, <2>12, <2>13, <2>15, <2>16 DEF Conserves
<1> QED BY <1>2, <1>3

LEMMA SwapConserves ==
  ASSUME NEW v \in Inventories, NEW s \in Slots, NEW b \in 0 .. H - 1
  PROVE  Conserves(Swap(v, s, b), v)
<1> DEFINE x == v.slots[b]
           y == v.slots[s]
           u == Set(v, s, x)
           w == Set(u, b, y)
<1>1. b \in Slots
  BY SlotNumbers DEF Slots
<1>2. x \in Stacks /\ y \in Stacks /\ v.slots \in [Slots -> Stacks]
  <2>1. v.slots \in [Slots -> Stacks]
    BY Fields
  <2> QED BY <1>1, <2>1
<1>3. /\ u \in Inventories /\ u.slots = [v.slots EXCEPT ![s] = x]
      /\ u.full = v.full /\ u.drag = v.drag
  <2> HIDE DEF x, y
  <2>1. u \in Inventories /\ u.full = v.full /\ u.drag = v.drag
    BY <1>2, SetType, SetRest
  <2>2. u.slots = [v.slots EXCEPT ![s] = x]
    BY <1>2, SetSlots
  <2> QED BY <2>1, <2>2
<1>4. u.slots[b] = x
  BY <1>1, <1>2, <1>3
<1>5. w \in Inventories /\ w.full = v.full /\ w.drag = v.drag
  <2> HIDE DEF u
  <2>1. w \in Inventories /\ w.full = u.full /\ w.drag = u.drag
    BY <1>1, <1>2, <1>3, SetType, SetRest
  <2> QED BY <1>3, <2>1
<1>6. ASSUME NEW m
      PROVE  Count(w, m) = Count(v, m)
  <2>1. /\ Count(v, m) \in Nat /\ Count(u, m) \in Nat /\ Held(x, m) \in Nat /\ Held(y, m) \in Nat
        /\ Count(u, m) = Count(v, m) + Held(x, m) - Held(y, m)
    BY <1>1, <1>2, SetCount
  <2> HIDE DEF u
  <2>2. Count(w, m) = Count(u, m) + Held(y, m) - Held(u.slots[b], m)
    BY <1>1, <1>2, <1>3, SetCount
  <2> HIDE DEF w, x, y
  <2> QED BY <1>4, <2>1, <2>2
<1>7. Swap(v, s, b) = Changed(w)
  BY DEF Swap
<1> HIDE DEF w
<1> QED BY <1>5, <1>6, <1>7, Results DEF Conserves

CollectFrom(a, s, z) == Collect(a, s, z[3])
Collected(a, n, z) ==
  LET v     == z[1]
      space == z[2]
      mat   == z[3]
  IN  /\ a.inv \in Inventories /\ a.space \in 0 .. space
      /\ a.inv.cursor = v.cursor /\ a.inv.full = v.full /\ a.inv.drag = v.drag
      /\ \A m : Count(a.inv, m) + Of(mat, space - a.space, m) = Count(v, m)
Collecting == INSTANCE Folding WITH Op <- CollectFrom, P <- Collected

LEMMA CollectStep ==
  ASSUME NEW v \in Inventories, NEW space \in Nat, NEW mat, NEW n, NEW s \in Slots,
         NEW a, Collected(a, n, <<v, space, mat>>)
  PROVE  Collected(Collect(a, s, mat), n, <<v, space, mat>>)
<1> DEFINE it == a.inv.slots[s]
           k  == Least(it.amount, a.space)
           x  == Amount(it, it.amount - k)
           w  == Set(a.inv, s, x)
<1>1. /\ a.inv \in Inventories /\ a.space \in 0 .. space
      /\ a.inv.cursor = v.cursor /\ a.inv.full = v.full /\ a.inv.drag = v.drag
      /\ \A m : Count(a.inv, m) + Of(mat, space - a.space, m) = Count(v, m)
  BY DEF Collected
<1>2. it \in Stacks /\ it.amount \in 0 .. MaxStack /\ MaxStack \in Nat
  <2>1. it \in Stacks
    BY <1>1, Fields
  <2> QED BY <2>1, StackFacts
<1>3. CASE it.mat # mat \/ k = 0
  BY <1>3 DEF Collect
<1>4. CASE ~(it.mat # mat \/ k = 0)
  <2>1. /\ k \in 1 .. a.space /\ k \in 1 .. it.amount /\ it.amount - k \in 0 .. MaxStack
        /\ a.space - k \in 0 .. space
    BY <1>1, <1>2, <1>4 DEF Least
  <2>2. Collect(a, s, mat) = [inv |-> w, space |-> a.space - k]
    BY <1>4 DEF Collect
  <2> HIDE DEF k
  <2>3. it # Air
    BY <1>2, <2>1 DEF Air
  <2>4. x \in Stacks
    BY <1>2, <2>1, <2>3, StackFacts
  <2>5. w \in Inventories /\ w.cursor = v.cursor /\ w.full = v.full /\ w.drag = v.drag
    <3> DEFINE y == a.inv
    <3>1. y \in Inventories
      BY <1>1
    <3> HIDE DEF y, x
    <3>2. /\ Set(y, s, x) \in Inventories /\ Set(y, s, x).cursor = y.cursor
          /\ Set(y, s, x).full = y.full /\ Set(y, s, x).drag = y.drag
      BY <2>4, <3>1, SetType, SetRest
    <3> QED BY <1>1, <3>2 DEF y
  <2>6. ASSUME NEW m
        PROVE  Count(w, m) + Of(mat, space - (a.space - k), m) = Count(v, m)
    <3>1. /\ Held(x, m) = (IF it.mat = m THEN it.amount - k ELSE 0)
          /\ Held(it, m) = (IF it.mat = m THEN it.amount ELSE 0)
      BY <1>2, <2>1, <2>3, AmountHeld
    <3>2. /\ Count(a.inv, m) \in Nat /\ Held(x, m) \in Nat /\ Held(it, m) \in Nat
          /\ Count(w, m) = Count(a.inv, m) + Held(x, m) - Held(it, m)
      BY <1>1, <2>4, SetCount
    <3>3. Count(a.inv, m) + Of(mat, space - a.space, m) = Count(v, m)
      BY <1>1
    <3>4. Of(mat, space - (a.space - k), m) = Of(mat, space - a.space, m) + Of(mat, k, m)
      BY <1>1, <2>1 DEF Of
    <3>5. Held(it, m) - Held(x, m) = Of(mat, k, m) /\ Of(mat, k, m) \in Nat
      BY <1>2, <1>4, <2>1, <3>1 DEF Of
    <3>6. Of(mat, space - a.space, m) \in Nat
      BY <1>1 DEF Of
    <3> HIDE DEF w, x, it
    <3> QED BY <3>2, <3>3, <3>4, <3>5, <3>6
  <2> HIDE DEF w
  <2> QED BY <2>1, <2>2, <2>5, <2>6 DEF Collected
<1> QED BY <1>3, <1>4

LEMMA PickupAllConserves ==
  ASSUME NEW v \in Inventories
  PROVE  Conserves(PickupAll(v), v)
<1> DEFINE cur   == v.cursor
           space == Minus(MaxOf(cur), cur.amount)
           start == [inv |-> v, space |-> space]
           z     == <<v, space, cur.mat>>
           all   == FoldLeft(LAMBDA acc, s : Collect(acc, s, cur.mat), start, AllSlots)
           c     == Amount(cur, MaxOf(cur) - all.space)
           w     == [all.inv EXCEPT !.cursor = c]
<1>1. cur \in Stacks /\ AllSlots \in Seq(Slots)
  <2>1. \A i \in 1 .. N : i - 1 \in Slots
    BY SlotNumbers DEF Slots
  <2> QED BY <2>1, Fields, SlotNumbers, IsASeq DEF AllSlots
<1>2. all = Collecting!OverSeq(start, AllSlots, z)
  BY DEF FoldLeft, Collecting!OverSeq, MapThenFoldSet, Collecting!MapThenFoldSet,
         Max, Collecting!Largest, CollectFrom
<1>3. PickupAll(v) = IF IsAir(cur) \/ all.space = space THEN Kept(v) ELSE Changed(w)
  BY DEF PickupAll
<1> HIDE DEF all
<1>4. /\ cur.amount \in 0 .. MaxStack /\ MaxOf(cur) \in 1 .. MaxStack /\ MaxStack \in Nat
      /\ space \in 0 .. MaxOf(cur) /\ (space # 0 => space = MaxOf(cur) - cur.amount)
  <2>1. cur.amount \in 0 .. MaxStack /\ MaxOf(cur) \in 1 .. MaxStack /\ MaxStack \in Nat
    BY <1>1, StackFacts
  <2> QED BY <2>1 DEF Minus
<1> HIDE DEF space, cur
<1>5. Collected(all, Len(AllSlots), z)
  <2>1. \A m : Count(v, m) \in Nat
    BY CountType
  <2>2. Collected(start, 0, z)
    BY <1>4, <2>1 DEF Collected, Of
  <2>3. \A a : \A n \in 1 .. Len(AllSlots) :
          Collected(a, n - 1, z) => Collected(CollectFrom(a, AllSlots[n], z), n, z)
    <3>1. ASSUME NEW a, NEW n \in 1 .. Len(AllSlots), Collected(a, n - 1, z)
          PROVE  Collected(CollectFrom(a, AllSlots[n], z), n, z)
      <4>1. AllSlots[n] \in Slots
        BY <1>1, ElementOfSeq
      <4>2. space \in Nat /\ Collected(a, n, <<v, space, cur.mat>>)
        BY <1>4, <3>1 DEF Collected
      <4>3. Collected(Collect(a, AllSlots[n], cur.mat), n, <<v, space, cur.mat>>)
        BY <4>1, <4>2, CollectStep
      <4> QED BY <4>3 DEF CollectFrom
    <3> QED BY <3>1
  <2> HIDE DEF start, z
  <2>4. Collected(Collecting!OverSeq(start, AllSlots, z), Len(AllSlots), z)
    BY <1>1, <2>2, <2>3, Collecting!OverSeqInduction
  <2> QED BY <1>2, <2>4
<1>6. /\ all.inv \in Inventories /\ all.space \in 0 .. space
      /\ all.inv.cursor = cur /\ all.inv.full = v.full /\ all.inv.drag = v.drag
      /\ \A m : Count(all.inv, m) + Of(cur.mat, space - all.space, m) = Count(v, m)
  BY <1>5 DEF Collected, cur
<1>7. CASE IsAir(cur) \/ all.space = space
  BY <1>3, <1>7, Results DEF Conserves
<1>8. CASE ~(IsAir(cur) \/ all.space = space)
  <2> DEFINE k == MaxOf(cur) - all.space
  <2>1. /\ space = MaxOf(cur) - cur.amount /\ k \in 0 .. MaxStack
        /\ k = cur.amount + (space - all.space) /\ space - all.space \in Nat
    BY <1>4, <1>6, <1>8
  <2>2. cur # Air
    BY <1>1, <1>8, StackFacts
  <2>3. c \in Stacks
    BY <1>1, <2>1, <2>2, StackFacts
  <2>4. /\ w \in Inventories /\ w.slots = all.inv.slots /\ w.cursor = c
        /\ w.full = v.full /\ w.drag = v.drag
    <3> DEFINE y == all.inv
    <3>1. y \in Inventories /\ y.full = v.full /\ y.drag = v.drag
      BY <1>6
    <3> HIDE DEF y, c
    <3>2. LET u == [y EXCEPT !.cursor = c]
          IN  /\ u \in Inventories /\ u.slots = y.slots /\ u.cursor = c
              /\ u.full = y.full /\ u.drag = y.drag
      BY <2>3, <3>1, WithCursor
    <3> QED BY <3>1, <3>2 DEF y
  <2>5. ASSUME NEW m
        PROVE  Count(w, m) = Count(v, m)
    <3>1. /\ Held(c, m) = (IF cur.mat = m THEN k ELSE 0)
          /\ Held(cur, m) = (IF cur.mat = m THEN cur.amount ELSE 0)
      BY <1>1, <2>1, <2>2, AmountHeld
    <3> HIDE DEF w, c, k
    <3>2. Count(w, m) = Count(all.inv, m) + Held(c, m) - Held(cur, m)
      BY <1>6, <2>4, CursorCount
    <3>3. Count(all.inv, m) + Of(cur.mat, space - all.space, m) = Count(v, m)
      BY <1>6
    <3>4. Held(c, m) - Held(cur, m) = Of(cur.mat, space - all.space, m)
      BY <1>4, <2>1, <3>1 DEF Of
    <3>5. Count(all.inv, m) \in Nat /\ Held(c, m) \in Nat /\ Held(cur, m) \in Nat
      BY <1>1, <1>6, <2>3, CountType, HeldType
    <3> QED BY <3>2, <3>3, <3>4, <3>5
  <2>6. PickupAll(v) = Changed(w)
    BY <1>3, <1>8
  <2> HIDE DEF w
  <2> QED BY <2>4, <2>5, <2>6, Results DEF Conserves
<1> QED BY <1>7, <1>8

\* A throw takes items out, a clone adds those of the slot.
LEMMA ThrowTakes ==
  ASSUME NEW v \in Inventories, NEW s \in Slots, NEW b \in {0, 1}
  PROVE  /\ Sound(Throw(v, s, b), v) /\ Throw(v, s, b).inv.drag = v.drag
         /\ \A m : Count(Throw(v, s, b).inv, m) <= Count(v, m)
<1> DEFINE i == v.slots[s]
           k == IF b = 0 THEN 0 ELSE i.amount - 1
           x == Amount(i, k)
           w == Set(v, s, x)
<1>1. i \in Stacks /\ \A m : Count(v, m) \in Nat
  BY Fields, CountType
<1>2. CASE IsAir(i)
  <2>1. Throw(v, s, b) = Kept(v)
    BY <1>2 DEF Throw
  <2> QED BY <1>1, <2>1, Results
<1>3. CASE ~IsAir(i)
  <2>1. i # Air /\ i.amount \in 1 .. MaxStack /\ MaxStack \in Nat
    BY <1>1, <1>3, StackFacts
  <2>2. k \in 0 .. MaxStack /\ k <= i.amount
    BY <2>1
  <2> HIDE DEF k
  <2>3. x \in Stacks
    BY <1>1, <2>1, <2>2, StackFacts
  <2>4. w \in Inventories /\ w.full = v.full /\ w.drag = v.drag
    BY <2>3, SetType, SetRest
  <2>5. ASSUME NEW m
        PROVE  Count(w, m) <= Count(v, m)
    <3>1. /\ Held(x, m) = (IF i.mat = m THEN k ELSE 0)
          /\ Held(i, m) = (IF i.mat = m THEN i.amount ELSE 0)
      BY <1>1, <2>1, <2>2, AmountHeld
    <3>2. Held(x, m) <= Held(i, m)
      BY <2>1, <2>2, <3>1
    <3>3. /\ Count(v, m) \in Nat /\ Held(x, m) \in Nat /\ Held(i, m) \in Nat
          /\ Count(w, m) = Count(v, m) + Held(x, m) - Held(i, m)
      BY <2>3, SetCount
    <3> HIDE DEF w, x, i
    <3> QED BY <3>2, <3>3
  <2>6. Throw(v, s, b) = Changed(w)
    BY <1>3 DEF Throw, k
  <2> HIDE DEF w
  <2> QED BY <2>4, <2>5, <2>6, Results
<1> QED BY <1>2, <1>3

LEMMA CloneAdds ==
  ASSUME NEW v \in Inventories, NEW s \in Slots
  PROVE  /\ Sound(Clone(v, s), v) /\ Clone(v, s).inv.drag = v.drag
         /\ \A m : Count(Clone(v, s).inv, m)
                     <= Count(v, m) + (IF Clone(v, s).changed THEN Held(v.slots[s], m) ELSE 0)
<1> DEFINE i == v.slots[s]
           w == [v EXCEPT !.cursor = i]
<1>1. i \in Stacks /\ \A m : Count(v, m) \in Nat /\ Held(i, m) \in Nat
  BY Fields, CountType, HeldType
<1>2. CASE ~Creative \/ IsAir(i)
  <2>1. Clone(v, s) = Kept(v) /\ ~Clone(v, s).changed
    BY <1>2 DEF Clone, Kept
  <2> QED BY <1>1, <2>1, Results
<1>3. CASE ~(~Creative \/ IsAir(i))
  <2>1. Clone(v, s) = Changed(w) /\ Clone(v, s).changed
    BY <1>3 DEF Clone, Changed
  <2>2. w \in Inventories /\ w.slots = v.slots /\ w.cursor = i /\ w.full = v.full /\ w.drag = v.drag
    BY <1>1, WithCursor
  <2>3. ASSUME NEW m
        PROVE  Count(w, m) <= Count(v, m) + Held(i, m)
    <3> HIDE DEF w
    <3>1. Count(w, m) = Count(v, m) + Held(i, m) - Held(v.cursor, m)
      BY <2>2, CursorCount
    <3>2. Held(v.cursor, m) \in Nat
      BY CountType
    <3> QED BY <1>1, <3>1, <3>2
  <2> HIDE DEF w
  <2>4. Clone(v, s).inv = w /\ Sound(Clone(v, s), v)
    BY <2>1, <2>2, Results
  <2> QED BY <2>1, <2>2, <2>3, <2>4
<1> QED BY <1>2, <1>3

----------------------------------------------------------------------------
(* Drags *)

\* Only the slots, the cursor and the targets matter to what a drag can go back to.
LEMMA BackCursor ==
  ASSUME NEW v \in Inventories, NEW w \in Inventories, BackSlots(w) = BackSlots(v), NEW m
  PROVE  Count(Back(w), m) = Count(Back(v), m) + Held(w.cursor, m) - Held(v.cursor, m)
<1>1. /\ Back(v) \in Inventories /\ Back(w) \in Inventories
      /\ Back(v).slots = BackSlots(v) /\ Back(w).slots = BackSlots(w)
      /\ Back(v).cursor = v.cursor /\ Back(w).cursor = w.cursor
  BY BackFacts
<1>2. Back(w).slots = Back(v).slots
  BY <1>1
<1> QED BY <1>1, <1>2, CursorCount

LEMMA NoDragFacts == NoDrag \in Drags /\ NoDrag.targets = <<>>
  BY EmptySeq DEF NoDrag, Drags

SpreadInto(a, t, z) == SpreadOver(a, t, z[3].mat)
SpreadTo(a, n, z) == Poured(a, z[1], z[2], z[3].mat, {})
Spreading == INSTANCE Folding WITH Op <- SpreadInto, P <- SpreadTo

LEMMA SpreadStep ==
  ASSUME NEW v \in Inventories, NEW amount \in 0 .. MaxStack, NEW cur \in Stacks, cur # Air,
         NEW t \in Slots, NEW a, Poured(a, v, amount, cur.mat, {})
  PROVE  Poured(SpreadOver(a, t, cur.mat), v, amount, cur.mat, {})
<1> DEFINE it == a.inv.slots[t]
           k  == Least(Minus(MaxOf(it), it.amount), a.left)
           x  == IF IsAir(it) THEN New(cur.mat, k) ELSE Amount(it, it.amount + k)
<1>1. /\ a.inv \in Inventories /\ it \in Stacks /\ a.left \in 0 .. amount /\ amount \in Nat
      /\ MaxStack \in Nat
  <2>1. a.inv \in Inventories /\ MaxStack \in Nat
    BY StackFacts DEF Poured
  <2> QED BY <2>1, Fields DEF Poured
<1>2. CASE k = 0 \/ (~IsAir(it) /\ it.mat # cur.mat)
  BY <1>2 DEF SpreadOver
<1>3. CASE ~(k = 0 \/ (~IsAir(it) /\ it.mat # cur.mat))
  <2>1. it.amount \in 0 .. MaxStack /\ MaxOf(it) \in 1 .. MaxStack /\ (IsAir(it) <=> it = Air)
    BY <1>1, StackFacts
  <2>2. k \in 1 .. a.left /\ it.amount + k \in 0 .. MaxStack /\ it.amount + k # 0 /\ k \in 0 .. MaxStack
    BY <1>1, <1>3, <2>1 DEF Least, Minus
  <2>3. SpreadOver(a, t, cur.mat) = [inv |-> Set(a.inv, t, x), left |-> a.left - k]
    BY <1>3 DEF SpreadOver
  <2> HIDE DEF k
  <2>4. k # 0
    BY <1>1, <2>2
  <2>5. /\ x \in Stacks /\ ~IsAir(x)
        /\ \A m : Held(x, m) = Held(it, m) + Of(cur.mat, k, m)
    <3>1. CASE IsAir(it)
      <4>1. x = New(cur.mat, k) /\ x \in Stacks /\ ~IsAir(x)
        BY <2>2, <2>4, <3>1, Amounts
      <4>2. ASSUME NEW m
            PROVE  Held(x, m) = Held(it, m) + Of(cur.mat, k, m)
        <5>1. Held(x, m) = (IF cur.mat = m THEN k ELSE 0)
          BY <2>2, <4>1, AmountHeld
        <5>2. Held(it, m) = 0
          BY <3>1 DEF Held, IsAir
        <5> QED BY <2>2, <5>1, <5>2 DEF Of
      <4> QED BY <4>1, <4>2
    <3>2. CASE ~IsAir(it)
      <4>1. x = Amount(it, it.amount + k) /\ it # Air /\ it.mat = cur.mat
        BY <1>3, <2>1, <2>4, <3>2
      <4>2. x \in Stacks /\ ~IsAir(x)
        BY <1>1, <2>2, <4>1, Amounts
      <4>3. ASSUME NEW m
            PROVE  Held(x, m) = Held(it, m) + Of(cur.mat, k, m)
        <5>1. /\ Held(x, m) = (IF it.mat = m THEN it.amount + k ELSE 0)
              /\ Held(it, m) = (IF it.mat = m THEN it.amount ELSE 0)
          BY <1>1, <2>2, <4>1, AmountHeld
        <5> QED BY <2>1, <2>2, <4>1, <5>1 DEF Of
      <4> QED BY <4>2, <4>3
    <3> QED BY <3>1, <3>2
  <2> HIDE DEF x
  <2>6. t \in Slots \ {}
    OBVIOUS
  <2>7. Poured([inv |-> Set(a.inv, t, x), left |-> a.left - k], v, amount, cur.mat, {})
    BY <1>1, <2>2, <2>5, <2>6, PourStep
  <2> QED BY <2>3, <2>7
<1> QED BY <1>2, <1>3

LEMMA SpreadConserves ==
  ASSUME NEW v \in Inventories, NEW amount \in 0 .. v.cursor.amount
  PROVE  /\ Conserves(Spread(v, amount), v)
         /\ \A m : Count(Back(Spread(v, amount).inv), m) <= Count(Back(v), m)
<1> DEFINE cur   == v.cursor
           start == [inv |-> v, left |-> amount]
           z     == <<v, amount, cur>>
           targets == v.drag.targets
           all   == FoldLeft(LAMBDA acc, t : SpreadOver(acc, t, cur.mat), start, targets)
           c     == Amount(cur, cur.amount - (amount - all.left))
           w     == [all.inv EXCEPT !.cursor = c]
<1>1. /\ cur \in Stacks /\ cur.amount \in 0 .. MaxStack /\ MaxStack \in Nat
      /\ targets \in Seq(Slots)
  <2>1. cur \in Stacks /\ v.drag \in Drags
    BY Fields
  <2> QED BY <2>1, StackFacts, DragFacts
<1>2. all = Spreading!OverSeq(start, targets, z)
  BY DEF FoldLeft, Spreading!OverSeq, MapThenFoldSet, Spreading!MapThenFoldSet,
         Max, Spreading!Largest, SpreadInto
<1>3. Spread(v, amount) = IF IsAir(cur) \/ all.left = amount THEN Kept(v) ELSE Changed(w)
  BY DEF Spread
<1> HIDE DEF all
<1>4. amount \in 0 .. MaxStack /\ amount \in Nat
  BY <1>1
<1>5. \A m : Count(v, m) \in Nat /\ Count(Back(v), m) \in Nat
  BY CountType, BackFacts
<1>6. CASE IsAir(cur) \/ all.left = amount
  BY <1>3, <1>5, <1>6, Results DEF Conserves
<1>7. CASE ~(IsAir(cur) \/ all.left = amount)
  <2>1. cur # Air
    BY <1>1, <1>7, StackFacts
  <2> HIDE DEF cur, targets
  <2>2. SpreadTo(start, 0, z)
    BY <1>4, PourStart DEF SpreadTo
  <2>3. \A a : \A n \in 1 .. Len(targets) :
          SpreadTo(a, n - 1, z) => SpreadTo(SpreadInto(a, targets[n], z), n, z)
    BY <1>1, <1>4, <2>1, ElementOfSeq, SpreadStep DEF SpreadTo, SpreadInto
  <2>4. Poured(all, v, amount, cur.mat, {})
    <3> HIDE DEF start, z
    <3>1. SpreadTo(Spreading!OverSeq(start, targets, z), Len(targets), z)
      BY <1>1, <2>2, <2>3, Spreading!OverSeqInduction
    <3> QED BY <1>2, <3>1 DEF SpreadTo, z
  <2> DEFINE k == cur.amount - (amount - all.left)
  <2>5. /\ all.inv \in Inventories /\ all.left \in 0 .. amount /\ all.inv.cursor = cur
        /\ all.inv.full = v.full /\ all.inv.drag = v.drag
    BY <2>4 DEF Poured, Same, cur
  <2>6. k \in 0 .. MaxStack /\ cur.amount = k + (amount - all.left)
    BY <1>1, <1>4, <2>5 DEF cur
  <2>7. c \in Stacks
    BY <1>1, <2>1, <2>6, StackFacts
  <2>8. /\ w \in Inventories /\ w.slots = all.inv.slots /\ w.cursor = c
        /\ w.full = v.full /\ w.drag = v.drag /\ BackSlots(w) = BackSlots(all.inv)
    <3> DEFINE y == all.inv
    <3>1. y \in Inventories /\ y.full = v.full /\ y.drag = v.drag
      BY <2>5
    <3> HIDE DEF y, c
    <3>2. LET u == [y EXCEPT !.cursor = c]
          IN  /\ u \in Inventories /\ u.slots = y.slots /\ u.cursor = c
              /\ u.full = y.full /\ u.drag = y.drag
      BY <2>7, <3>1, WithCursor
    <3> QED BY <3>1, <3>2 DEF y, BackSlots
  <2>9. ASSUME NEW m
        PROVE  Count(w, m) = Count(v, m) /\ Count(Back(w), m) <= Count(Back(v), m)
    <3>1. /\ Held(c, m) = Of(cur.mat, k, m) /\ Held(cur, m) = Of(cur.mat, cur.amount, m)
      BY <1>1, <2>1, <2>6, AmountHeld DEF Of
    <3> HIDE DEF w, c, k
    <3>2. /\ Count(w, m) = Count(all.inv, m) + Held(c, m) - Held(cur, m)
          /\ Count(Back(w), m) = Count(Back(all.inv), m) + Held(c, m) - Held(cur, m)
      BY <2>5, <2>8, CursorCount, BackCursor
    <3>3. /\ Count(all.inv, m) + Of(cur.mat, all.left, m) = Count(v, m) + Of(cur.mat, amount, m)
          /\ Count(Back(all.inv), m) + Of(cur.mat, all.left, m)
               <= Count(Back(v), m) + Of(cur.mat, amount, m)
          /\ Count(all.inv, m) \in Nat /\ Count(Back(all.inv), m) \in Nat
      BY <2>4, <2>5, CountType, BackFacts DEF Poured
    <3>4. /\ Of(cur.mat, all.left, m) \in Nat /\ Of(cur.mat, amount, m) \in Nat
          /\ Held(c, m) \in Nat /\ Held(cur, m) \in Nat
          /\ Held(cur, m) - Held(c, m) = Of(cur.mat, amount, m) - Of(cur.mat, all.left, m)
      BY <1>1, <1>4, <2>5, <2>6, <3>1 DEF Of
    <3>5. Count(w, m) = Count(v, m)
      BY <1>5, <3>2, <3>3, <3>4
    <3>6. Count(Back(w), m) <= Count(Back(v), m)
      BY <1>5, <3>2, <3>3, <3>4
    <3> QED BY <3>5, <3>6
  <2>10. Spread(v, amount) = Changed(w)
    BY <1>3, <1>7
  <2> HIDE DEF w
  <2>11. Spread(v, amount).inv = w /\ Sound(Spread(v, amount), v)
    BY <2>8, <2>10, Results
  <2> QED BY <2>8, <2>9, <2>11 DEF Conserves
<1> QED BY <1>6, <1>7

\* A slot that joins a drag joins it as it is.
LEMMA JoinFacts ==
  ASSUME NEW v \in Inventories, NEW s \in Slots
  PROVE  LET w == Join(v, s)
         IN  /\ w \in Inventories /\ w.slots = v.slots /\ w.cursor = v.cursor /\ w.full = v.full
             /\ w.dirty = v.dirty /\ BackSlots(w) = BackSlots(v)
<1> DEFINE d == v.drag
           i == v.slots[s]
           e == [targets |-> Append(d.targets, s), snapshot |-> Append(d.snapshot, i)]
           n == Len(d.targets)
           w == [v EXCEPT !.drag = e]
<1>1. d \in Drags /\ i \in Stacks
  BY Fields
<1>2. CASE Contains(d.targets, s)
  BY <1>2 DEF Join
<1>3. CASE ~Contains(d.targets, s)
  <2>1. Join(v, s) = w
    BY <1>3 DEF Join
  <2>2. /\ n \in Nat /\ d.targets \in Seq(Slots) /\ d.snapshot \in Seq(Stacks) /\ Len(d.snapshot) = n
        /\ \A j, k \in 1 .. n : d.targets[j] = d.targets[k] => j = k
    BY <1>1, DragFacts DEF Drags
  <2>3. \A j \in 1 .. n : d.targets[j] # s
    BY <1>3, <2>2 DEF Contains
  <2> HIDE DEF d, i
  <2>4. /\ e.targets \in Seq(Slots) /\ Len(e.targets) = n + 1 /\ e.targets[n + 1] = s
        /\ \A j \in 1 .. n : e.targets[j] = d.targets[j]
    BY <2>2, AppendProperties
  <2>5. /\ e.snapshot \in Seq(Stacks) /\ Len(e.snapshot) = n + 1 /\ e.snapshot[n + 1] = i
        /\ \A j \in 1 .. n : e.snapshot[j] = d.snapshot[j]
    BY <1>1, <2>2, AppendProperties
  <2> HIDE DEF n
  <2>6. \A j, k \in 1 .. n + 1 : e.targets[j] = e.targets[k] => j = k
    <3>1. \A j \in 1 .. n + 1 : j \in 1 .. n \/ j = n + 1
      BY <2>2
    <3> QED BY <2>2, <2>3, <2>4, <3>1
  <2>7. e \in Drags
    <3>1. e \in [targets : Seq(Slots), snapshot : Seq(Stacks)]
      BY <2>4, <2>5
    <3> HIDE DEF e
    <3> QED BY <2>4, <2>5, <2>6, <3>1 DEF Drags
  <2> HIDE DEF e
  <2>8. /\ w \in Inventories /\ w.slots = v.slots /\ w.cursor = v.cursor /\ w.full = v.full
        /\ w.dirty = v.dirty /\ w.drag = e
    BY <2>7, WithDrag
  <2>9. 1 .. n \subseteq 1 .. n + 1 /\ n + 1 \in 1 .. n + 1
    BY <2>2
  <2>10. ASSUME NEW t \in Slots
         PROVE  (IF t \in Targets(e) THEN e.snapshot[Place(e, t)] ELSE v.slots[t])
                  = (IF t \in Targets(d) THEN d.snapshot[Place(d, t)] ELSE v.slots[t])
    <3>1. CASE t \in Targets(d)
      <4>1. Place(d, t) \in 1 .. n /\ d.targets[Place(d, t)] = t
        BY <1>1, <3>1, DragFacts DEF n
      <4>2. Place(d, t) \in 1 .. Len(e.targets) /\ e.targets[Place(d, t)] = t
        BY <2>4, <2>9, <4>1
      <4>3. Place(e, t) = Place(d, t) /\ t \in Targets(e)
        BY <2>7, <4>2, DragFacts
      <4> QED BY <2>5, <3>1, <4>1, <4>3
    <3>2. CASE t = s
      <4>1. t \notin Targets(d)
        BY <2>3, <3>2 DEF Targets, n
      <4>2. n + 1 \in 1 .. Len(e.targets) /\ e.targets[n + 1] = t
        BY <2>4, <2>9, <3>2
      <4>3. Place(e, t) = n + 1 /\ t \in Targets(e)
        BY <2>7, <4>2, DragFacts
      <4> QED BY <2>5, <3>2, <4>1, <4>3 DEF i
    <3>3. CASE t \notin Targets(d) /\ t # s
      <4>1. \A j \in 1 .. n : e.targets[j] # t
        BY <2>4, <3>3 DEF Targets, n
      <4>2. \A j \in 1 .. n + 1 : j \in 1 .. n \/ j = n + 1
        BY <2>2
      <4>3. t \notin Targets(e)
        BY <2>4, <3>3, <4>1, <4>2 DEF Targets
      <4> QED BY <3>3, <4>3
    <3> QED BY <3>1, <3>2, <3>3
  <2>11. BackSlots(w) = BackSlots(v)
    BY <2>8, <2>10 DEF BackSlots, d
  <2> HIDE DEF w
  <2> QED BY <2>1, <2>8, <2>11
<1> QED BY <1>2, <1>3

\* Clicks of a drag conserve items; so does going back to what was before it, unless
\* the drag is over or another one began.
LEMMA QuickCraftConserves ==
  ASSUME NEW v \in Inventories, NEW s \in Slots, NEW b \in 0 .. 3
  PROVE  LET r == QuickCraft(v, s, b)
         IN  /\ Sound(r, v)
             /\ \A m : /\ Count(r.inv, m) = Count(v, m)
                       /\ \/ Count(Back(r.inv), m) <= Count(Back(v), m)
                          \/ Count(Back(r.inv), m) <= Count(v, m)
<1> DEFINE joined == Join(v, s)
           amount == IF b = 2 THEN Half(v.cursor.amount) ELSE v.cursor.amount
           spread == Spread(joined, amount)
           w      == spread.inv
<1>1. /\ v.cursor \in Stacks /\ v.slots \in [Slots -> Stacks]
      /\ \A m : Count(v, m) \in Nat /\ Count(Back(v), m) \in Nat
  BY Fields, CountType, BackFacts
<1>2. /\ joined \in Inventories /\ joined.slots = v.slots /\ joined.cursor = v.cursor
      /\ joined.full = v.full /\ joined.dirty = v.dirty /\ BackSlots(joined) = BackSlots(v)
  BY JoinFacts
<1> HIDE DEF joined
<1>3. amount \in 0 .. joined.cursor.amount
  <2>1. v.cursor.amount \in Nat
    BY <1>1, StackFacts
  <2> QED BY <1>2, <2>1 DEF Half
<1>4. Conserves(spread, joined) /\ \A m : Count(Back(w), m) <= Count(Back(joined), m)
  <2> HIDE DEF amount
  <2> QED BY <1>2, <1>3, SpreadConserves
<1> HIDE DEF spread
<1>5. ASSUME NEW m
      PROVE  /\ Count(w, m) = Count(v, m) /\ Count(Back(w), m) <= Count(Back(v), m)
  <2>1. /\ Count(joined, m) = Count(v, m) + Held(v.cursor, m) - Held(v.cursor, m)
        /\ Count(Back(joined), m) = Count(Back(v), m) + Held(v.cursor, m) - Held(v.cursor, m)
    BY <1>2, CursorCount, BackCursor
  <2>2. Held(v.cursor, m) \in Nat
    BY CountType
  <2>3. Count(w, m) = Count(joined, m) /\ Count(Back(w), m) <= Count(Back(joined), m)
    BY <1>4 DEF Conserves
  <2> QED BY <1>1, <2>1, <2>2, <2>3
<1>6. /\ Sound(spread, v) /\ w \in Inventories /\ w.full = v.full
  <2>1. /\ w \in Inventories /\ w.full = joined.full /\ (~spread.changed => Same(joined, w))
    BY <1>4 DEF Conserves, Sound
  <2>2. Same(joined, w) => Same(v, w)
    BY <1>2 DEF Same
  <2> QED BY <1>2, <2>1, <2>2 DEF Sound
<1>7. CASE b = 0 /\ IsAir(v.cursor)
  <2>1. QuickCraft(v, s, b) = Kept(v)
    BY <1>7 DEF QuickCraft
  <2> QED BY <1>1, <2>1, Results
<1>8. CASE b = 0 /\ ~IsAir(v.cursor)
  <2> DEFINE i == v.slots[s]
             d == [targets |-> <<s>>, snapshot |-> <<i>>]
             u == [v EXCEPT !.drag = d]
  <2>1. QuickCraft(v, s, b) = Changed(u)
    BY <1>8 DEF QuickCraft
  <2>2. i \in Stacks
    BY <1>1
  <2> HIDE DEF i
  <2>3. d \in Drags
    BY <2>2 DEF Drags
  <2>4. Targets(d) = {s} /\ Place(d, s) = 1 /\ d.snapshot[1] = i
    <3>1. Len(d.targets) = 1 /\ d.targets[1] = s /\ d.snapshot[1] = i
      OBVIOUS
    <3> HIDE DEF d
    <3>2. 1 .. Len(d.targets) = {1}
      BY <3>1
    <3> QED BY <3>1, <3>2 DEF Targets, Place
  <2> HIDE DEF d
  <2>5. /\ u \in Inventories /\ u.slots = v.slots /\ u.cursor = v.cursor /\ u.full = v.full
        /\ u.drag = d
    BY <2>3, WithDrag
  <2>6. BackSlots(u) = v.slots
    BY <1>1, <2>4, <2>5 DEF BackSlots, i
  <2> HIDE DEF u
  <2>7. ASSUME NEW m
        PROVE  Count(u, m) = Count(v, m) /\ Count(Back(u), m) <= Count(v, m)
    <3>1. Back(u) \in Inventories /\ Back(u).slots = v.slots /\ Back(u).cursor = v.cursor
      BY <2>5, <2>6, BackFacts
    <3>2. /\ Count(u, m) = Count(v, m) + Held(v.cursor, m) - Held(v.cursor, m)
          /\ Count(Back(u), m) = Count(v, m) + Held(v.cursor, m) - Held(v.cursor, m)
      BY <2>5, <3>1, CursorCount
    <3>3. Held(v.cursor, m) \in Nat
      BY CountType
    <3> QED BY <1>1, <3>2, <3>3
  <2>8. QuickCraft(v, s, b).inv = u /\ Sound(QuickCraft(v, s, b), v)
    BY <2>1, <2>5, Results
  <2> QED BY <2>7, <2>8
<1>9. CASE b \in {1, 2} /\ Dragging(v)
  <2>1. QuickCraft(v, s, b) = spread
    BY <1>9 DEF QuickCraft, spread, joined
  <2> QED BY <1>5, <1>6, <2>1
<1>10. CASE b = 3 /\ Dragging(v)
  <2> DEFINE u == [w EXCEPT !.drag = NoDrag]
  <2>1. QuickCraft(v, s, b) = [inv |-> u, changed |-> spread.changed]
    BY <1>10 DEF QuickCraft, spread, joined
  <2>2. /\ u \in Inventories /\ u.slots = w.slots /\ u.cursor = w.cursor /\ u.full = w.full
        /\ u.dirty = w.dirty /\ u.drag = NoDrag
    <3> HIDE DEF w
    <3> QED BY <1>6, NoDragFacts, WithDrag
  <2> HIDE DEF u
  <2>3. QuickCraft(v, s, b).inv = u /\ (QuickCraft(v, s, b).changed <=> spread.changed)
    BY <2>1
  <2>4. ASSUME NEW m
        PROVE  Count(u, m) = Count(v, m) /\ Count(Back(u), m) <= Count(v, m)
    <3>1. ~Dragging(u)
      BY <2>2, NoDragFacts DEF Dragging
    <3>2. Count(Back(u), m) = Count(u, m)
      BY <2>2, <3>1, BackIdle
    <3>3. Count(u, m) = Count(w, m) + Held(w.cursor, m) - Held(w.cursor, m)
      <4> HIDE DEF w
      <4> QED BY <1>6, <2>2, CursorCount
    <3>4. Held(w.cursor, m) \in Nat /\ Count(w, m) = Count(v, m)
      <4>1. w \in Inventories /\ Count(w, m) = Count(v, m)
        BY <1>5, <1>6
      <4> HIDE DEF w
      <4> QED BY <4>1, CountType
    <3> QED BY <1>1, <3>2, <3>3, <3>4
  <2>5. Same(v, w) => Same(v, u)
    BY <2>2 DEF Same
  <2>6. Sound(QuickCraft(v, s, b), v)
    BY <1>6, <2>2, <2>3, <2>5 DEF Sound
  <2> QED BY <2>3, <2>4, <2>6
<1>11. CASE b # 0 /\ ~Dragging(v)
  <2>1. QuickCraft(v, s, b) = Kept(v)
    BY <1>11 DEF QuickCraft
  <2> QED BY <1>1, <2>1, Results
<1> QED BY <1>7, <1>8, <1>9, <1>10, <1>11

PutBack(u, i, v) == Set(u, v.drag.targets[i], v.drag.snapshot[i])
PuttingBack(u, n, v) ==
  /\ u \in Inventories /\ u.cursor = v.cursor /\ u.full = v.full /\ u.drag = v.drag
  /\ v.dirty \subseteq u.dirty
  /\ \A t \in Slots \ u.dirty : u.slots[t] = v.slots[t] \/ u.slots[t] = Air
  /\ \A t \in Slots : u.slots[t] = IF t \in Targets(v.drag) /\ Place(v.drag, t) <= n
                                   THEN v.drag.snapshot[Place(v.drag, t)] ELSE v.slots[t]
Cancelling == INSTANCE Folding WITH Op <- PutBack, P <- PuttingBack

LEMMA PutBackStep ==
  ASSUME NEW v \in Inventories, NEW i \in 1 .. Len(v.drag.targets), NEW u, PuttingBack(u, i - 1, v)
  PROVE  PuttingBack(PutBack(u, i, v), i, v)
<1> DEFINE d == v.drag
           s == d.targets[i]
           x == d.snapshot[i]
           w == Set(u, s, x)
<1>1. /\ d \in Drags /\ v.slots \in [Slots -> Stacks] /\ Len(d.targets) \in Nat
      /\ s \in Slots /\ x \in Stacks /\ s \in Targets(d) /\ Place(d, s) = i
  <2>1. d \in Drags /\ v.slots \in [Slots -> Stacks]
    BY Fields
  <2> HIDE DEF d
  <2> QED BY <2>1, DragFacts DEF d
<1>2. /\ u \in Inventories /\ u.cursor = v.cursor /\ u.full = v.full /\ u.drag = d
      /\ v.dirty \subseteq u.dirty /\ u.slots \in [Slots -> Stacks]
      /\ \A t \in Slots \ u.dirty : u.slots[t] = v.slots[t] \/ u.slots[t] = Air
      /\ \A t \in Slots : u.slots[t] = IF t \in Targets(d) /\ Place(d, t) <= i - 1
                                       THEN d.snapshot[Place(d, t)] ELSE v.slots[t]
  BY Fields DEF PuttingBack
<1> HIDE DEF s, x, d
<1>3. /\ w \in Inventories /\ w.slots = [u.slots EXCEPT ![s] = x]
      /\ w.cursor = u.cursor /\ w.full = u.full /\ w.drag = u.drag
  BY <1>1, <1>2, SetType, SetSlots, SetRest
<1>4. w.dirty = (IF IsAir(x) THEN u.dirty ELSE u.dirty \cup {s})
  BY <1>1, <1>2, SetDirty
<1> HIDE DEF w
<1>5. \A t \in Slots \ w.dirty : w.slots[t] = v.slots[t] \/ w.slots[t] = Air
  <2> TAKE t \in Slots \ w.dirty
  <2>1. CASE t = s
    <3>1. IsAir(x)
      BY <1>4, <2>1
    <3> QED BY <1>1, <1>2, <1>3, <2>1, <3>1, StackFacts
  <2>2. CASE t # s
    <3>1. w.slots[t] = u.slots[t] /\ t \notin u.dirty
      BY <1>2, <1>3, <1>4, <2>2
    <3> QED BY <1>2, <3>1
  <2> QED BY <2>1, <2>2
<1>6. ASSUME NEW t \in Slots
      PROVE  w.slots[t] = IF t \in Targets(d) /\ Place(d, t) <= i
                          THEN d.snapshot[Place(d, t)] ELSE v.slots[t]
  <2>1. CASE t = s
    BY <1>1, <1>2, <1>3, <2>1 DEF x
  <2>2. CASE t # s
    <3>1. t \in Targets(d) => Place(d, t) \in 1 .. Len(d.targets) /\ Place(d, t) # i
      BY <1>1, <2>2, DragFacts DEF s
    <3>2. t \in Targets(d) => (Place(d, t) <= i <=> Place(d, t) <= i - 1)
      BY <1>1, <3>1 DEF d
    <3>3. w.slots[t] = u.slots[t]
      BY <1>2, <1>3, <2>2
    <3> QED BY <1>2, <3>2, <3>3
  <2> QED BY <2>1, <2>2
<1>7. v.dirty \subseteq w.dirty
  BY <1>2, <1>4
<1>8. PutBack(u, i, v) = w
  BY DEF PutBack, w, s, x, d
<1> QED BY <1>2, <1>3, <1>5, <1>6, <1>7, <1>8 DEF PuttingBack, d

\* Cancelling a drag goes back; a slot that it does not mark is unchanged or emptied.
LEMMA CancelFacts ==
  ASSUME NEW v \in Inventories
  PROVE  LET w == Cancel(v)
         IN  /\ w \in Inventories /\ w.cursor = v.cursor /\ w.full = v.full /\ ~Dragging(w)
             /\ v.dirty \subseteq w.dirty
             /\ \A t \in Slots \ w.dirty : w.slots[t] = v.slots[t] \/ w.slots[t] = Air
             /\ \A m : Count(w, m) = Count(Back(v), m)
<1> DEFINE d == v.drag
           n == Len(d.targets)
           seq == [i \in DOMAIN d.targets |-> i]
           u == FoldLeft(LAMBDA y, i : Set(y, d.targets[i], d.snapshot[i]), v, seq)
           w == [u EXCEPT !.drag = NoDrag]
<1>1. /\ d \in Drags /\ v.slots \in [Slots -> Stacks] /\ n \in Nat /\ DOMAIN d.targets = 1 .. n
  <2>1. d \in Drags /\ v.slots \in [Slots -> Stacks]
    BY Fields
  <2> HIDE DEF d
  <2>2. d.targets \in Seq(Slots)
    BY <2>1, DragFacts
  <2> QED BY <2>1, <2>2, LenProperties
<1>2. seq \in Seq(1 .. n) /\ Len(seq) = n /\ \A i \in 1 .. n : seq[i] = i
  <2> HIDE DEF n, d
  <2> QED BY <1>1, IsASeq, LenProperties
<1>3. u = Cancelling!OverSeq(v, seq, v)
  BY DEF FoldLeft, Cancelling!OverSeq, MapThenFoldSet, Cancelling!MapThenFoldSet,
         Max, Cancelling!Largest, PutBack
<1>4. Cancel(v) = w
  BY DEF Cancel
<1> HIDE DEF u, seq
<1>5. PuttingBack(v, 0, v)
  <2>1. \A t \in Targets(d) : ~(Place(d, t) <= 0)
    BY <1>1, DragFacts
  <2> QED BY <2>1 DEF PuttingBack
<1>6. \A y : \A i \in 1 .. Len(seq) : PuttingBack(y, i - 1, v) => PuttingBack(PutBack(y, seq[i], v), i, v)
  BY <1>2, PutBackStep
<1>7. PuttingBack(u, n, v)
  <2> HIDE DEF n, d
  <2>1. PuttingBack(Cancelling!OverSeq(v, seq, v), Len(seq), v)
    BY <1>2, <1>5, <1>6, Cancelling!OverSeqInduction
  <2> QED BY <1>2, <1>3, <2>1
<1>8. /\ u \in Inventories /\ u.cursor = v.cursor /\ u.full = v.full /\ v.dirty \subseteq u.dirty
      /\ \A t \in Slots \ u.dirty : u.slots[t] = v.slots[t] \/ u.slots[t] = Air
  BY <1>7 DEF PuttingBack
<1>9. u.slots = BackSlots(v)
  <2>1. u.slots \in [Slots -> Stacks]
    BY <1>8, Fields
  <2>2. \A t \in Targets(d) : Place(d, t) <= n
    BY <1>1, DragFacts
  <2>3. \A t \in Slots : u.slots[t] = IF t \in Targets(d) THEN d.snapshot[Place(d, t)] ELSE v.slots[t]
    BY <1>7, <2>2 DEF PuttingBack
  <2> QED BY <2>1, <2>3 DEF BackSlots
<1>10. /\ w \in Inventories /\ w.slots = u.slots /\ w.cursor = u.cursor /\ w.full = u.full
       /\ w.dirty = u.dirty /\ w.drag = NoDrag
  BY <1>8, NoDragFacts, WithDrag
<1> HIDE DEF w
<1>11. ASSUME NEW m
       PROVE  Count(w, m) = Count(Back(v), m)
  <2>1. Back(v) \in Inventories /\ Back(v).slots = BackSlots(v) /\ Back(v).cursor = v.cursor
    BY BackFacts
  <2>2. Count(w, m) = Count(Back(v), m) + Held(v.cursor, m) - Held(v.cursor, m)
    BY <1>8, <1>9, <1>10, <2>1, CursorCount
  <2>3. Count(Back(v), m) \in Nat /\ Held(v.cursor, m) \in Nat
    BY <2>1, CountType
  <2> QED BY <2>2, <2>3
<1>12. ~Dragging(w)
  BY <1>10, NoDragFacts DEF Dragging
<1> QED BY <1>4, <1>8, <1>10, <1>11, <1>12

----------------------------------------------------------------------------
(* Any click *)

LEMMA ButtonFacts ==
  /\ Modes = {"pickup", "quick_move", "swap", "clone", "throw", "quick_craft", "pickup_all"}
  /\ Buttons["pickup"] = {0, 1} /\ Buttons["throw"] = {0, 1}
  /\ Buttons["swap"] = 0 .. H - 1 /\ Buttons["quick_craft"] = 0 .. 3
  BY DEF Modes, Buttons

\* The items of m that a click clones.
Cloned(v, s, mode, m) ==
  IF mode = "clone" /\ Clone(v, s).changed THEN Held(v.slots[s], m) ELSE 0

\* A click that is not one of a drag keeps what there is to count, but for a throw
\* or a clone; those of a drag may end it or begin another.
LEMMA ClickedFacts ==
  ASSUME NEW v \in Inventories, NEW s \in Slots, NEW mode \in Modes, NEW b \in Buttons[mode],
         ~Interrupts(v, mode)
  PROVE  LET r == Clicked(v, s, b, mode)
         IN  /\ Sound(r, v)
             /\ \A m : mode \notin {"throw", "clone"} => Count(r.inv, m) = Count(v, m)
             /\ \A m : /\ Count(r.inv, m) <= Count(v, m) + Cloned(v, s, mode, m)
                       /\ \/ Count(Back(r.inv), m) <= Count(Back(v), m) + Cloned(v, s, mode, m)
                          \/ Count(Back(r.inv), m) <= Count(v, m) + Cloned(v, s, mode, m)
<1> DEFINE r == Clicked(v, s, b, mode)
<1>0. /\ \A m : Count(v, m) \in Nat /\ Count(Back(v), m) \in Nat
      /\ \A m : mode # "clone" => Cloned(v, s, mode, m) = 0
  BY CountType, BackFacts DEF Cloned
<1>1. ASSUME mode # "quick_craft", Sound(r, v), r.inv.drag = v.drag,
             \A m : Count(r.inv, m) <= Count(v, m) + Cloned(v, s, mode, m)
      PROVE  \A m : Count(Back(r.inv), m) <= Count(v, m) + Cloned(v, s, mode, m)
  <2> HIDE DEF r
  <2>1. r.inv \in Inventories /\ ~Dragging(r.inv)
    BY <1>1 DEF Sound, Interrupts, Dragging
  <2>2. \A m : Count(Back(r.inv), m) = Count(r.inv, m)
    <3> DEFINE w == r.inv
    <3>1. w \in Inventories /\ ~Dragging(w)
      BY <2>1
    <3> HIDE DEF w
    <3>2. \A m : Count(Back(w), m) = Count(w, m)
      BY <3>1, BackIdle
    <3> QED BY <3>2 DEF w
  <2> QED BY <1>1, <2>2
<1>2. ASSUME Conserves(r, v), mode \notin {"quick_craft", "throw", "clone"}
      PROVE  /\ Sound(r, v) /\ \A m : Count(r.inv, m) = Count(v, m)
             /\ \A m : /\ Count(r.inv, m) <= Count(v, m) + Cloned(v, s, mode, m)
                       /\ Count(Back(r.inv), m) <= Count(v, m) + Cloned(v, s, mode, m)
  <2> HIDE DEF r
  <2>1. Sound(r, v) /\ r.inv.drag = v.drag /\ \A m : Count(r.inv, m) = Count(v, m)
    BY <1>2 DEF Conserves
  <2>2. \A m : Count(r.inv, m) <= Count(v, m) + Cloned(v, s, mode, m)
    BY <1>0, <1>2, <2>1
  <2>3. \A m : Count(Back(r.inv), m) <= Count(v, m) + Cloned(v, s, mode, m)
    BY <1>1, <1>2, <2>1, <2>2 DEF r
  <2> QED BY <2>1, <2>2, <2>3
<1>3. CASE mode = "pickup"
  <2>1. r = Pickup(v, s, b) /\ b \in {0, 1}
    BY <1>3, ButtonFacts DEF Clicked
  <2>2. Conserves(r, v)
    BY <2>1, PickupConserves
  <2> HIDE DEF r
  <2> QED BY <1>2, <1>3, <2>2 DEF r
<1>4. CASE mode = "quick_move"
  <2>1. r = QuickMove(v, s)
    BY <1>4, ButtonFacts DEF Clicked
  <2>2. Conserves(r, v)
    BY <2>1, QuickMoveConserves
  <2> HIDE DEF r
  <2> QED BY <1>2, <1>4, <2>2 DEF r
<1>5. CASE mode = "swap"
  <2>1. r = Swap(v, s, b) /\ b \in 0 .. H - 1
    BY <1>5, ButtonFacts DEF Clicked
  <2>2. Conserves(r, v)
    BY <2>1, SwapConserves
  <2> HIDE DEF r
  <2> QED BY <1>2, <1>5, <2>2 DEF r
<1>6. CASE mode = "pickup_all"
  <2>1. r = PickupAll(v)
    BY <1>6, ButtonFacts DEF Clicked
  <2>2. Conserves(r, v)
    BY <2>1, PickupAllConserves
  <2> HIDE DEF r
  <2> QED BY <1>2, <1>6, <2>2 DEF r
<1>7. CASE mode = "clone"
  <2>1. r = Clone(v, s)
    BY <1>7, ButtonFacts DEF Clicked
  <2>2. /\ Sound(r, v) /\ r.inv.drag = v.drag
        /\ \A m : Count(r.inv, m) <= Count(v, m) + Cloned(v, s, mode, m)
    BY <1>7, <2>1, CloneAdds DEF Cloned
  <2> HIDE DEF r
  <2>3. \A m : Count(Back(r.inv), m) <= Count(v, m) + Cloned(v, s, mode, m)
    BY <1>1, <1>7, <2>2 DEF r
  <2> QED BY <1>7, <2>2, <2>3 DEF r
<1>8. CASE mode = "throw"
  <2>1. r = Throw(v, s, b) /\ b \in {0, 1}
    BY <1>8, ButtonFacts DEF Clicked
  <2>2. /\ Sound(r, v) /\ r.inv.drag = v.drag
        /\ \A m : Count(r.inv, m) <= Count(v, m)
    BY <2>1, ThrowTakes
  <2> HIDE DEF r
  <2>3. \A m : Count(r.inv, m) <= Count(v, m) + Cloned(v, s, mode, m)
    BY <1>0, <1>8, <2>2
  <2>4. \A m : Count(Back(r.inv), m) <= Count(v, m) + Cloned(v, s, mode, m)
    BY <1>1, <1>8, <2>2, <2>3 DEF r
  <2> QED BY <1>8, <2>2, <2>3, <2>4 DEF r
<1>9. CASE mode = "quick_craft"
  <2>1. r = QuickCraft(v, s, b) /\ b \in 0 .. 3
    BY <1>9, ButtonFacts DEF Clicked
  <2> HIDE DEF r
  <2>2. /\ Sound(r, v)
        /\ \A m : /\ Count(r.inv, m) = Count(v, m)
                  /\ \/ Count(Back(r.inv), m) <= Count(Back(v), m)
                     \/ Count(Back(r.inv), m) <= Count(v, m)
    BY <2>1, QuickCraftConserves
  <2>3. \A m : Cloned(v, s, mode, m) = 0
    BY <1>0, <1>9
  <2>4. \A m : Count(r.inv, m) <= Count(v, m) + Cloned(v, s, mode, m)
    BY <1>0, <2>2, <2>3
  <2>5. \A m : \/ Count(Back(r.inv), m) <= Count(Back(v), m) + Cloned(v, s, mode, m)
               \/ Count(Back(r.inv), m) <= Count(v, m) + Cloned(v, s, mode, m)
    BY <1>0, <2>2, <2>3
  <2> QED BY <2>2, <2>4, <2>5 DEF r
<1> QED BY <1>2, <1>3, <1>4, <1>5, <1>6, <1>7, <1>8, <1>9, ButtonFacts

\* A click in a window leaves an inventory that the client knows if it did before and
\* is not to be told all, with no more items than before or before the drag.
LEMMA ApplyClickFacts ==
  ASSUME NEW v \in Inventories, NEW w \in Slots, NEW mode \in Modes, NEW b \in Buttons[mode]
  PROVE  LET r == ApplyClick(v, w, b, mode)
             u == IF Interrupts(v, mode) THEN Cancel(v) ELSE v
         IN  /\ r \in Inventories /\ u \in Inventories /\ ToInternal(w) \in Slots
             /\ ~r.full => ~v.full /\ Same(v, r)
             /\ \A m : ~Interrupts(v, mode) /\ mode \notin {"throw", "clone"} => Count(r, m) = Count(v, m)
             /\ \A m : /\ \/ Count(r, m) <= Count(v, m) + Cloned(u, ToInternal(w), mode, m)
                          \/ Count(r, m) <= Count(Back(v), m) + Cloned(u, ToInternal(w), mode, m)
                       /\ \/ Count(Back(r), m) <= Count(v, m) + Cloned(u, ToInternal(w), mode, m)
                          \/ Count(Back(r), m) <= Count(Back(v), m) + Cloned(u, ToInternal(w), mode, m)
<1> DEFINE u == IF Interrupts(v, mode) THEN Cancel(v) ELSE v
           s == ToInternal(w)
           c == Clicked(u, s, b, mode)
           told == [c.inv EXCEPT !.full = TRUE]
           r == ApplyClick(v, w, b, mode)
<1>1. /\ u \in Inventories /\ ~Interrupts(u, mode) /\ s \in Slots
  BY CancelFacts, SlotNumbers DEF Interrupts
<1>2. \A m : \/ ~Interrupts(v, mode) /\ u = v
             \/ Interrupts(v, mode) /\ Count(u, m) = Count(Back(v), m) /\ Count(Back(u), m) = Count(u, m)
  <2>1. CASE Interrupts(v, mode)
    <3>1. u = Cancel(v)
      BY <2>1
    <3>2. ~Dragging(u) /\ \A m : Count(u, m) = Count(Back(v), m)
      BY <3>1, CancelFacts
    <3> HIDE DEF u
    <3>3. \A m : Count(Back(u), m) = Count(u, m)
      BY <1>1, <3>2, BackIdle
    <3> QED BY <2>1, <3>2, <3>3
  <2>2. CASE ~Interrupts(v, mode)
    BY <2>2
  <2> QED BY <2>1, <2>2
<1>3. r = IF c.changed \/ Interrupts(v, mode) THEN told ELSE c.inv
  BY DEF ApplyClick
<1>4. ~Interrupts(v, mode) => u = v
  OBVIOUS
<1> HIDE DEF u, s, r
<1>5. /\ Sound(c, u)
      /\ \A m : mode \notin {"throw", "clone"} => Count(c.inv, m) = Count(u, m)
      /\ \A m : /\ Count(c.inv, m) <= Count(u, m) + Cloned(u, s, mode, m)
                /\ \/ Count(Back(c.inv), m) <= Count(Back(u), m) + Cloned(u, s, mode, m)
                   \/ Count(Back(c.inv), m) <= Count(u, m) + Cloned(u, s, mode, m)
  BY <1>1, ClickedFacts
<1> HIDE DEF c
<1>6. c.inv \in Inventories /\ c.inv.full = u.full
  BY <1>5 DEF Sound
<1>7. /\ told \in Inventories /\ told.full = TRUE
      /\ \A m : Count(told, m) = Count(c.inv, m) /\ Count(Back(told), m) = Count(Back(c.inv), m)
  <2> DEFINE y == c.inv
             x == [y EXCEPT !.full = TRUE]
  <2>1. y \in Inventories
    BY <1>6
  <2> HIDE DEF y
  <2>2. /\ x \in Inventories /\ x.slots = y.slots /\ x.cursor = y.cursor /\ x.drag = y.drag
        /\ x.full = TRUE
    BY <2>1, WithFull
  <2> HIDE DEF x
  <2>3. BackSlots(x) = BackSlots(y)
    BY <2>2 DEF BackSlots
  <2>4. \A m : Count(x, m) = Count(y, m) + Held(y.cursor, m) - Held(y.cursor, m)
    BY <2>1, <2>2, CursorCount
  <2>5. \A m : Count(Back(x), m) = Count(Back(y), m) + Held(y.cursor, m) - Held(y.cursor, m)
    BY <2>1, <2>2, <2>3, BackCursor
  <2>6. \A m : Count(y, m) \in Nat /\ Count(Back(y), m) \in Nat /\ Held(y.cursor, m) \in Nat
    BY <2>1, CountType, BackFacts
  <2>7. \A m : Count(x, m) = Count(y, m) /\ Count(Back(x), m) = Count(Back(y), m)
    BY <2>4, <2>5, <2>6
  <2> QED BY <2>2, <2>7 DEF x, y
<1> HIDE DEF told
<1>8. /\ r \in Inventories /\ (~r.full => ~c.changed /\ ~Interrupts(v, mode) /\ r = c.inv)
      /\ \A m : Count(r, m) = Count(c.inv, m) /\ Count(Back(r), m) = Count(Back(c.inv), m)
  <2>1. CASE c.changed \/ Interrupts(v, mode)
    <3>1. r = told
      BY <1>3, <2>1
    <3> QED BY <1>7, <3>1
  <2>2. CASE ~(c.changed \/ Interrupts(v, mode))
    <3>1. r = c.inv
      BY <1>3, <2>2
    <3> QED BY <1>6, <2>2, <3>1
  <2> QED BY <2>1, <2>2
<1>9. ~r.full => ~v.full /\ Same(v, r)
  <2> SUFFICES ASSUME ~r.full PROVE ~v.full /\ Same(v, r)
    OBVIOUS
  <2>1. u = v /\ ~c.changed /\ r = c.inv
    BY <1>4, <1>8
  <2> QED BY <1>5, <2>1 DEF Sound
<1>10. ASSUME NEW m
       PROVE  /\ ~Interrupts(v, mode) /\ mode \notin {"throw", "clone"} => Count(r, m) = Count(v, m)
              /\ \/ Count(r, m) <= Count(v, m) + Cloned(u, s, mode, m)
                 \/ Count(r, m) <= Count(Back(v), m) + Cloned(u, s, mode, m)
              /\ \/ Count(Back(r), m) <= Count(v, m) + Cloned(u, s, mode, m)
                 \/ Count(Back(r), m) <= Count(Back(v), m) + Cloned(u, s, mode, m)
  BY <1>2, <1>4, <1>5, <1>8
<1> QED BY <1>1, <1>8, <1>9, <1>10 DEF u, s, r

----------------------------------------------------------------------------
(* Items that are given *)

FillInto(a, s, z) == Fill(a, s, z[3])
FillEmptyInto(a, s, z) == FillEmpty(a, s, z[3])
Filled(a, n, z) == Poured(a, z[1], z[2], z[3].mat, {})
Filling == INSTANCE Folding WITH Op <- FillInto, P <- Filled
FillingEmpty == INSTANCE Folding WITH Op <- FillEmptyInto, P <- Filled

LEMMA FillStep ==
  ASSUME NEW v \in Inventories, NEW amount \in Nat, NEW i \in Stacks, i # Air, NEW s \in Slots,
         NEW a, Poured(a, v, amount, i.mat, {})
  PROVE  Poured(Fill(a, s, i), v, amount, i.mat, {})
<1> DEFINE it == a.inv.slots[s]
           k  == Least(Minus(MaxOf(it), it.amount), a.left)
           x  == Amount(it, it.amount + k)
<1>1. a.inv \in Inventories /\ it \in Stacks /\ a.left \in Nat
  <2>1. a.inv \in Inventories
    BY DEF Poured
  <2> QED BY <2>1, Fields DEF Poured
<1>2. CASE IsAir(it) \/ it.mat # i.mat \/ it.comps # i.comps \/ k = 0
  BY <1>2 DEF Fill
<1>3. CASE ~(IsAir(it) \/ it.mat # i.mat \/ it.comps # i.comps \/ k = 0)
  <2>1. /\ it # Air /\ it.amount \in 0 .. MaxStack /\ MaxOf(it) \in 1 .. MaxStack /\ MaxStack \in Nat
        /\ it.mat = i.mat
    BY <1>1, <1>3, StackFacts
  <2>2. k \in 1 .. a.left /\ it.amount + k \in 1 .. MaxStack
    BY <1>1, <1>3, <2>1 DEF Least, Minus
  <2>3. Fill(a, s, i) = [inv |-> Set(a.inv, s, x), left |-> a.left - k]
    BY <1>3 DEF Fill
  <2> HIDE DEF k
  <2>4. it.amount + k \in 0 .. MaxStack /\ it.amount + k # 0
    BY <2>1, <2>2
  <2>5. x \in Stacks /\ ~IsAir(x)
    BY <1>1, <2>1, <2>4, Amounts
  <2>6. ASSUME NEW m
        PROVE  Held(x, m) = Held(it, m) + Of(i.mat, k, m)
    <3>1. /\ Held(x, m) = (IF it.mat = m THEN it.amount + k ELSE 0)
          /\ Held(it, m) = (IF it.mat = m THEN it.amount ELSE 0)
      BY <1>1, <2>1, <2>4, AmountHeld
    <3> QED BY <2>1, <2>2, <3>1 DEF Of
  <2> HIDE DEF x
  <2>7. s \in Slots \ {}
    OBVIOUS
  <2>8. Poured([inv |-> Set(a.inv, s, x), left |-> a.left - k], v, amount, i.mat, {})
    BY <1>1, <2>2, <2>5, <2>6, <2>7, PourStep
  <2> QED BY <2>3, <2>8
<1> QED BY <1>2, <1>3

LEMMA FillEmptyStep ==
  ASSUME NEW v \in Inventories, NEW amount \in Nat, NEW i \in Stacks, i # Air, NEW s \in Slots,
         NEW a, Poured(a, v, amount, i.mat, {})
  PROVE  Poured(FillEmpty(a, s, i), v, amount, i.mat, {})
<1> DEFINE it == a.inv.slots[s]
           k  == Least(MaxOf(i), a.left)
           x  == Amount(i, k)
<1>1. a.inv \in Inventories /\ it \in Stacks /\ a.left \in Nat
  <2>1. a.inv \in Inventories
    BY DEF Poured
  <2> QED BY <2>1, Fields DEF Poured
<1>2. CASE ~IsAir(it) \/ k = 0
  BY <1>2 DEF FillEmpty
<1>3. CASE ~(~IsAir(it) \/ k = 0)
  <2>1. MaxOf(i) \in 1 .. MaxStack /\ MaxStack \in Nat
    BY StackFacts
  <2>2. k \in 1 .. a.left /\ k \in 0 .. MaxStack /\ k # 0
    BY <1>1, <1>3, <2>1 DEF Least
  <2>3. FillEmpty(a, s, i) = [inv |-> Set(a.inv, s, x), left |-> a.left - k]
    BY <1>3 DEF FillEmpty
  <2> HIDE DEF k
  <2>4. x \in Stacks /\ ~IsAir(x)
    BY <2>2, Amounts
  <2>5. ASSUME NEW m
        PROVE  Held(x, m) = Held(it, m) + Of(i.mat, k, m)
    <3>1. Held(x, m) = (IF i.mat = m THEN k ELSE 0)
      BY <2>2, AmountHeld
    <3>2. Held(it, m) = 0
      BY <1>3 DEF Held, IsAir
    <3> QED BY <2>2, <3>1, <3>2 DEF Of
  <2> HIDE DEF x
  <2>6. s \in Slots \ {}
    OBVIOUS
  <2>7. Poured([inv |-> Set(a.inv, s, x), left |-> a.left - k], v, amount, i.mat, {})
    BY <1>1, <2>2, <2>4, <2>5, <2>6, PourStep
  <2> QED BY <2>3, <2>7
<1> QED BY <1>2, <1>3

\* add_item puts in what it does not return.
LEMMA AddItemFacts ==
  ASSUME NEW v \in Inventories, NEW i \in Stacks, i # Air
  PROVE  Poured(Added(v, i), v, i.amount, i.mat, {})
<1> DEFINE k  == i.amount
           start == [inv |-> v, left |-> k]
           a1    == FoldLeft(LAMBDA acc, s : Fill(acc, s, i), start, AllSlots)
           a2    == FoldLeft(LAMBDA acc, s : FillEmpty(acc, s, i), a1, AllSlots)
           z     == <<v, k, i>>
<1>0. Added(v, i) = a2
  BY DEF Added
<1>1. /\ AllSlots \in Seq(Slots) /\ k \in Nat
      /\ \A n \in 1 .. Len(AllSlots) : AllSlots[n] \in Slots
  <2>1. \A j \in 1 .. N : j - 1 \in Slots
    BY SlotNumbers DEF Slots
  <2>2. AllSlots \in Seq(Slots)
    BY <2>1, SlotNumbers, IsASeq DEF AllSlots
  <2>3. k \in 0 .. MaxStack /\ MaxStack \in Nat
    BY StackFacts
  <2> QED BY <2>2, <2>3, ElementOfSeq
<1>3. a1 = Filling!OverSeq(start, AllSlots, z)
  BY DEF FoldLeft, Filling!OverSeq, MapThenFoldSet, Filling!MapThenFoldSet,
         Max, Filling!Largest, FillInto
<1>4. a2 = FillingEmpty!OverSeq(a1, AllSlots, z)
  <2> HIDE DEF a1
  <2> QED BY DEF FoldLeft, FillingEmpty!OverSeq, MapThenFoldSet,
                 FillingEmpty!MapThenFoldSet, Max, FillingEmpty!Largest, FillEmptyInto
<1> HIDE DEF a1, a2, k
<1>5. Filled(start, 0, z)
  BY <1>1, PourStart DEF Filled
<1>6. /\ \A a : \A n \in 1 .. Len(AllSlots) : Filled(a, n - 1, z) => Filled(FillInto(a, AllSlots[n], z), n, z)
      /\ \A a : \A n \in 1 .. Len(AllSlots) :
           Filled(a, n - 1, z) => Filled(FillEmptyInto(a, AllSlots[n], z), n, z)
  BY <1>1, FillStep, FillEmptyStep DEF Filled, FillInto, FillEmptyInto
<1>7. \A a : \A n, l : Filled(a, n, z) => Filled(a, l, z)
  BY DEF Filled
<1> HIDE DEF start, z
<1>8. Filled(a1, Len(AllSlots), z)
  BY <1>1, <1>3, <1>5, <1>6, Filling!OverSeqInduction
<1>9. Filled(a1, 0, z)
  BY <1>7, <1>8
<1>10. Filled(a2, Len(AllSlots), z)
  BY <1>1, <1>4, <1>6, <1>9, FillingEmpty!OverSeqInduction
<1> QED BY <1>0, <1>10 DEF Filled, z, k

----------------------------------------------------------------------------
(* The invariant *)

\* No more items than were given, neither in the slots and the cursor as they are
\* nor as they would be if the drag were cancelled.
Accounted ==
  \A m \in Materials : Count(inv, m) <= given[m] /\ Count(Back(inv), m) <= given[m]

TypeInv == inv \in Inventories /\ given \in [Materials -> Nat]

\* Accounted is needed because a drag that is cancelled goes back to what the targets
\* held when they joined it, while the cursor keeps what it has left.
IInv == TypeInv /\ Accounted /\ ViewTrue

LEMMA InitIInv == IInit => IInv
<1> SUFFICES ASSUME IInit PROVE IInv
  OBVIOUS
<1>1. inv \in Inventories /\ ~Dragging(inv) /\ inv.full
  BY InitialAssumption, StackFacts, NoDragFacts DEF IInit, Inventories, Dragging
<1>2. \A m : Count(inv, m) \in Nat /\ Count(Back(inv), m) = Count(inv, m)
  BY <1>1, CountType, BackIdle
<1>3. given = [m \in Materials |-> Count(inv, m)]
  BY DEF IInit
<1> QED BY <1>1, <1>2, <1>3 DEF IInv, TypeInv, Accounted, ViewTrue

\* What the client sees stays true when all that changes is dirty or to be told.
LEMMA ViewKept ==
  ASSUME inv \in Inventories, ViewTrue, view' = view, carried' = carried, emptied => emptied',
         ~inv'.full => ~inv.full /\ Same(inv, inv')
  PROVE  ViewTrue'
<1> SUFFICES ASSUME ~inv'.full
             PROVE  /\ carried' = inv'.cursor
                    /\ ToInternal(Watched) \notin inv'.dirty =>
                         view' = Seen(inv') \/ (emptied' /\ IsAir(Seen(inv')))
  BY DEF ViewTrue
<1>1. ~inv.full /\ Same(inv, inv')
  OBVIOUS
<1>2. ToInternal(Watched) \in Slots
  BY SlotNumbers, WatchedAssumption
<1>3. ToInternal(Watched) \notin inv'.dirty =>
        ToInternal(Watched) \notin inv.dirty /\ Seen(inv') = Seen(inv)
  BY <1>1, <1>2 DEF Same, Seen
<1>4. carried = inv.cursor /\ inv'.cursor = inv.cursor
  BY <1>1 DEF ViewTrue, Same
<1> QED BY <1>1, <1>3, <1>4 DEF ViewTrue

\* Clicks: the clones are given.
LEMMA ClickIInv ==
  ASSUME IInv, NEW w \in Slots, NEW mode \in Modes, NEW b \in Buttons[mode], ClickContainer(w, b, mode)
  PROVE  IInv'
<1> DEFINE u == IF Interrupts(inv, mode) THEN Cancel(inv) ELSE inv
           s == ToInternal(w)
           i == u.slots[s]
           cloned == mode = "clone" /\ Clone(u, s).changed
<1>1. inv \in Inventories /\ given \in [Materials -> Nat] /\ Accounted /\ ViewTrue
  BY DEF IInv, TypeInv
<1>2. inv' = ApplyClick(inv, w, b, mode) /\ view' = view /\ carried' = carried /\ emptied' = emptied
  BY DEF ClickContainer
<1>3. given' = IF cloned THEN [given EXCEPT ![i.mat] = @ + i.amount] ELSE given
  BY DEF ClickContainer
<1> DEFINE r == ApplyClick(inv, w, b, mode)
<1>4. /\ r \in Inventories /\ u \in Inventories /\ s \in Slots
      /\ ~r.full => ~inv.full /\ Same(inv, r)
      /\ \A m : /\ \/ Count(r, m) <= Count(inv, m) + Cloned(u, s, mode, m)
                   \/ Count(r, m) <= Count(Back(inv), m) + Cloned(u, s, mode, m)
                /\ \/ Count(Back(r), m) <= Count(inv, m) + Cloned(u, s, mode, m)
                   \/ Count(Back(r), m) <= Count(Back(inv), m) + Cloned(u, s, mode, m)
  BY <1>1, ApplyClickFacts
<1> HIDE DEF u, s, r
<1>5. i \in Stacks
  BY <1>4, Fields
<1>6. /\ given' \in [Materials -> Nat]
      /\ \A m \in Materials : given'[m] = given[m] + Cloned(u, s, mode, m)
  <2>1. CASE cloned
    <3>1. ~IsAir(i)
      BY <2>1 DEF Clone, Kept
    <3>2. i.mat \in Materials /\ i.amount \in Nat
      BY <1>5, <3>1, StackFacts
    <3>3. \A m \in Materials : Cloned(u, s, mode, m) = IF i.mat = m THEN i.amount ELSE 0
      BY <2>1 DEF Cloned, Held
    <3> QED BY <1>1, <1>3, <2>1, <3>2, <3>3
  <2>2. CASE ~cloned
    BY <1>1, <1>3, <2>2 DEF Cloned
  <2> QED BY <2>1, <2>2
<1>7. Accounted'
  <2>1. ASSUME NEW m \in Materials
        PROVE  Count(r, m) <= given'[m] /\ Count(Back(r), m) <= given'[m]
    <3>1. /\ Count(inv, m) \in Nat /\ Count(Back(inv), m) \in Nat
          /\ Count(r, m) \in Nat /\ Count(Back(r), m) \in Nat
      BY <1>1, <1>4, CountType, BackFacts
    <3>2. Count(inv, m) <= given[m] /\ Count(Back(inv), m) <= given[m] /\ given[m] \in Nat
      BY <1>1 DEF Accounted
    <3>3. Cloned(u, s, mode, m) \in Nat
      BY <1>5, HeldType DEF Cloned
    <3> QED BY <1>4, <1>6, <3>1, <3>2, <3>3
  <2>2. inv' = r
    BY <1>2 DEF r
  <2> QED BY <2>1, <2>2 DEF Accounted
<1>8. ViewTrue'
  BY <1>1, <1>2, <1>4, ViewKept DEF r
<1> QED BY <1>2, <1>4, <1>6, <1>7, <1>8 DEF IInv, TypeInv, r

LEMMA CloseIInv ==
  ASSUME IInv, CloseContainer
  PROVE  IInv'
<1> DEFINE v == IF Dragging(inv) THEN Cancel(inv) ELSE inv
           dropped == [v EXCEPT !.cursor = Air]
           w == [dropped EXCEPT !.full = TRUE]
<1>1. inv \in Inventories /\ given \in [Materials -> Nat] /\ Accounted /\ ViewTrue
  BY DEF IInv, TypeInv
<1>2. /\ inv' = IF IsAir(v.cursor) THEN v ELSE w
      /\ emptied' = (emptied \/ (IsAir(Seen(v)) /\ ~IsAir(Seen(inv))))
      /\ view' = view /\ carried' = carried /\ given' = given
  BY DEF CloseContainer
<1>3. /\ v \in Inventories /\ v.cursor = inv.cursor /\ v.full = inv.full /\ ~Dragging(v)
      /\ inv.dirty \subseteq v.dirty
      /\ \A t \in Slots \ v.dirty : v.slots[t] = inv.slots[t] \/ v.slots[t] = Air
      /\ \A m : Count(v, m) = Count(inv, m) \/ Count(v, m) = Count(Back(inv), m)
  <2>1. CASE Dragging(inv)
    <3>1. v = Cancel(inv)
      BY <2>1
    <3> HIDE DEF v
    <3> QED BY <1>1, <3>1, CancelFacts
  <2>2. CASE ~Dragging(inv)
    BY <1>1, <2>2
  <2> QED BY <2>1, <2>2
<1> HIDE DEF v
<1>4. v.cursor \in Stacks /\ Air \in Stacks
  BY <1>3, Fields, StackFacts
<1>5. /\ w \in Inventories /\ w.full = TRUE /\ ~Dragging(w)
      /\ \A m : Count(w, m) <= Count(v, m)
  <2>1. /\ dropped \in Inventories /\ dropped.slots = v.slots /\ dropped.cursor = Air
        /\ dropped.drag = v.drag
    BY <1>3, <1>4, WithCursor
  <2> HIDE DEF dropped
  <2>2. /\ w \in Inventories /\ w.slots = dropped.slots /\ w.cursor = dropped.cursor
        /\ w.drag = dropped.drag /\ w.full = TRUE
    BY <2>1, WithFull
  <2> HIDE DEF w
  <2>3. \A m : Count(w, m) = Count(v, m) + Held(w.cursor, m) - Held(v.cursor, m)
    BY <1>3, <2>1, <2>2, CursorCount
  <2>4. \A m : Held(w.cursor, m) = 0 /\ Held(v.cursor, m) \in Nat /\ Count(v, m) \in Nat
    BY <1>3, <2>1, <2>2, CountType DEF Held, Air
  <2>5. \A m : Count(w, m) <= Count(v, m)
    BY <2>3, <2>4
  <2>6. ~Dragging(w)
    BY <1>3, <2>1, <2>2 DEF Dragging
  <2> QED BY <2>2, <2>5, <2>6
<1> HIDE DEF w
<1>6. inv' \in Inventories /\ ~Dragging(inv') /\ \A m : Count(inv', m) <= Count(v, m)
  <2>1. \A m : Count(v, m) \in Nat
    BY <1>3, CountType
  <2> QED BY <1>2, <1>3, <1>5, <2>1
<1>7. Accounted'
  <2>1. ASSUME NEW m \in Materials
        PROVE  Count(inv', m) <= given[m] /\ Count(Back(inv'), m) <= given[m]
    <3>1. Count(inv', m) \in Nat /\ Count(Back(inv'), m) = Count(inv', m)
      BY <1>6, CountType, BackIdle
    <3>2. Count(inv, m) \in Nat /\ Count(Back(inv), m) \in Nat /\ given[m] \in Nat
      BY <1>1, CountType, BackFacts
    <3>3. Count(inv, m) <= given[m] /\ Count(Back(inv), m) <= given[m]
      BY <1>1 DEF Accounted
    <3> QED BY <1>3, <1>6, <3>1, <3>2, <3>3
  <2> QED BY <1>2, <2>1 DEF Accounted
<1>8. ViewTrue'
  <2> SUFFICES ASSUME ~inv'.full
               PROVE  /\ carried' = inv'.cursor
                      /\ ToInternal(Watched) \notin inv'.dirty =>
                           view' = Seen(inv') \/ (emptied' /\ IsAir(Seen(inv')))
    BY DEF ViewTrue
  <2>1. inv' = v /\ ~inv.full
    BY <1>2, <1>3, <1>5
  <2>2. ToInternal(Watched) \in Slots
    BY SlotNumbers, WatchedAssumption
  <2>3. carried' = inv'.cursor
    BY <1>1, <1>2, <1>3, <2>1 DEF ViewTrue
  <2>4. ASSUME ToInternal(Watched) \notin v.dirty
        PROVE  view' = Seen(v) \/ (emptied' /\ IsAir(Seen(v)))
    <3>1. view = Seen(inv) \/ (emptied /\ IsAir(Seen(inv)))
      BY <1>1, <1>3, <2>1, <2>4 DEF ViewTrue
    <3>2. Seen(v) = Seen(inv) \/ Seen(v) = Air
      BY <1>3, <2>2, <2>4 DEF Seen
    <3>3. Seen(inv) \in Stacks /\ IsAir(Air) /\ (IsAir(Seen(inv)) => Seen(inv) = Air)
      <4>1. Seen(inv) \in Stacks
        BY <1>1, <2>2, Fields DEF Seen
      <4> QED BY <4>1, StackFacts
    <3> QED BY <1>2, <3>1, <3>2, <3>3
  <2> QED BY <2>1, <2>3, <2>4
<1> QED BY <1>1, <1>2, <1>6, <1>7, <1>8 DEF IInv, TypeInv

LEMMA ConsumeIInv ==
  ASSUME IInv, NEW s \in Slots, ConsumeItem(s)
  PROVE  IInv'
<1> DEFINE i == inv.slots[s]
           k == i.amount - 1
           x == Amount(i, k)
           w == Set(inv, s, x)
<1>1. inv \in Inventories /\ given \in [Materials -> Nat] /\ Accounted /\ ViewTrue
  BY DEF IInv, TypeInv
<1>2. /\ ~IsAir(i) /\ inv' = w
      /\ emptied' = (emptied \/ (s = ToInternal(Watched) /\ i.amount = 1))
      /\ view' = view /\ carried' = carried /\ given' = given
  BY DEF ConsumeItem
<1>3. i \in Stacks
  BY <1>1, Fields
<1>4. i # Air /\ i.amount \in 1 .. MaxStack /\ MaxStack \in Nat
  BY <1>2, <1>3, StackFacts
<1>5. k \in 0 .. MaxStack /\ k <= i.amount /\ (k = 0 <=> i.amount = 1)
  BY <1>4
<1> HIDE DEF k
<1>6. x \in Stacks /\ (IsAir(x) => k = 0)
  BY <1>3, <1>4, <1>5, Amounts
<1>7. \A m : /\ Held(x, m) \in Nat /\ Held(i, m) \in Nat /\ Held(x, m) <= Held(i, m)
  <2> TAKE m
  <2>1. /\ Held(x, m) = (IF i.mat = m THEN k ELSE 0)
        /\ Held(i, m) = (IF i.mat = m THEN i.amount ELSE 0)
    BY <1>3, <1>4, <1>5, AmountHeld
  <2> QED BY <1>4, <1>5, <2>1
<1> HIDE DEF x, i
<1>8. /\ w \in Inventories /\ w.slots = [inv.slots EXCEPT ![s] = x]
      /\ w.cursor = inv.cursor /\ w.full = inv.full /\ w.drag = inv.drag
  BY <1>1, <1>6, SetType, SetSlots, SetRest
<1>9. w.dirty = (IF IsAir(x) THEN inv.dirty ELSE inv.dirty \cup {s})
  BY <1>1, <1>6, SetDirty
<1>10. Accounted'
  <2>1. ASSUME NEW m \in Materials
        PROVE  Count(w, m) <= given[m] /\ Count(Back(w), m) <= given[m]
    <3>1. Count(inv, m) \in Nat /\ Count(w, m) = Count(inv, m) + Held(x, m) - Held(i, m)
      BY <1>1, <1>6, SetCount DEF i
    <3>2. /\ Count(Back(inv), m) \in Nat
          /\ Count(Back(w), m) = IF s \in Targets(inv.drag) THEN Count(Back(inv), m)
                                 ELSE Count(Back(inv), m) + Held(x, m) - Held(i, m)
      BY <1>1, <1>6, BackSet DEF i
    <3>3. Count(inv, m) <= given[m] /\ Count(Back(inv), m) <= given[m] /\ given[m] \in Nat
      BY <1>1 DEF Accounted
    <3> HIDE DEF w
    <3> QED BY <1>7, <3>1, <3>2, <3>3
  <2> QED BY <1>2, <2>1 DEF Accounted
<1> HIDE DEF w
<1>11. ViewTrue'
  <2> SUFFICES ASSUME ~w.full
               PROVE  /\ carried = w.cursor
                      /\ ToInternal(Watched) \notin w.dirty =>
                           view = Seen(w) \/ (emptied' /\ IsAir(Seen(w)))
    BY <1>2 DEF ViewTrue
  <2>1. carried = w.cursor
    BY <1>1, <1>8 DEF ViewTrue
  <2>2. ASSUME ToInternal(Watched) \notin w.dirty
        PROVE  view = Seen(w) \/ (emptied' /\ IsAir(Seen(w)))
    <3>1. view = Seen(inv) \/ (emptied /\ IsAir(Seen(inv)))
      BY <1>1, <1>8, <1>9, <2>2 DEF ViewTrue
    <3>2. ToInternal(Watched) \in Slots /\ inv.slots \in [Slots -> Stacks]
      BY <1>1, SlotNumbers, WatchedAssumption, Fields
    <3>3. CASE s = ToInternal(Watched)
      <4>1. IsAir(x) /\ i.amount = 1
        BY <1>5, <1>6, <1>9, <2>2, <3>3
      <4>2. Seen(w) = x
        BY <1>8, <3>2, <3>3 DEF Seen
      <4> QED BY <1>2, <3>3, <4>1, <4>2
    <3>4. CASE s # ToInternal(Watched)
      <4>1. Seen(w) = Seen(inv)
        BY <1>8, <3>2, <3>4 DEF Seen
      <4> QED BY <1>2, <3>1, <4>1
    <3> QED BY <3>3, <3>4
  <2> QED BY <2>1, <2>2
<1> QED BY <1>1, <1>2, <1>8, <1>10, <1>11 DEF IInv, TypeInv

LEMMA AddIInv ==
  ASSUME IInv, NEW m \in Materials, NEW k \in 1 .. MaxStack, AddItem(m, k)
  PROVE  IInv'
<1> DEFINE i == [mat |-> m, amount |-> k, comps |-> Limit[m] # MaxStack]
           a == Added(inv, i)
<1>1. inv \in Inventories /\ given \in [Materials -> Nat] /\ Accounted /\ ViewTrue
  BY DEF IInv, TypeInv
<1>2. /\ inv' = a.inv /\ given' = [given EXCEPT ![m] = @ + (k - a.left)]
      /\ view' = view /\ carried' = carried /\ emptied' = emptied
  BY DEF AddItem
<1>3. i.mat = m /\ i.amount = k /\ i \in Stacks /\ i # Air /\ k \in Nat
  <2>1. PICK c \in BOOLEAN : c = (Limit[m] # MaxStack)
    OBVIOUS
  <2>2. i = [mat |-> m, amount |-> k, comps |-> c]
    BY <2>1
  <2>3. MaxStack \in Nat /\ k # 0
    BY StackFacts
  <2> QED BY <2>2, <2>3 DEF Stacks, Air
<1> HIDE DEF i
<1>4. Poured(a, inv, k, m, {})
  <2>1. Poured(a, inv, i.amount, i.mat, {})
    BY <1>1, <1>3, AddItemFacts
  <2> QED BY <1>3, <2>1
<1> HIDE DEF a
<1>5. /\ a.inv \in Inventories /\ a.left \in 0 .. k /\ Same(inv, a.inv)
      /\ \A n : Count(a.inv, n) + Of(m, a.left, n) = Count(inv, n) + Of(m, k, n)
      /\ \A n : Count(Back(a.inv), n) + Of(m, a.left, n) <= Count(Back(inv), n) + Of(m, k, n)
  BY <1>4 DEF Poured
<1>6. /\ given' \in [Materials -> Nat]
      /\ \A n \in Materials : given'[n] + Of(m, a.left, n) = given[n] + Of(m, k, n)
  <2>1. k - a.left \in Nat
    BY <1>3, <1>5
  <2>2. given' \in [Materials -> Nat]
    BY <1>1, <1>2, <2>1
  <2>3. ASSUME NEW n \in Materials
        PROVE  given'[n] + Of(m, a.left, n) = given[n] + Of(m, k, n)
    <3>1. given[n] \in Nat /\ given'[n] = IF n = m THEN given[n] + (k - a.left) ELSE given[n]
      BY <1>1, <1>2
    <3> QED BY <1>3, <1>5, <3>1 DEF Of
  <2> QED BY <2>2, <2>3
<1>7. Accounted'
  <2>1. ASSUME NEW n \in Materials
        PROVE  Count(a.inv, n) <= given'[n] /\ Count(Back(a.inv), n) <= given'[n]
    <3>1. /\ Count(inv, n) \in Nat /\ Count(Back(inv), n) \in Nat
          /\ Count(a.inv, n) \in Nat /\ Count(Back(a.inv), n) \in Nat
      BY <1>1, <1>5, CountType, BackFacts
    <3>2. Count(inv, n) <= given[n] /\ Count(Back(inv), n) <= given[n]
      BY <1>1 DEF Accounted
    <3>3. Of(m, a.left, n) \in Nat /\ Of(m, k, n) \in Nat /\ given[n] \in Nat /\ given'[n] \in Nat
      BY <1>1, <1>3, <1>5, <1>6 DEF Of
    <3>4. given'[n] + Of(m, a.left, n) = given[n] + Of(m, k, n)
      BY <1>6
    <3>5. Count(a.inv, n) <= given'[n]
      BY <1>5, <3>1, <3>2, <3>3, <3>4
    <3>6. Count(Back(a.inv), n) <= given'[n]
      BY <1>5, <3>1, <3>2, <3>3, <3>4
    <3> QED BY <3>5, <3>6
  <2> QED BY <1>2, <2>1 DEF Accounted
<1>8. ViewTrue'
  <2>1. ~inv'.full => ~inv.full /\ Same(inv, inv')
    BY <1>2, <1>5 DEF Same
  <2> QED BY <1>1, <1>2, <2>1, ViewKept
<1> QED BY <1>2, <1>5, <1>6, <1>7, <1>8 DEF IInv, TypeInv

LEMMA SyncIInv ==
  ASSUME IInv, InventorySync
  PROVE  IInv'
<1> DEFINE told == [inv EXCEPT !.full = FALSE]
           w == [told EXCEPT !.dirty = {}]
           s == ToInternal(Watched)
<1>1. inv \in Inventories /\ given \in [Materials -> Nat] /\ Accounted /\ ViewTrue
  BY DEF IInv, TypeInv
<1>2. /\ inv' = w /\ given' = given
      /\ view' = IF inv.full THEN Seen(inv)
                 ELSE IF \E t \in inv.dirty : ToWindow(t) = Watched
                 THEN inv.slots[CHOOSE t \in inv.dirty : ToWindow(t) = Watched]
                 ELSE view
      /\ carried' = (IF inv.full THEN inv.cursor ELSE carried)
      /\ emptied' = (emptied /\ ~inv.full)
  BY DEF InventorySync
<1>3. /\ w \in Inventories /\ w.slots = inv.slots /\ w.cursor = inv.cursor /\ w.full = FALSE
      /\ w.dirty = {} /\ w.drag = inv.drag
  <2>1. /\ told \in Inventories /\ told.slots = inv.slots /\ told.cursor = inv.cursor
        /\ told.full = FALSE /\ told.drag = inv.drag
    BY <1>1, WithFull
  <2> HIDE DEF told
  <2>2. /\ w \in Inventories /\ w.slots = told.slots /\ w.cursor = told.cursor
        /\ w.full = told.full /\ w.dirty = {} /\ w.drag = told.drag
    BY <2>1, WithClean
  <2> HIDE DEF w
  <2> QED BY <2>1, <2>2
<1> HIDE DEF w
<1>4. Accounted'
  <2>1. BackSlots(w) = BackSlots(inv)
    BY <1>3 DEF BackSlots
  <2>2. ASSUME NEW m \in Materials
        PROVE  Count(w, m) <= given[m] /\ Count(Back(w), m) <= given[m]
    <3>1. /\ Count(w, m) = Count(inv, m) + Held(inv.cursor, m) - Held(inv.cursor, m)
          /\ Count(Back(w), m) = Count(Back(inv), m) + Held(inv.cursor, m) - Held(inv.cursor, m)
      BY <1>1, <1>3, <2>1, CursorCount, BackCursor
    <3>2. Count(inv, m) \in Nat /\ Count(Back(inv), m) \in Nat /\ Held(inv.cursor, m) \in Nat
      BY <1>1, CountType, BackFacts
    <3>3. Count(inv, m) <= given[m] /\ Count(Back(inv), m) <= given[m]
      BY <1>1 DEF Accounted
    <3> QED BY <3>1, <3>2, <3>3
  <2> QED BY <1>2, <2>2 DEF Accounted
<1>5. ViewTrue'
  <2>1. s \in Slots /\ ToWindow(s) = Watched /\ inv.dirty \in SUBSET Slots
    BY <1>1, SlotNumbers, WatchedAssumption, Fields
  <2>2. carried' = inv.cursor
    BY <1>1, <1>2 DEF ViewTrue
  <2>3. view' = Seen(w) \/ (emptied' /\ IsAir(Seen(w)))
    <3>1. Seen(w) = Seen(inv)
      BY <1>3 DEF Seen
    <3>2. CASE inv.full
      BY <1>2, <3>1, <3>2
    <3>3. CASE ~inv.full /\ \E t \in inv.dirty : ToWindow(t) = Watched
      <4> DEFINE t == CHOOSE t \in inv.dirty : ToWindow(t) = Watched
      <4>1. t \in inv.dirty /\ ToWindow(t) = Watched
        BY <3>3
      <4>2. view' = inv.slots[t]
        BY <1>2, <3>3
      <4> HIDE DEF t
      <4>3. t = s
        BY <2>1, <4>1, SlotNumbers
      <4> QED BY <3>1, <4>2, <4>3 DEF Seen
    <3>4. CASE ~inv.full /\ ~\E t \in inv.dirty : ToWindow(t) = Watched
      <4>1. s \notin inv.dirty /\ view' = view /\ (emptied' <=> emptied)
        BY <1>2, <2>1, <3>4
      <4>2. view = Seen(inv) \/ (emptied /\ IsAir(Seen(inv)))
        BY <1>1, <3>4, <4>1 DEF ViewTrue
      <4> QED BY <3>1, <4>1, <4>2
    <3> QED BY <3>2, <3>3, <3>4
  <2> QED BY <1>2, <1>3, <2>2, <2>3 DEF ViewTrue
<1> QED BY <1>1, <1>2, <1>3, <1>4, <1>5 DEF IInv, TypeInv

LEMMA NextIInv == IInv /\ [INext]_ivars => IInv'
<1> SUFFICES ASSUME IInv, [INext]_ivars PROVE IInv'
  OBVIOUS
<1>1. ASSUME NEW w \in Slots, NEW mode \in Modes, NEW b \in Buttons[mode], ClickContainer(w, b, mode)
      PROVE  IInv'
  BY <1>1, ClickIInv
<1>2. CASE CloseContainer
  BY <1>2, CloseIInv
<1>3. ASSUME NEW s \in Slots, ConsumeItem(s)
      PROVE  IInv'
  BY <1>3, ConsumeIInv
<1>4. ASSUME NEW m \in Materials, AddItem(m, 1)
      PROVE  IInv'
  <2>1. 1 \in 1 .. MaxStack
    BY StackFacts
  <2> QED BY <1>4, <2>1, AddIInv
<1>5. CASE InventorySync
  BY <1>5, SyncIInv
<1>6. CASE UNCHANGED ivars
  BY <1>6 DEF IInv, TypeInv, Accounted, ViewTrue, ivars
<1> QED BY <1>1, <1>2, <1>3, <1>4, <1>5, <1>6 DEF INext, ClientStep, ServerStep

----------------------------------------------------------------------------
(* Theorems *)

\* The inventory always consists of stacks of one to MAX_STACK items in the slots that
\* there are, the cursor and the targets of a drag (core/component/inventory.rs), and
\* what a drag would go back to is accounted for too.
THEOREM InventoryInvariant == ISpec => []IInv
  BY InitIInv, NextIInv, PTL DEF ISpec

\* Whatever is clicked, dragged, cancelled or used up meanwhile, there are never more
\* items of a material than came in (apply_click).
THEOREM NothingFromNothing == ISpec => []NoneFromNothing
<1>1. IInv => NoneFromNothing
  BY DEF IInv, Accounted, NoneFromNothing
<1> QED BY <1>1, InventoryInvariant, PTL

\* In every state the inventory gets into, a click that does not throw, clone or
\* interrupt a drag keeps the items of every material (apply_click).
THEOREM ClicksConserveItems == ISpec => []ItemsConserved
<1>1. IInv => ItemsConserved
  <2> SUFFICES ASSUME IInv, NEW w \in Slots, NEW mode \in Modes \ {"throw", "clone"},
                      ~Interrupts(inv, mode), NEW b \in Buttons[mode], NEW m \in Materials
               PROVE  Count(ApplyClick(inv, w, b, mode), m) = Count(inv, m)
    BY DEF ItemsConserved
  <2>1. inv \in Inventories
    BY DEF IInv, TypeInv
  <2> QED BY <2>1, ApplyClickFacts
<1> QED BY <1>1, InventoryInvariant, PTL

\* What is not waiting to be told is what the client sees in the slot it looks at,
\* unless the server emptied it (inventory_sync, set).
THEOREM ClientSeesInventory == ISpec => []ViewTrue
<1>1. IInv => ViewTrue
  BY DEF IInv
<1> QED BY <1>1, InventoryInvariant, PTL
===============================================================================

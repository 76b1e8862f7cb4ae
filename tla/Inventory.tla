----------------------------- MODULE Inventory ------------------------------
(***************************************************************************)
(* The inventory of a player (core/component/inventory.rs), as the packets *)
(* of its client (system/network_receive.rs) and the application change    *)
(* it, and what inventory_sync tells the client of it.                     *)
(*                                                                         *)
(* An operation is an operator from an inventory to an inventory; a click  *)
(* also says whether it changed anything.  The items of a stack are a      *)
(* material and an amount; what can differ between stacks of a material is *)
(* whether they still have the components the material comes with, of      *)
(* which only max_stack_size matters here.  The held slot, the equipment   *)
(* packets and QuickCraftState.stage, which nothing reads, are left out;   *)
(* so is crafting_result_pending, where ClickContainer stores a copy of    *)
(* the stack in the result slot on a drag click there (network_receive.rs: *)
(* 715-723): nothing in the repository takes it out.                       *)
(* What the client was told is followed in one window slot.                *)
(***************************************************************************)
EXTENDS Naturals, Sequences, FiniteSetsExt, SequencesExt

CONSTANTS
  Materials,   \* materials of items
  MaxStack,    \* MAX_STACK, the limit of a stack without components (64)
  Limit,       \* Limit[m]: the max_stack_size component m comes with
  H,           \* slots of the hotbar; as many for crafting and armour (9)
  B,           \* slots of the backpack (27)
  Initial,     \* what the player logs in with
  Creative,    \* the player is in creative mode
  Watched,     \* the window slot the client looks at
  MaxGiven,    \* bound: items that come into the inventory
  MaxOps       \* bound: operations since the player logged in

ASSUME StackAssumption ==
  /\ MaxStack \in Nat \ {0}
  /\ Limit \in [Materials -> 1 .. MaxStack]
ASSUME SlotAssumption == H \in Nat \ {0} /\ B \in Nat

VARIABLES
  inv,      \* PlayerInventory
  view,     \* what the client was last told of the slot it looks at
  carried,  \* and of its cursor
  emptied,  \* the server emptied the slot since it last told of all slots
  given,    \* given[m]: items of m that ever came into the inventory
  ops       \* operations so far

ivars == <<inv, view, carried, emptied, given, ops>>

----------------------------------------------------------------------------
(* Slots: hotbar, backpack, crafting and armour, offhand *)

N == 2 * H + B + 1
Slots == 0 .. N - 1
AllSlots   == [i \in 1 .. N |-> i - 1]
HotbarSeq  == [i \in 1 .. H |-> i - 1]
BackpackSeq == [i \in 1 .. B |-> H + i - 1]

\* convert_minestom_slot_to_window_slot and its inverse: in the window the
\* hotbar comes behind the backpack.
ToWindow(s) ==
  IF s < H THEN s + H + B
  ELSE IF s < H + B THEN s
  ELSE IF s < N - 1 THEN s - (H + B)
  ELSE s

ToInternal(w) ==
  IF w < H THEN w + H + B
  ELSE IF w < H + B THEN w
  ELSE IF w < N - 1 THEN w - (H + B)
  ELSE N - 1

----------------------------------------------------------------------------
(* Stacks *)

Air == [mat |-> "air", amount |-> 0, comps |-> FALSE]
Stacks == {Air} \cup [mat : Materials, amount : 1 .. MaxStack, comps : BOOLEAN]

ASSUME InitialAssumption == Initial \in [Slots -> Stacks]
ASSUME WatchedAssumption == Watched \in Slots

IsAir(i) == i.amount = 0
New(m, k) == IF k = 0 THEN Air ELSE [mat |-> m, amount |-> k, comps |-> FALSE]
Amount(i, k) == IF k = 0 THEN Air ELSE [i EXCEPT !.amount = k]
MaxOf(i) == IF i.comps THEN Limit[i.mat] ELSE MaxStack
Least(a, b) == IF a < b THEN a ELSE b
Minus(a, b) == IF a < b THEN 0 ELSE a - b
Half(k) == (k + 1) \div 2

\* Mutant: a written slot is not dirty.
SetClean(v, s, i) == [v EXCEPT !.slots[s] = i]

\* Writing AIR does not make a slot dirty.
Set(v, s, i) ==
  LET written == [v EXCEPT !.slots[s] = i]
  IN  IF IsAir(i) THEN written ELSE [written EXCEPT !.dirty = @ \cup {s}]

----------------------------------------------------------------------------
(* Clicks: the inventory after the click, and whether it changed *)

Kept(v)    == [inv |-> v, changed |-> FALSE]
Changed(v) == [inv |-> v, changed |-> TRUE]

\* Mutant: what does not fit is dropped.
PickupOverflow(v, s, b) ==
  LET slot == v.slots[s]
      cur  == v.cursor
      put  == Least(Minus(MaxOf(slot), slot.amount), cur.amount)
  IN  IF IsAir(cur) \/ (~IsAir(slot) /\ slot.mat # cur.mat) \/ put = 0 THEN Kept(v)
      ELSE Changed(Set([v EXCEPT !.cursor = Air], s, New(cur.mat, slot.amount + put)))

\* What is put down loses its components.
Pickup(v, s, b) ==
  LET slot == v.slots[s]
      cur  == v.cursor
      take == IF b = 0 THEN slot.amount ELSE Half(slot.amount)
      put  == Least(Minus(MaxOf(slot), slot.amount), IF b = 0 THEN cur.amount ELSE 1)
  IN  CASE IsAir(cur) /\ IsAir(slot) -> Kept(v)
        [] IsAir(cur) /\ ~IsAir(slot) ->
             Changed(Set([v EXCEPT !.cursor = IF b = 0 THEN slot ELSE New(slot.mat, take)],
                         s, Amount(slot, slot.amount - take)))
        [] ~IsAir(cur) /\ (IsAir(slot) \/ slot.mat = cur.mat) ->
             IF put = 0 THEN Kept(v)
             ELSE Changed(Set([v EXCEPT !.cursor = Amount(cur, cur.amount - put)],
                              s, New(cur.mat, slot.amount + put)))
        [] OTHER -> Changed(Set([v EXCEPT !.cursor = slot], s, cur))

\* One slot of a shift click takes what it can of the left items like i; the
\* limit is that of the stack that moves.
Merge(acc, d, i) ==
  LET it == acc.inv.slots[d]
      k  == Least(Minus(MaxOf(i), it.amount), acc.left)
  IN  IF IsAir(it) \/ it.mat # i.mat \/ k = 0 THEN acc
      ELSE [inv |-> Set(acc.inv, d, Amount(it, it.amount + k)), left |-> acc.left - k]

QuickMove(v, s) ==
  LET i      == v.slots[s]
      dest   == IF s < H THEN BackpackSeq ELSE HotbarSeq
      merged == FoldLeft(LAMBDA acc, d : Merge(acc, d, i), [inv |-> v, left |-> i.amount], dest)
      free   == SelectInSeq(dest, LAMBDA d : IsAir(merged.inv.slots[d]))
      placed == IF merged.left = 0 \/ free = 0 THEN merged
                ELSE [inv |-> Set(merged.inv, dest[free], New(i.mat, merged.left)), left |-> 0]
      moved  == Set(placed.inv, s, New(i.mat, placed.left))
  IN  IF IsAir(i) \/ s >= H + B THEN Kept(v)
      ELSE IF placed.left = i.amount THEN Kept(moved) ELSE Changed(moved)

Swap(v, s, b) ==
  Changed(Set(Set(v, s, v.slots[b]), b, v.slots[s]))

Throw(v, s, b) ==
  LET i == v.slots[s]
  IN  IF IsAir(i) THEN Kept(v)
      ELSE Changed(Set(v, s, Amount(i, IF b = 0 THEN 0 ELSE i.amount - 1)))

Collect(acc, s, m) ==
  LET it == acc.inv.slots[s]
      k  == Least(it.amount, acc.space)
  IN  IF it.mat # m \/ k = 0 THEN acc
      ELSE [inv |-> Set(acc.inv, s, Amount(it, it.amount - k)), space |-> acc.space - k]

PickupAll(v) ==
  LET cur   == v.cursor
      space == Minus(MaxOf(cur), cur.amount)
      all   == FoldLeft(LAMBDA acc, s : Collect(acc, s, cur.mat),
                        [inv |-> v, space |-> space], AllSlots)
  IN  IF IsAir(cur) \/ all.space = space THEN Kept(v)
      ELSE Changed([all.inv EXCEPT !.cursor = Amount(cur, MaxOf(cur) - all.space)])

Clone(v, s) ==
  IF ~Creative \/ IsAir(v.slots[s]) THEN Kept(v)
  ELSE Changed([v EXCEPT !.cursor = v.slots[s]])

----------------------------------------------------------------------------
(* Dragging: targets with what was in them when they joined the drag *)

NoDrag == [targets |-> <<>>, snapshot |-> <<>>]
Dragging(v) == v.drag.targets # <<>>

Join(v, s) ==
  IF Contains(v.drag.targets, s) THEN v
  ELSE [v EXCEPT !.drag = [targets  |-> Append(@.targets, s),
                           snapshot |-> Append(@.snapshot, v.slots[s])]]

SpreadOver(acc, t, m) ==
  LET it == acc.inv.slots[t]
      k  == Least(Minus(MaxOf(it), it.amount), acc.left)
  IN  IF k = 0 \/ (~IsAir(it) /\ it.mat # m) THEN acc
      ELSE [inv  |-> Set(acc.inv, t, IF IsAir(it) THEN New(m, k)
                                     ELSE Amount(it, it.amount + k)),
            left |-> acc.left - k]

Spread(v, amount) ==
  LET cur  == v.cursor
      all  == FoldLeft(LAMBDA acc, t : SpreadOver(acc, t, cur.mat),
                       [inv |-> v, left |-> amount], v.drag.targets)
  IN  IF IsAir(cur) \/ all.left = amount THEN Kept(v)
      ELSE Changed([all.inv EXCEPT !.cursor = Amount(cur, cur.amount - (amount - all.left))])

\* Stage 0 starts a drag, 1 spreads all, 2 half, 3 all and ends it.
QuickCraft(v, s, b) ==
  LET joined == Join(v, s)
      spread == Spread(joined, IF b = 2 THEN Half(v.cursor.amount) ELSE v.cursor.amount)
  IN  CASE b = 0 ->
             IF IsAir(v.cursor) THEN Kept(v)
             ELSE Changed([v EXCEPT !.drag = [targets |-> <<s>>, snapshot |-> <<v.slots[s]>>]])
        [] b \in {1, 2} /\ Dragging(v) -> spread
        [] b = 3 /\ Dragging(v) ->
             [inv |-> [spread.inv EXCEPT !.drag = NoDrag], changed |-> spread.changed]
        [] OTHER -> Kept(v)

\* Mutant: the cursor gets back the stack of the first target too.
CancelRefunds(v) ==
  [FoldLeft(LAMBDA u, i : Set(u, v.drag.targets[i], v.drag.snapshot[i]),
            v, [i \in DOMAIN v.drag.targets |-> i])
     EXCEPT !.drag = NoDrag,
            !.cursor = IF IsAir(@) THEN v.slots[v.drag.targets[1]] ELSE @]

\* The targets go back to what they held; the cursor keeps what it has left.
Cancel(v) ==
  [FoldLeft(LAMBDA u, i : Set(u, v.drag.targets[i], v.drag.snapshot[i]),
            v, [i \in DOMAIN v.drag.targets |-> i])
     EXCEPT !.drag = NoDrag]

\* The buttons each mode knows; with any other nothing changes.
Buttons ==
  [pickup |-> {0, 1}, quick_move |-> {0}, swap |-> 0 .. H - 1, clone |-> {0},
   throw |-> {0, 1}, quick_craft |-> 0 .. 3, pickup_all |-> {0}]
Modes == DOMAIN Buttons

Clicked(v, s, b, mode) ==
  CASE mode = "pickup"      -> Pickup(v, s, b)
    [] mode = "quick_move"  -> QuickMove(v, s)
    [] mode = "swap"        -> Swap(v, s, b)
    [] mode = "clone"       -> Clone(v, s)
    [] mode = "throw"       -> Throw(v, s, b)
    [] mode = "quick_craft" -> QuickCraft(v, s, b)
    [] mode = "pickup_all"  -> PickupAll(v)

\* Any other click cancels a drag first.
Interrupts(v, mode) == mode # "quick_craft" /\ Dragging(v)

ApplyClick(v, w, b, mode) ==
  LET v1 == IF Interrupts(v, mode) THEN Cancel(v) ELSE v
      r  == Clicked(v1, ToInternal(w), b, mode)
  IN  IF r.changed \/ Interrupts(v, mode) THEN [r.inv EXCEPT !.full = TRUE] ELSE r.inv

----------------------------------------------------------------------------

Total(g) == MapThenSumSet(LAMBDA m : g[m], Materials)

Count(v, m) ==
  MapThenSumSet(LAMBDA s : IF v.slots[s].mat = m THEN v.slots[s].amount ELSE 0, Slots)
    + IF v.cursor.mat = m THEN v.cursor.amount ELSE 0

Seen(v) == v.slots[ToInternal(Watched)]

IInit ==
  /\ inv = [slots |-> Initial, cursor |-> Air, dirty |-> {}, full |-> TRUE, drag |-> NoDrag]
  /\ view = Air /\ carried = Air
  /\ emptied = FALSE
  /\ given = [m \in Materials |-> Count(inv, m)]
  /\ ops = 0

\* ClickContainer; clones count as given.
ClickContainer(w, b, mode) ==
  /\ inv' = ApplyClick(inv, w, b, mode)
  /\ given' = LET v == IF Interrupts(inv, mode) THEN Cancel(inv) ELSE inv
                  i == v.slots[ToInternal(w)]
              IN  IF mode = "clone" /\ Clone(v, ToInternal(w)).changed
                  THEN [given EXCEPT ![i.mat] = @ + i.amount] ELSE given
  /\ Total(given') <= MaxGiven
  /\ UNCHANGED <<view, carried, emptied>>

\* CloseContainer: drop_cursor, which tells the client of all only when the
\* cursor held something.
CloseContainer ==
  /\ LET v == IF Dragging(inv) THEN Cancel(inv) ELSE inv
         dropped == [v EXCEPT !.cursor = Air]
     IN  /\ inv' = IF IsAir(v.cursor) THEN v ELSE [dropped EXCEPT !.full = TRUE]
         /\ emptied' = (emptied \/ (IsAir(Seen(v)) /\ ~IsAir(Seen(inv))))
  /\ UNCHANGED <<view, carried, given>>

\* consume_item, called by the application.
ConsumeItem(s) ==
  /\ ~IsAir(inv.slots[s])
  /\ inv' = Set(inv, s, Amount(inv.slots[s], inv.slots[s].amount - 1))
  /\ emptied' = (emptied \/ (s = ToInternal(Watched) /\ inv.slots[s].amount = 1))
  /\ UNCHANGED <<view, carried, given>>

\* Stacks that are alike, components included, are filled up in slot order,
\* then empty slots; acc.left are the items of i not yet placed.
Fill(acc, s, i) ==
  LET it == acc.inv.slots[s]
      k  == Least(Minus(MaxOf(it), it.amount), acc.left)
  IN  IF IsAir(it) \/ it.mat # i.mat \/ it.comps # i.comps \/ k = 0 THEN acc
      ELSE [inv |-> Set(acc.inv, s, Amount(it, it.amount + k)), left |-> acc.left - k]

FillEmpty(acc, s, i) ==
  LET k == Least(MaxOf(i), acc.left)
  IN  IF ~IsAir(acc.inv.slots[s]) \/ k = 0 THEN acc
      ELSE [inv |-> Set(acc.inv, s, Amount(i, k)), left |-> acc.left - k]

\* What add_item makes of v, and what it returns.
Added(v, i) ==
  LET filled == FoldLeft(LAMBDA acc, s : Fill(acc, s, i), [inv |-> v, left |-> i.amount], AllSlots)
  IN  FoldLeft(LAMBDA acc, s : FillEmpty(acc, s, i), filled, AllSlots)

\* add_item, called by the application; the rest is returned to it.
AddItem(m, k) ==
  /\ LET added == Added(inv, [mat |-> m, amount |-> k, comps |-> Limit[m] # MaxStack])
     IN  /\ inv' = added.inv
         /\ given' = [given EXCEPT ![m] = @ + (k - added.left)]
  /\ Total(given') <= MaxGiven
  /\ UNCHANGED <<view, carried, emptied>>

\* inventory_sync: WindowItems with the cursor when all is to be told, then
\* SetSlot for each dirty slot.
InventorySync ==
  /\ view' = IF inv.full THEN Seen(inv)
             ELSE IF \E s \in inv.dirty : ToWindow(s) = Watched
             THEN inv.slots[CHOOSE s \in inv.dirty : ToWindow(s) = Watched]
             ELSE view
  /\ carried' = IF inv.full THEN inv.cursor ELSE carried
  /\ emptied' = (emptied /\ ~inv.full)
  /\ LET told == [inv EXCEPT !.full = FALSE] IN inv' = [told EXCEPT !.dirty = {}]
  /\ UNCHANGED <<given>>

ClientStep ==
  \/ \E w \in Slots, mode \in Modes : \E b \in Buttons[mode] : ClickContainer(w, b, mode)
  \/ CloseContainer

ServerStep ==
  \/ \E s \in Slots : ConsumeItem(s)
  \/ \E m \in Materials : AddItem(m, 1)
  \/ InventorySync

INext == ops < MaxOps /\ ops' = ops + 1 /\ (ClientStep \/ ServerStep)

ISpec == IInit /\ [][INext]_ivars

----------------------------------------------------------------------------
(* Properties *)

\* Items do not come out of nothing: whatever is clicked, dragged, cancelled
\* or used up meanwhile, there are never more than came in (apply_click:
\* the server recomputes every click so that nothing can be made up).
NoneFromNothing == \A m \in Materials : Count(inv, m) <= given[m]

\* A click neither makes nor destroys items unless it throws them, clones
\* them or interrupts a drag, in every state the inventory gets into.
ItemsConserved ==
  \A w \in Slots, mode \in Modes \ {"throw", "clone"} : ~Interrupts(inv, mode) =>
    \A b \in Buttons[mode], m \in Materials :
      Count(ApplyClick(inv, w, b, mode), m) = Count(inv, m)

\* What is not waiting to be told is what the client sees, with one exception:
\* a slot the server emptied goes on showing what was in it.
ViewTrue ==
  ~inv.full =>
    /\ carried = inv.cursor
    /\ ToInternal(Watched) \notin inv.dirty =>
         view = Seen(inv) \/ (emptied /\ IsAir(Seen(inv)))
=============================================================================

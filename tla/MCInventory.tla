---------------------------- MODULE MCInventory -----------------------------
(* Five slots: hotbar, two of the backpack, one for crafting, offhand.      *)
EXTENDS Inventory, TLC

Mats == {"stone", "pearl"}
Limits == "stone" :> 2 @@ "pearl" :> 1
Start == [s \in Slots |-> CASE s = 0 -> [mat |-> "pearl", amount |-> 1, comps |-> TRUE]
                            [] s = 1 -> [mat |-> "stone", amount |-> 2, comps |-> FALSE]
                            [] OTHER -> Air]
=============================================================================

------------------------------ MODULE MCWorlds ------------------------------
(* Two worlds with one archetype, one aligned and one sparse component.     *)
EXTENDS Worlds, TLC

CONSTANTS w1, w2, a1, aligned, sparse, v1

TwoWorlds == {w1, w2}
Archetype == {a1}
Both == {aligned, sparse}
OnlySparse == {sparse}
ValueSet == {v1}

Symmetry == Permutations(TwoWorlds)
=============================================================================

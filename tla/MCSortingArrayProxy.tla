------------------------ MODULE MCSortingArrayProxy ------------------------
(* Three items, so that an item has neighbours on both sides. *)
EXTENDS SortingArrayProxy, TLC

ItemSymmetry == Permutations(Items)
=============================================================================

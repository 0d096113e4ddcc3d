----------------------------- MODULE MCMenuRead -----------------------------
(* Instances of MenuRead for TLC: symmetric sets of model values. *)
EXTENDS MenuRead, TLC

Symmetry == Permutations(Category) \cup Permutations(Dish)

=============================================================================

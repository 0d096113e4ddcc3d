---------------------------- MODULE MCDishPages ----------------------------
(* Instances of DishPages for TLC: symmetric sets of model values. *)
EXTENDS DishPages, TLC

Symmetry == Permutations(Walk) \cup Permutations(Dish)

=============================================================================

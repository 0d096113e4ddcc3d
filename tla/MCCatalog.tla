----------------------------- MODULE MCCatalog -----------------------------
(* Instances of Catalog for TLC: symmetric sets of model values. *)
EXTENDS Catalog, TLC

\* Requests, users and ids are interchangeable.
Symmetry ==
    Permutations(Request) \cup Permutations(User) \cup Permutations(Restaurant)
        \cup Permutations(Category) \cup Permutations(Dish)

=============================================================================

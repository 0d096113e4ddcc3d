---------------------------- MODULE MCAnalytics ----------------------------
(* An instance of Analytics for TLC: days of two ticks, and the ranges that   *)
(* tell their boundaries apart.                                               *)
EXTENDS Analytics, TLC

\* The first day; everything up to it; everything after it.
Ranges == {<<0, 0>>, <<None, 0>>, <<2, None>>}

Symmetry ==
    Permutations(Request) \cup Permutations(Scan) \cup Permutations(Restaurant)
        \cup Permutations(Agent)

=============================================================================

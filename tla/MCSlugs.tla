------------------------------ MODULE MCSlugs ------------------------------
(* An instance of Slugs for TLC: two names that have one base, and a third    *)
(* whose base is the second candidate of these two.  It checks liveness, so   *)
(* that no set is declared symmetric.                                         *)
EXTENDS Slugs, TLC

CONSTANTS casa, casaBang, casa1

MCBase == [n \in Name |-> IF n = casa1 THEN <<7, 1>> ELSE <<7>>]

=============================================================================

----------------------------- MODULE MCReorders -----------------------------
(* An instance of Reorders for TLC.  It checks liveness, so that no set is    *)
(* declared symmetric.                                                        *)
EXTENDS Reorders, TLC

=============================================================================

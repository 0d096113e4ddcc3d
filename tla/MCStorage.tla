----------------------------- MODULE MCStorage -----------------------------
(* An instance of Storage for TLC.  It checks liveness, so that no set is     *)
(* declared symmetric.                                                        *)
EXTENDS Storage, TLC

=============================================================================

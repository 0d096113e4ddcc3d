---------------------------- MODULE MCMenuCache ----------------------------
(* An instance of MenuCache for TLC.  It checks liveness, so that no set is   *)
(* declared symmetric.                                                        *)
EXTENDS MenuCache, TLC

=============================================================================

----------------------------- MODULE MCUploads -----------------------------
(* An instance of Uploads for TLC.  It checks liveness, so that no set is     *)
(* declared symmetric.                                                        *)
EXTENDS Uploads, TLC

=============================================================================

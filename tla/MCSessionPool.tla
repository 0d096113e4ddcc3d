--------------------------- MODULE MCSessionPool ---------------------------
(* An instance of SessionPool for TLC.  It checks liveness, so that no set is *)
(* declared symmetric.                                                        *)
EXTENDS SessionPool, TLC

=============================================================================

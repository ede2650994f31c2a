--------------------------- MODULE MCTransportRecovery ---------------------------
(* Instances of TransportRecovery for TLC. *)
EXTENDS TransportRecovery
=============================================================================

--------------------------- MODULE MCConsumerAck ---------------------------
(* ConsumerAck with the values the runs give its constants. *)
EXTENDS ConsumerAck
=============================================================================

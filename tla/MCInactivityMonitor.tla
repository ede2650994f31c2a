--------------------------- MODULE MCInactivityMonitor ---------------------------
(* The instance of InactivityMonitor for TLC: it has no parameters. *)
EXTENDS InactivityMonitor
=============================================================================

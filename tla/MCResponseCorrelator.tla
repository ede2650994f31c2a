------------------------- MODULE MCResponseCorrelator -------------------------
(* Instances of ResponseCorrelator for TLC. *)
EXTENDS ResponseCorrelator

CONSTANTS t1, t2, c1, c2

MCThreads == {t1, t2}
MCClosers == {c1, c2}
=============================================================================

-------------------------- MODULE MCSessionDispatch --------------------------
(* Instances of SessionDispatch for TLC. *)
EXTENDS SessionDispatch

\* Every message for one consumer, or alternating between two.
OneConsumer(k) == [m \in Messages |-> k]
Alternating(k1, k2) == [m \in Messages |-> IF m % 2 = 1 THEN k1 ELSE k2]

CONSTANTS k1, k2
DestOne == OneConsumer(k1)
DestTwo == Alternating(k1, k2)
=============================================================================

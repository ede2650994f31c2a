------------------------------ MODULE MCFailover ------------------------------
(* Instances of Failover for TLC. *)
EXTENDS Failover

\* The commands of each run, by id, and what a RemoveInfo among them undoes.
ReplayCommands    == <<"message", "info", "remove">>
ReplayTargets     == [c \in {3} |-> 2]
OneRequest        == <<"request">>
NoTargets         == <<>>
=============================================================================

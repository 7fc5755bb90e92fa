------------------------------- MODULE MCWsSubs -------------------------------
(* WsSubs on one private channel shared by two watchers, a and b. *)
EXTENDS WsSubs

CONSTANTS K1, a, b
SharedChannel == [s \in {a, b} |-> K1]
NoWorkers == [t \in {} |-> a]
=============================================================================

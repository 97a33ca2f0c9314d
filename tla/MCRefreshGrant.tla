--------------------------- MODULE MCRefreshGrant ---------------------------
(* Instances of RefreshGrant for TLC. *)
EXTENDS RefreshGrant

CONSTANTS c1, c2, c3

OneMachine == [c \in Callers |-> "m1"]
=============================================================================

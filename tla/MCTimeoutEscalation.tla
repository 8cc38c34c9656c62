------------------------ MODULE MCTimeoutEscalation ------------------------
(***************************************************************************)
(* Instances of TimeoutEscalation for TLC: equal base timeouts, as in the  *)
(* default configuration of a node.                                        *)
(***************************************************************************)
EXTENDS TimeoutEscalation

UnitTimeouts == [stage \in Stages |-> 1]
=============================================================================

----------------------------- MODULE MCNetwork -----------------------------
(***************************************************************************)
(* Instances of Network for TLC: the topologies of RunSimulation on a few  *)
(* validators.                                                             *)
(***************************************************************************)
EXTENDS Network

Four == 0 .. 3
AllButThree == 0 .. 2

\* A validator leaves, or finds new neighbours.
TwoLists == {{}, {0, 2}}
=============================================================================

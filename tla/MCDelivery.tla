----------------------------- MODULE MCDelivery -----------------------------
(***************************************************************************)
(* Instances of Delivery for TLC: two validators and two workers, and so   *)
(* few places in the channels that each of them fills up.                  *)
(***************************************************************************)
EXTENDS Delivery

Two == 0 .. 1
TwoWorkers == 1 .. 2
Zero == {0}
None == {}
=============================================================================

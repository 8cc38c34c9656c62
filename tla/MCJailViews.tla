---------------------------- MODULE MCJailViews ----------------------------
(***************************************************************************)
(* An instance of JailViews for TLC: four validators, two of which may     *)
(* double-sign.                                                            *)
(***************************************************************************)
EXTENDS JailViews

Four == 0 .. 3
TwoSuspects == {0, 2}
=============================================================================

----------------------------- MODULE MCReports -----------------------------
(***************************************************************************)
(* Instances of Reports for TLC: those of Consensus, and validators of     *)
(* which the first casts two prevotes and withholds its precommits.        *)
(***************************************************************************)
EXTENDS MCConsensus, Reports, ConsensusRefinement

ZeroMisbehaves ==
  [v \in Validators |-> IF v = 0 THEN {"EquivocatePrevote", "SilentPrecommit"} ELSE {}]
=============================================================================

----------------------------- MODULE MCConsensus -----------------------------
(***************************************************************************)
(* Instances of Consensus for TLC: the validators, powers, timeouts and    *)
(* switches the configurations choose from, and the schedules some of them *)
(* are restricted to.                                                      *)
(***************************************************************************)
EXTENDS Consensus

Two == 0 .. 1
Three == 0 .. 2

UnitPower == [v \in Validators |-> 1]
TwoTwoOne == [v \in Validators |-> IF v = 2 THEN 1 ELSE 2]

AllHonest == [v \in Validators |-> {}]
LastDoubleSigns ==
  [v \in Validators |-> IF \A w \in Validators : w <= v
                        THEN {"EquivocatePrevote", "EquivocatePrecommit"} ELSE {}]
OneDoublePrevotes == [v \in Validators |-> IF v = 1 THEN {"EquivocatePrevote"} ELSE {}]

UnitTimeouts == [stage \in Stages |-> 1]
LongPrecommit == [stage \in Stages |-> IF stage = "precommit" THEN 2 ELSE 1]
-----------------------------------------------------------------------------
\* In round 1 the proposal of validator 2 wins the prevotes and precommits of 0
\* and 2, and validator 1 hears no vote and times out.
OneMissesFirstRound ==
  /\ \A m \in Sent("Prevote") \cup Sent("Precommit") :
       m.round = 1 => (m.block = Nil <=> m.from = 1)
  /\ node[1].currentRound = 1 =>
       /\ ~node[1].committed
       /\ \A v \in {0, 2} : /\ node[1].prevoteByVoter[v] = NoVote
                            /\ node[1].precommitByVoter[v] = NoVote

\* In round 1 validators 1 and 2 prevote for the proposal of 2, validator 0 hears no
\* vote and times out.
ZeroMissesFirstRound ==
  /\ \A m \in Sent("Prevote") : m.round = 1 => (m.block = Nil <=> m.from = 0)
  /\ node[0].currentRound = 1 =>
       \A v \in {1, 2} : /\ node[0].prevoteByVoter[v] = NoVote
                         /\ node[0].precommitByVoter[v] = NoVote

\* Validator 0 takes no part in later rounds.
ZeroStaysInFirstRound == node[0].currentRound <= 1

\* The second height is only entered.
SecondHeightBegins == \A m \in Sent("Prevote") : m.height = 1

\* Validator 2 enters round 2 only when validator 0 has committed.
TwoFollowsCommit == node[2].currentRound = 2 => node[0].committed

\* Round 2 has no proposal: its proposer, validator 0, has committed or does not get there.
SecondRoundIsNil ==
  \A m \in Sent("Prevote") \cup Sent("Precommit") : m.round = 2 => m.block = Nil

\* Validator 1 takes no vote, commit or evidence from the others.
OneIsDeaf ==
  /\ ~node[1].committed /\ ~node[1].jailed
  /\ \A v \in {0, 2} : /\ node[1].prevoteByVoter[v] = NoVote
                       /\ node[1].precommitByVoter[v] = NoVote

\* Its links are cut no earlier than the first commit of the others.
CutOffLate == Disconnected(1) => node[0].committed \/ node[2].committed
=============================================================================

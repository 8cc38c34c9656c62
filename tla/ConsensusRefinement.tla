------------------------ MODULE ConsensusRefinement ------------------------
(***************************************************************************)
(* Consensus implements LockedVoting: the votes are those the messages     *)
(* sent carry, a quorum is one of the whole voting power.  Heights end,    *)
(* abort and wait in ways that LockedVoting does not speak of.             *)
(***************************************************************************)
EXTENDS Consensus

VotesOf(type) ==
  {[from |-> m.from, height |-> m.height, round |-> m.round, block |-> m.block]
     : m \in Sent(type)}

Voting ==
  INSTANCE LockedVoting WITH
    Quorums <- {Q \in SUBSET Validators : PowerOf(Q) >= QuorumOf(PowerOf(Validators))},
    Values <- {Block(h, r) : h \in 1 .. MaxHeight, r \in StartRound .. MaxRound},
    at <- [v \in Validators |->
             [height |-> node[v].currentHeight, round |-> node[v].currentRound]],
    prevotes <- VotesOf("Prevote"),
    precommits <- VotesOf("Precommit"),
    decided <- [v \in Validators |->
                  IF node[v].committed THEN node[v].committedBlock ELSE Nil]

\* With no double-signer every handler, with all the handlers it calls, does to the
\* votes and decisions what LockedVoting allows in one step: one vote a round,
\* blocks precommitted and committed with a quorum of the round behind them, also
\* when a Commit message is taken over, and locks that hold until a later quorum.
ImplementsLockedVoting == Voting!Spec
=============================================================================

---------------------------- MODULE LockedVoting ----------------------------
(***************************************************************************)
(* What validators promise each other, without messages, timers, nested    *)
(* calls and quorum arithmetic: votes that everybody may count, at most    *)
(* one of a kind a round, blocks that are precommitted after a quorum of   *)
(* prevotes and decided after a quorum of precommits, and a precommit that *)
(* binds its voter until a later quorum releases it.  Consensus implements *)
(* it as long as nobody double-signs (ConsensusRefinement).                *)
(***************************************************************************)
EXTENDS Integers, FiniteSets

CONSTANTS
  Validators,
  Quorums,     \* the sets of validators whose votes decide
  Values,      \* the blocks that can be proposed
  Nil,         \* no block
  StartRound,  \* first round of a height
  MaxHeight,   \* bounds of what is modelled
  MaxRound

\* What is asked of the constants.
QuorumAssumption ==
  /\ Quorums \subseteq SUBSET Validators
  /\ \A P, Q \in Quorums : P \cap Q # {}
  /\ Nil \notin Values
  /\ {StartRound, MaxHeight, MaxRound} \subseteq Nat

VARIABLES
  at,          \* height and round each validator is in
  prevotes,    \* all prevotes cast
  precommits,  \* all precommits cast
  decided      \* what each validator decided at its height, or Nil

vars == <<at, prevotes, precommits, decided>>

Vote(v, h, r, b) == [from |-> v, height |-> h, round |-> r, block |-> b]

Certified(votes, h, r, b) ==
  \E Q \in Quorums : \A v \in Q : Vote(v, h, r, b) \in votes

HasVoted(votes, v, h, r) ==
  \E m \in votes : m.from = v /\ m.height = h /\ m.round = r

\* Fault: any later round releases a lock, with or without a quorum.
FreeInLaterRounds(v, h, r, b) ==
  \A m \in precommits :
    m.from = v /\ m.height = h /\ m.block \notin {Nil, b} => m.round < r

\* No precommit for another block binds v in round r, or a quorum of prevotes of a
\* later round, for nil or a third block, has released it.
Free(v, h, r, b) ==
  \A m \in precommits :
    m.from = v /\ m.height = h /\ m.block \notin {Nil, b} =>
      \E q \in m.round + 1 .. r : \E c \in (Values \cup {Nil}) \ {m.block} :
        Certified(prevotes, h, q, c)

Init ==
  /\ at = [v \in Validators |-> [height |-> 0, round |-> 0]]
  /\ prevotes = {}
  /\ precommits = {}
  /\ decided = [v \in Validators |-> Nil]
-----------------------------------------------------------------------------
\* v stays in its round, or goes to the next round or the next height; whoever has
\* decided leaves only for the next height.
Proceed(v) ==
  \/ UNCHANGED at
  \/ /\ decided[v] = Nil /\ at[v].height > 0 /\ at[v].round < MaxRound
     /\ at' = [at EXCEPT ![v].round = @ + 1]
  \/ /\ at[v].height < MaxHeight
     /\ at' = [at EXCEPT ![v] = [height |-> @.height + 1, round |-> StartRound]]

Prevote(v, h, r) ==
  \/ UNCHANGED prevotes
  \/ /\ ~HasVoted(prevotes, v, h, r)
     /\ \E b \in Values \cup {Nil} :
          /\ b # Nil => Free(v, h, r, b)
          /\ prevotes' = prevotes \cup {Vote(v, h, r, b)}

Precommit(v, h, r) ==
  \/ UNCHANGED precommits
  \/ /\ ~HasVoted(precommits, v, h, r)
     /\ \E b \in Values \cup {Nil} :
          /\ b # Nil => Certified(prevotes', h, r, b)
          /\ precommits' = precommits \cup {Vote(v, h, r, b)}

Decide(v, h, r) ==
  LET before == IF at'[v].height = at[v].height THEN decided ELSE [decided EXCEPT ![v] = Nil]
  IN  \/ decided' = before
      \/ /\ before[v] = Nil
         /\ \E b \in Values :
              /\ Certified(precommits', h, r, b)
              /\ decided' = [decided EXCEPT ![v] = b]

\* Anything from nothing to all of it happens in one step, as in one handler.
Handle(v) ==
  /\ Proceed(v)
  /\ at'[v].height > 0
  /\ Prevote(v, at'[v].height, at'[v].round)
  /\ Precommit(v, at'[v].height, at'[v].round)
  /\ Decide(v, at'[v].height, at'[v].round)

Next == \E v \in Validators : Handle(v)

Spec == Init /\ [][Next]_vars
-----------------------------------------------------------------------------
\* Two blocks can be decided at one height only if a round between the decisions
\* had a quorum of prevotes for nil: the locks leave no other way to a second one
\* (checkPrevoteQuorum, handleProposal).
DecisionsAgree ==
  \A r, s \in StartRound .. MaxRound, h \in 1 .. MaxHeight, a, b \in Values :
    /\ Certified(precommits, h, r, a) /\ Certified(precommits, h, s, b)
    /\ r <= s /\ a # b
    => \E q \in r + 1 .. s - 1 : Certified(prevotes, h, q, Nil)
=============================================================================

----------------------------- MODULE JailViews -----------------------------
(***************************************************************************)
(* Quorums and proposers as two validators see them while evidence against *)
(* double-signers reaches one before the other: each has its own set of    *)
(* jailed validators, and with it its own quorum and its own proposer.     *)
(***************************************************************************)
EXTENDS Integers, FiniteSets

CONSTANTS
  Validators,  \* ids of the validators
  Suspects,    \* the validators some of which double-sign
  MaxPower     \* bound on the voting power of a validator

ASSUME SuspectsAssumption ==
  /\ Validators \subseteq Nat /\ Validators # {} /\ IsFiniteSet(Validators)
  /\ Suspects \subseteq Validators
  /\ MaxPower \in Nat \ {0}

VARIABLES
  power,         \* powerMap
  equivocators,  \* the validators that double-sign
  jailed         \* jailedPeers of two validators

vars == <<power, equivocators, jailed>>

V == INSTANCE VotingPower WITH Power <- power

Views == {1, 2}

Init ==
  /\ power \in [Validators -> 1 .. MaxPower]
  /\ equivocators \in SUBSET Suspects
  /\ jailed = [view \in Views |-> {}]

\* handleEvidence, or a double vote seen (recordPrevote, recordPrecommit).
Jail(view, v) ==
  /\ v \in equivocators \ jailed[view]
  /\ jailed' = [jailed EXCEPT ![view] = @ \cup {v}]
  /\ UNCHANGED <<power, equivocators>>

Next == \E view \in Views, v \in Validators : Jail(view, v)

Spec == Init /\ [][Next]_vars
-----------------------------------------------------------------------------
Total == V!PowerOf(Validators)

\* Sets of voters whose power reaches the quorum of a view.  Votes that a validator
\* cast before it was jailed stay counted, so any voter may be among them.
Quorums(view) ==
  {Q \in SUBSET Validators :
     V!PowerOf(Q) >= V!QuorumPower(CHOOSE v \in Validators : TRUE, jailed[view])}

\* Two quorums of validators that jailed nobody share at least a third of the
\* power, and more than that unless the power is divisible by three: only then can
\* double-signers that hold exactly a third be all that two quorums share.
QuorumsShareThird ==
  jailed[1] = {} /\ jailed[2] = {} =>
    \A P \in Quorums(1), Q \in Quorums(2) :
      LET shared == V!PowerOf(P \cap Q)
      IN  3 * shared >= Total /\ (Total % 3 # 0 => 3 * shared > Total)

\* Whoever has been jailed in either view, quorums of both share an honest validator
\* as long as the double-signers hold less than a seventh of the power; lowering the
\* quorum for jailed validators whose votes stay counted costs the rest of the third
\* that is safe without jailing (handleEvidence, recomputeQuorum).
QuorumsShareHonest ==
  7 * V!PowerOf(equivocators) < Total =>
    \A P \in Quorums(1), Q \in Quorums(2) : (P \cap Q) \ equivocators # {}

\* In the rounds of a height every validator that is not jailed proposes as often as
\* its share of the power demands, whoever else was jailed before.
ProposersTakeTurns ==
  \A view \in Views : \A height \in 1 .. 2 :
    LET active == Validators \ jailed[view]
        total  == V!PowerOf(active)
    IN  \A v \in active :
          Cardinality({r \in 1 .. total :
            V!ProposerFor(CHOOSE w \in Validators : TRUE, jailed[view], height, r) = v})
            = power[v]
=============================================================================

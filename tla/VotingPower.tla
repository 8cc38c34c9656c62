----------------------------- MODULE VotingPower -----------------------------
(***************************************************************************)
(* Voting power, quorum and proposer arithmetic of internal/consensus: the *)
(* pure functions of votes.go and node.go that every validator evaluates   *)
(* on its own view of who is jailed.                                       *)
(***************************************************************************)
EXTENDS Integers, FiniteSets

CONSTANTS
  Validators,   \* ids of the validators, the keys of powerMap
  Power         \* powerMap: the voting power of each validator

ASSUME ValidatorsAssumption ==
  /\ Validators \subseteq Nat
  /\ Validators # {}
  /\ IsFiniteSet(Validators)

ASSUME PowerAssumption == Power \in [Validators -> Nat]

(***************************************************************************)
(* The voting power a set of validators holds together.  The code adds the *)
(* powers up one by one; here a validator of power p owns the p units      *)
(* <<v, 1>> .. <<v, p>> and the units are counted.                         *)
(***************************************************************************)
UnitsOf(v) == {v} \X (1 .. Power[v])

PowerOf(S) == Cardinality(UNION {UnitsOf(v) : v \in S})

\* Fault: jailed validators stay active.
ActiveValidatorsOrJailed(jailed) == {v \in Validators : Power[v] > 0}

\* The ids activeValidatorIDs keeps, in the view of a node that holds the
\* validators of `jailed` for jailed.
ActiveValidators(jailed) == {v \in Validators \ jailed : Power[v] > 0}

\* The active power, or the node's own power when nobody is left.
ActivePower(n, jailed) ==
  LET total == PowerOf(ActiveValidators(jailed))
  IN  IF total <= 0 THEN Power[n] ELSE total

\* Fault: one third, as if a single honest vote were enough.
QuorumOfOneThird(total) == (total + 2) \div 3

\* Fault: two thirds rounded down.
QuorumOfRoundedDown(total) == (2 * total) \div 3

\* Two thirds of the active power, rounded up, never below 1.
QuorumOf(total) ==
  LET twoThirds == (2 * total + 2) \div 3
      capped    == IF twoThirds > total THEN total ELSE twoThirds
  IN  IF capped < 1 THEN 1 ELSE capped

\* n.quorumPower: recomputeQuorum runs after every change of the jailed set,
\* so the cached value is always this one.
QuorumPower(n, jailed) == QuorumOf(ActivePower(n, jailed))

\* The active validator in whose share of 0 .. total-1 the offset falls, when
\* the shares are laid out in the order of the ids.
ProposerFor(n, jailed, height, round) ==
  LET ids   == ActiveValidators(jailed)
      total == PowerOf(ids)
      Before(v) == PowerOf({w \in ids : w < v})
  IN  IF ids = {} THEN n
      ELSE LET offset == (height + round) % total
           IN  CHOOSE v \in ids : Before(v) <= offset /\ offset < Before(v) + Power[v]
=============================================================================

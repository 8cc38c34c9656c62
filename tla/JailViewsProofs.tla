--------------------------- MODULE JailViewsProofs ---------------------------
(***************************************************************************)
(* What quorums of two validators have in common while evidence reaches    *)
(* one before the other: for every set of validators, all powers and any   *)
(* number of double-signers.                                               *)
(***************************************************************************)
EXTENDS JailViews, PowerProofs

ViewsInv ==
  /\ power \in [Validators -> 1 .. MaxPower]
  /\ equivocators \subseteq Validators
  /\ jailed \in [Views -> SUBSET equivocators]

LEMMA ViewsInit == Init => ViewsInv
  BY SuspectsAssumption DEF Init, ViewsInv, Views

LEMMA ViewsNext == ViewsInv /\ [Next]_vars => ViewsInv'
  BY DEF ViewsInv, Next, Jail, vars, Views

\* The powers are what PowerProofs counts.
LEMMA PowerHeld ==
  ASSUME ViewsInv
  PROVE  /\ power \in [Validators -> Nat]
         /\ IsFiniteSet(Validators)
         /\ \A S : V!PowerOf(S) = Held(power, S)
  <1>1. power \in [Validators -> Nat] /\ IsFiniteSet(Validators)
    BY SuspectsAssumption DEF ViewsInv
  <1>2. \A S : V!Cardinality(S) = Cardinality(S)
    BY DEF V!Cardinality, Cardinality
  <1>3. \A S : V!PowerOf(S) = Held(power, S)
    BY <1>2 DEF V!PowerOf, V!UnitsOf, Held, Units
  <1> QED BY <1>1, <1>3

LEMMA SomePower ==
  ASSUME ViewsInv, NEW v \in Validators, NEW S \in SUBSET Validators, v \in S
  PROVE  Held(power, S) \in Nat /\ Held(power, S) > 0
  <1>1. power \in [Validators -> Nat] /\ IsFiniteSet(Validators) /\ power[v] >= 1
    BY PowerHeld DEF ViewsInv
  <1>2. <<v, 1>> \in Units(power, S)
    BY <1>1 DEF Units
  <1>3. IsFiniteSet(Units(power, S))
    BY <1>1, UnitsFinite
  <1>4. Units(power, S) # {}
    BY <1>2
  <1> QED BY <1>3, <1>4, FS_CardinalityType, FS_EmptySet DEF Held

\* Two thirds, rounded up.
LEMMA TwoThirds ==
  ASSUME NEW t \in Nat, t > 0
  PROVE  /\ V!QuorumOf(t) \in Nat
         /\ 3 * V!QuorumOf(t) >= 2 * t
         /\ t % 3 # 0 => 3 * V!QuorumOf(t) > 2 * t
  BY DEF V!QuorumOf

\* The quorum of a view is two thirds of what is not jailed there.
LEMMA QuorumOfView ==
  ASSUME ViewsInv, NEW view \in Views, Held(power, jailed[view]) < Total
  PROVE  /\ Total \in Nat /\ Held(power, jailed[view]) \in Nat
         /\ \A n : V!QuorumPower(n, jailed[view])
                     = V!QuorumOf(Total - Held(power, jailed[view]))
  <1> DEFINE J == jailed[view]
             A == Validators \ J
  <1>1. J \in SUBSET Validators
    BY DEF ViewsInv
  <1>2. V!ActiveValidators(J) = A
    BY DEF V!ActiveValidators, ViewsInv
  <1>3. A \cup J = Validators /\ A \cap J = {} /\ A \in SUBSET Validators
    BY <1>1
  <1>4. Held(power, {}) = 0
    BY FS_EmptySet DEF Held, Units
  <1>5. Total = Held(power, Validators)
    BY PowerHeld DEF Total
  <1>6. Held(power, Validators) = Held(power, A) + Held(power, J) - Held(power, A \cap J)
    BY <1>1, <1>3, PowerHeld, HeldShared
  <1>7. Held(power, A) \in Nat /\ Held(power, J) \in Nat /\ Held(power, Validators) \in Nat
    BY <1>1, PowerHeld, HeldGrows
  <1>8. V!PowerOf(V!ActiveValidators(J)) = Total - Held(power, J)
    <2>1. Held(power, A \cap J) = 0
      BY <1>3, <1>4
    <2>2. V!PowerOf(A) = Held(power, A)
      BY PowerHeld
    <2> QED BY <1>2, <1>5, <1>6, <1>7, <2>1, <2>2
  <1>9. Total - Held(power, J) > 0
    BY <1>5, <1>7
  <1> QED BY <1>5, <1>7, <1>8, <1>9 DEF V!QuorumPower, V!ActivePower

\* Two sets that reach the quorums of two views, and what they share.
LEMMA QuorumsOverlap ==
  ASSUME ViewsInv, NEW P \in Quorums(1), NEW Q \in Quorums(2),
         Held(power, jailed[1]) < Total, Held(power, jailed[2]) < Total
  PROVE  LET first  == V!QuorumOf(Total - Held(power, jailed[1]))
             second == V!QuorumOf(Total - Held(power, jailed[2]))
         IN  /\ P \in SUBSET Validators /\ Q \in SUBSET Validators
             /\ Held(power, P \cap Q) \in Nat
             /\ first + second <= Total + Held(power, P \cap Q)
  <1> DEFINE first  == V!QuorumOf(Total - Held(power, jailed[1]))
             second == V!QuorumOf(Total - Held(power, jailed[2]))
  <1>1. P \in SUBSET Validators /\ Q \in SUBSET Validators
    BY DEF Quorums
  <1>2. 1 \in Views /\ 2 \in Views
    BY DEF Views
  <1>3. Held(power, P) >= first /\ Held(power, Q) >= second
    BY <1>2, PowerHeld, QuorumOfView DEF Quorums
  <1>4. /\ Total = Held(power, Validators)
        /\ Total \in Nat /\ Held(power, P) \in Nat /\ Held(power, Q) \in Nat
        /\ Held(power, P \cap Q) \in Nat
    BY <1>1, PowerHeld, HeldGrows DEF Total
  <1>5. Held(power, P) + Held(power, Q) - Held(power, P \cap Q) <= Total
    BY <1>1, <1>4, PowerHeld, HeldShared
  <1>6. first \in Nat /\ second \in Nat
    <2>1. \A view \in Views : Held(power, jailed[view]) \in Nat
      BY PowerHeld, HeldGrows DEF ViewsInv
    <2> QED BY <1>2, <1>4, <2>1, TwoThirds
  <1> QED BY <1>1, <1>3, <1>4, <1>5, <1>6

LEMMA TotalPositive ==
  ASSUME ViewsInv
  PROVE  Total \in Nat /\ Total > 0 /\ Held(power, {}) = 0
  <1>1. PICK v : v \in Validators
    BY SuspectsAssumption
  <1>2. Held(power, Validators) \in Nat /\ Held(power, Validators) > 0
    BY <1>1, SomePower
  <1> QED BY <1>2, PowerHeld, FS_EmptySet DEF Total, Held, Units

\* Whatever the powers are, two quorums of validators that jailed nobody share a third of
\* the power, and more than a third where the power is no multiple of three
\* (recomputeQuorum, which rounds two thirds up).
THEOREM ThirdIsShared == Spec => []QuorumsShareThird
  <1>1. ViewsInv => QuorumsShareThird
    <2> SUFFICES ASSUME ViewsInv, jailed[1] = {}, jailed[2] = {},
                        NEW P \in Quorums(1), NEW Q \in Quorums(2)
                 PROVE  LET shared == V!PowerOf(P \cap Q)
                        IN  3 * shared >= Total /\ (Total % 3 # 0 => 3 * shared > Total)
      BY DEF QuorumsShareThird
    <2> DEFINE quorum == V!QuorumOf(Total)
               shared == Held(power, P \cap Q)
    <2>1. Total \in Nat /\ Total > 0 /\ Held(power, {}) = 0
      BY TotalPositive
    <2>2. Total - Held(power, {}) = Total
      BY <2>1
    <2>3. shared \in Nat /\ quorum + quorum <= Total + shared
      BY <2>1, <2>2, QuorumsOverlap
    <2>4. quorum \in Nat /\ 3 * quorum >= 2 * Total
          /\ (Total % 3 # 0 => 3 * quorum > 2 * Total)
      BY <2>1, TwoThirds
    <2>5. V!PowerOf(P \cap Q) = shared
      BY PowerHeld
    <2> HIDE DEF quorum, shared
    <2>6. 3 * shared >= Total
      BY <2>1, <2>3, <2>4
    <2>7. Total % 3 # 0 => 3 * shared > Total
      BY <2>1, <2>3, <2>4
    <2> QED BY <2>5, <2>6, <2>7
  <1> QED BY <1>1, ViewsInit, ViewsNext, PTL DEF Spec

\* Whatever the powers are and whoever is jailed in either view, quorums of both share an
\* honest validator as long as double-signers hold less than a seventh of the power
\* (handleEvidence, recomputeQuorum).
THEOREM HonestIsShared == Spec => []QuorumsShareHonest
  <1>1. ViewsInv => QuorumsShareHonest
    <2> SUFFICES ASSUME ViewsInv, 7 * V!PowerOf(equivocators) < Total,
                        NEW P \in Quorums(1), NEW Q \in Quorums(2),
                        P \cap Q \subseteq equivocators
                 PROVE  FALSE
      BY DEF QuorumsShareHonest
    <2> DEFINE bad    == Held(power, equivocators)
               J(view) == Held(power, jailed[view])
               shared == Held(power, P \cap Q)
               quorum(view) == V!QuorumOf(Total - J(view))
    <2>1. Total \in Nat /\ Total > 0
      BY TotalPositive
    <2>2. equivocators \in SUBSET Validators /\ jailed[1] \in SUBSET equivocators
          /\ jailed[2] \in SUBSET equivocators /\ P \cap Q \in SUBSET equivocators
      BY DEF ViewsInv, Views
    <2>3. bad \in Nat /\ 7 * bad < Total
      BY <2>2, PowerHeld, HeldGrows
    <2>4. /\ J(1) \in Nat /\ J(1) <= bad
          /\ J(2) \in Nat /\ J(2) <= bad
          /\ shared \in Nat /\ shared <= bad
      BY <2>2, PowerHeld, HeldGrows
    <2>5. J(1) < Total /\ J(2) < Total
      BY <2>1, <2>3, <2>4
    <2>6. quorum(1) + quorum(2) <= Total + shared
      BY <2>5, QuorumsOverlap
    <2>7. /\ quorum(1) \in Nat /\ 3 * quorum(1) >= 2 * (Total - J(1))
          /\ quorum(2) \in Nat /\ 3 * quorum(2) >= 2 * (Total - J(2))
      <3>1. Total - J(1) \in Nat /\ Total - J(1) > 0 /\ Total - J(2) \in Nat /\ Total - J(2) > 0
        BY <2>1, <2>4, <2>5
      <3> QED BY <3>1, TwoThirds
    <2> HIDE DEF bad, J, shared, quorum
    <2> QED BY <2>1, <2>3, <2>4, <2>6, <2>7
  <1> QED BY <1>1, ViewsInit, ViewsNext, PTL DEF Spec

\* The powers of those who are not jailed.
LEMMA SharesOfView ==
  ASSUME ViewsInv, NEW view \in Views
  PROVE  LET A == Validators \ jailed[view]
         IN  /\ V!ActiveValidators(jailed[view]) = A
             /\ A \in SUBSET Validators
             /\ \A v \in A : power[v] \in Nat /\ power[v] > 0
  BY DEF ViewsInv, V!ActiveValidators

\* Whose turn it is: the owner of the unit that the height and the round point at.
LEMMA TurnOfOwner ==
  ASSUME ViewsInv, NEW view \in Views, NEW n, NEW h \in Nat, NEW r \in Nat,
         NEW v \in Validators \ jailed[view]
  PROVE  LET A      == Validators \ jailed[view]
             offset == (h + r) % Held(power, A)
         IN  V!ProposerFor(n, jailed[view], h, r) = v <=> Owns(power, A, v, offset)
<1> DEFINE J == jailed[view]
           A == Validators \ J
           ids == V!ActiveValidators(J)
           total == V!PowerOf(ids)
           offset == (h + r) % total
           Mine(w) == /\ V!PowerOf({x \in ids : x < w}) <= offset
                      /\ offset < V!PowerOf({x \in ids : x < w}) + power[w]
<1>1. /\ ids = A /\ A \in SUBSET Validators /\ A # {}
      /\ \A w \in A : power[w] \in Nat /\ power[w] > 0
  BY SharesOfView
<1>2. V!ProposerFor(n, J, h, r) = CHOOSE w \in ids : Mine(w)
  BY <1>1 DEF V!ProposerFor
<1>3. /\ power \in [Validators -> Nat] /\ IsFiniteSet(Validators) /\ Validators \in SUBSET Nat
      /\ total = Held(power, A)
  BY <1>1, PowerHeld, SuspectsAssumption
<1>4. offset \in Nat /\ offset < total
  <2>1. HeldBelow(power, A, v) \in Nat /\ HeldBelow(power, A, v) + power[v] <= Held(power, A)
    BY <1>1, <1>3, SharesApart
  <2>2. total \in Nat /\ total > 0
    <3>1. Held(power, A) \in Nat
      BY <1>1, <1>3, HeldGrows
    <3> QED
      BY <1>1, <1>3, <2>1, <3>1
  <2> QED
    BY <2>2, Remainder
<1> HIDE DEF ids, offset, total, A
<1>5. \A w : Mine(w) <=> Owns(power, A, w, offset)
  BY <1>1, PowerHeld DEF Owns, HeldBelow
<1>6. \E w \in ids : Mine(w)
  BY <1>1, <1>3, <1>4, <1>5, SharesCover
<1>7. \A w, x \in ids : Mine(w) /\ Mine(x) => w = x
  BY <1>1, <1>3, <1>4, <1>5, OneOwner
<1> HIDE DEF Mine
<1>8. v \in ids
  BY <1>1 DEF A
<1>9. V!ProposerFor(n, J, h, r) = v <=> Mine(v)
  BY <1>2, <1>6, <1>7, <1>8
<1> QED
  BY <1>3, <1>5, <1>9 DEF A, offset

\* Whatever the powers are and whoever else was jailed, in as many rounds as there are
\* units of power each validator that is not jailed proposes once for each of its own
\* (proposerFor, which walks over the powers in the order of the ids).
THEOREM EachProposesItsShare == Spec => []ProposersTakeTurns
  <1>1. ViewsInv => ProposersTakeTurns
    <2> SUFFICES ASSUME ViewsInv, NEW view \in Views, NEW height \in 1 .. 2,
                        NEW v \in Validators \ jailed[view]
                 PROVE  Cardinality({r \in 1 .. V!PowerOf(Validators \ jailed[view]) :
                          V!ProposerFor(CHOOSE w \in Validators : TRUE, jailed[view], height, r)
                            = v}) = power[v]
      BY DEF ProposersTakeTurns
    <2> DEFINE A     == Validators \ jailed[view]
               total == V!PowerOf(A)
               b     == HeldBelow(power, A, v)
               n     == CHOOSE w \in Validators : TRUE
               Turns == {r \in 1 .. total : V!ProposerFor(n, jailed[view], height, r) = v}
               Owned == {r \in 1 .. total :
                           b <= (height + r) % total /\ (height + r) % total < b + power[v]}
    <2>1. /\ A \in SUBSET Validators /\ power[v] \in Nat /\ power[v] > 0
          /\ total = Held(power, A) /\ total \in Nat
      <3>1. A \in SUBSET Validators /\ power[v] \in Nat /\ power[v] > 0
        BY SharesOfView
      <3> QED
        BY <3>1, PowerHeld, HeldGrows
    <2>2. b \in Nat /\ b + power[v] <= total
      BY <2>1, PowerHeld, SuspectsAssumption, SharesApart
    <2>3. \A r \in 1 .. total : V!ProposerFor(n, jailed[view], height, r) = v
                                  <=> Owns(power, A, v, (height + r) % total)
      <3>1. \A r \in 1 .. total : r \in Nat /\ height \in Nat
        OBVIOUS
      <3> HIDE DEF n
      <3> QED
        BY <2>1, <3>1, TurnOfOwner
    <2>4. Turns = Owned
      BY <2>3 DEF Owns
    <2>5. Cardinality(Owned) = power[v]
      <3>1. total > 0 /\ height \in Nat
        BY <2>1, <2>2
      <3> HIDE DEF total, b
      <3>2. \A p \in Nat : b + p <= total =>
              Cardinality({r \in 1 .. total : b <= (height + r) % total
                                               /\ (height + r) % total < b + p}) = p
        <4> TAKE p \in Nat
        <4> HAVE b + p <= total
        <4>1. b \in Nat /\ total \in Nat
          BY <2>1, <2>2
        <4> QED
          BY <3>1, <4>1, RemaindersOnce
      <3> QED
        BY <2>1, <2>2, <3>2
    <2> QED BY <2>4, <2>5
  <1> QED BY <1>1, ViewsInit, ViewsNext, PTL DEF Spec
=============================================================================

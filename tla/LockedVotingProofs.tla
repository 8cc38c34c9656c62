------------------------- MODULE LockedVotingProofs -------------------------
(***************************************************************************)
(* Two blocks are decided at one height only if a round between them had a *)
(* quorum of prevotes for nil: for every set of validators, every system   *)
(* of quorums that meet, and any number of rounds and heights.             *)
(*                                                                         *)
(* The argument: when a block gets a quorum of prevotes, no other one can  *)
(* get a quorum of precommits in an earlier round any more, because some   *)
(* member of every quorum has left that round without a precommit for it,  *)
(* unless a quorum for nil released the locks in between.                  *)
(***************************************************************************)
EXTENDS LockedVoting, TLAPS

Blocks == Values \cup {Nil}

Votes == [from: Validators, height: Nat, round: Nat, block: Blocks]

\* v has left round r of height h behind; v has at least got there.
Past(v, h, r) == at[v].height > h \/ (at[v].height = h /\ at[v].round > r)
Reached(v, h, r) == at[v].height > h \/ (at[v].height = h /\ at[v].round >= r)

TypeInv ==
  /\ at \in [Validators -> [height: Nat, round: Nat]]
  /\ prevotes \subseteq Votes
  /\ precommits \subseteq Votes

NotAhead == \A m \in prevotes \cup precommits : Reached(m.from, m.height, m.round)

OneVote(votes) ==
  \A m, n \in votes : m.from = n.from /\ m.height = n.height /\ m.round = n.round => m = n

\* A precommit for a block has a quorum of prevotes behind it.
Backed ==
  \A m \in precommits : m.block # Nil => Certified(prevotes, m.height, m.round, m.block)

\* Some round from r + 1 to q has a quorum for something else than a.
Released(h, r, q, a) ==
  \E p \in r + 1 .. q : \E c \in Blocks \ {a} : Certified(prevotes, h, p, c)

\* A validator that precommits one block prevotes another only when released.
Bound ==
  \A m \in precommits, n \in prevotes :
    /\ m.from = n.from /\ m.height = n.height /\ m.round < n.round
    /\ Nil \notin {m.block, n.block} /\ m.block # n.block
    => Released(m.height, m.round, n.round, m.block)

NilBetween(h, r, q) == \E p \in r + 1 .. q - 1 : Certified(prevotes, h, p, Nil)

\* Block a cannot get a quorum of precommits in round r any more.
Missed(h, r, a) ==
  \A Q \in Quorums : \E v \in Q : Past(v, h, r) /\ Vote(v, h, r, a) \notin precommits

Settled ==
  \A h, r, q \in Nat, a, c \in Values :
    r < q /\ a # c /\ Certified(prevotes, h, q, c) => NilBetween(h, r, q) \/ Missed(h, r, a)

VotingInv ==
  /\ TypeInv
  /\ NotAhead
  /\ OneVote(prevotes) /\ OneVote(precommits)
  /\ Backed
  /\ Bound
  /\ Settled
-----------------------------------------------------------------------------
LEMMA VoteFields ==
  /\ \A v, h, r, b : /\ Vote(v, h, r, b).from = v /\ Vote(v, h, r, b).height = h
                     /\ Vote(v, h, r, b).round = r /\ Vote(v, h, r, b).block = b
  /\ \A m \in Votes : m = Vote(m.from, m.height, m.round, m.block)
  /\ \A v \in Validators, h \in Nat, r \in Nat, b \in Blocks : Vote(v, h, r, b) \in Votes
  BY DEF Vote, Votes

\* A quorum of votes stays one.
LEMMA CertifiedGrows ==
  ASSUME NEW V, NEW W, V \subseteq W, NEW h, NEW r, NEW b, Certified(V, h, r, b)
  PROVE  Certified(W, h, r, b)
  BY DEF Certified

\* At most one block has a quorum in one round.
LEMMA CertifiedOnce ==
  ASSUME QuorumAssumption, NEW V, OneVote(V), NEW h, NEW r, NEW b, NEW c,
         Certified(V, h, r, b), Certified(V, h, r, c)
  PROVE  b = c
  <1>1. PICK P \in Quorums : \A v \in P : Vote(v, h, r, b) \in V
    BY DEF Certified
  <1>2. PICK Q \in Quorums : \A v \in Q : Vote(v, h, r, c) \in V
    BY DEF Certified
  <1>3. PICK v : v \in P /\ v \in Q
    BY DEF QuorumAssumption
  <1>4. Vote(v, h, r, b) = Vote(v, h, r, c)
    BY <1>1, <1>2, <1>3, VoteFields DEF OneVote
  <1> QED BY <1>4, VoteFields

\* What one step adds: a vote of v, in the round v is in after it.
Adds(votes, new, v) ==
  /\ votes \subseteq new
  /\ \A m \in new \ votes :
       /\ m \in Votes
       /\ m.from = v /\ m.height = at'[v].height /\ m.round = at'[v].round
       /\ ~HasVoted(votes, v, m.height, m.round)
  /\ \A m, n \in new \ votes : m = n

LEMMA ProceedForward ==
  ASSUME QuorumAssumption, TypeInv, NEW v \in Validators, Proceed(v)
  PROVE  /\ at' \in [Validators -> [height: Nat, round: Nat]]
         /\ \A w \in Validators, h, r \in Nat :
              /\ Reached(w, h, r) => Reached(w, h, r)'
              /\ Past(w, h, r) => Past(w, h, r)'
  <1>1. CASE UNCHANGED at
    BY <1>1 DEF TypeInv, Reached, Past
  <1>2. CASE at' = [at EXCEPT ![v].round = @ + 1]
    BY <1>2 DEF TypeInv, Reached, Past
  <1>3. CASE at' = [at EXCEPT ![v] = [height |-> @.height + 1, round |-> StartRound]]
    BY <1>3 DEF TypeInv, Reached, Past, QuorumAssumption
  <1> QED BY <1>1, <1>2, <1>3 DEF Proceed

LEMMA PrevoteAdds ==
  ASSUME TypeInv, NEW v \in Validators, at' \in [Validators -> [height: Nat, round: Nat]],
         Prevote(v, at'[v].height, at'[v].round)
  PROVE  /\ Adds(prevotes, prevotes', v)
         /\ \A m \in prevotes' \ prevotes :
              m.block # Nil => Free(v, m.height, m.round, m.block)
  BY VoteFields DEF Prevote, Adds, Blocks

LEMMA PrecommitAdds ==
  ASSUME TypeInv, NEW v \in Validators, at' \in [Validators -> [height: Nat, round: Nat]],
         Precommit(v, at'[v].height, at'[v].round)
  PROVE  /\ Adds(precommits, precommits', v)
         /\ \A m \in precommits' \ precommits :
              m.block # Nil => Certified(prevotes', m.height, m.round, m.block)
  BY VoteFields DEF Precommit, Adds, Blocks

\* A new vote is not a second one.
LEMMA AddsOneVote ==
  ASSUME NEW V, NEW W, NEW v, OneVote(V), Adds(V, W, v)
  PROVE  OneVote(W)
  BY DEF OneVote, Adds, HasVoted
-----------------------------------------------------------------------------
\* What Handle(v) does, as far as the invariant is concerned.
Step(v) ==
  /\ at' \in [Validators -> [height: Nat, round: Nat]]
  /\ \A w \in Validators, h, r \in Nat :
       /\ Reached(w, h, r) => Reached(w, h, r)'
       /\ Past(w, h, r) => Past(w, h, r)'
  /\ Adds(prevotes, prevotes', v)
  /\ \A m \in prevotes' \ prevotes : m.block # Nil => Free(v, m.height, m.round, m.block)
  /\ Adds(precommits, precommits', v)
  /\ \A m \in precommits' \ precommits :
       m.block # Nil => Certified(prevotes', m.height, m.round, m.block)

LEMMA HandleStep ==
  ASSUME QuorumAssumption, TypeInv, NEW v \in Validators, Handle(v)
  PROVE  Step(v)
  <1>1. Proceed(v) /\ Prevote(v, at'[v].height, at'[v].round)
        /\ Precommit(v, at'[v].height, at'[v].round)
    BY DEF Handle
  <1> QED BY <1>1, ProceedForward, PrevoteAdds, PrecommitAdds DEF Step

LEMMA StepTypes ==
  ASSUME TypeInv, NEW v \in Validators, Step(v)
  PROVE  TypeInv'
  BY DEF TypeInv, Step, Adds

\* The new votes are cast in the round v has reached.
LEMMA StepNotAhead ==
  ASSUME TypeInv, NotAhead, NEW v \in Validators, Step(v)
  PROVE  NotAhead'
  <1> SUFFICES ASSUME NEW m \in prevotes' \cup precommits'
               PROVE  Reached(m.from, m.height, m.round)'
    BY DEF NotAhead
  <1>1. CASE m \in prevotes \cup precommits
    <2>1. m.from \in Validators /\ m.height \in Nat /\ m.round \in Nat
      BY <1>1 DEF TypeInv, Votes
    <2>2. Reached(m.from, m.height, m.round)
      BY <1>1 DEF NotAhead
    <2> QED BY <2>1, <2>2 DEF Step
  <1>2. CASE m \notin prevotes \cup precommits
    <2>1. m.from = v /\ m.height = at'[v].height /\ m.round = at'[v].round
      BY <1>2 DEF Step, Adds
    <2> QED BY <2>1 DEF Step, Reached
  <1> QED BY <1>1, <1>2

LEMMA StepBacked ==
  ASSUME Backed, NEW v \in Validators, Step(v)
  PROVE  Backed'
  <1> SUFFICES ASSUME NEW m \in precommits', m.block # Nil
               PROVE  Certified(prevotes', m.height, m.round, m.block)
    BY DEF Backed
  <1>1. prevotes \subseteq prevotes'
    BY DEF Step, Adds
  <1>2. CASE m \in precommits
    BY <1>1, <1>2, CertifiedGrows DEF Backed
  <1>3. CASE m \notin precommits
    BY <1>3 DEF Step
  <1> QED BY <1>2, <1>3

LEMMA ReleasedGrows ==
  ASSUME prevotes \subseteq prevotes', NEW h, NEW r, NEW q, NEW a, Released(h, r, q, a)
  PROVE  Released(h, r, q, a)'
  BY CertifiedGrows DEF Released

\* A new prevote is Free; a new precommit is later than every prevote of its voter.
LEMMA StepBound ==
  ASSUME TypeInv, NotAhead, Bound, NEW v \in Validators, Step(v)
  PROVE  Bound'
  <1> SUFFICES ASSUME NEW m \in precommits', NEW n \in prevotes',
                      m.from = n.from, m.height = n.height, m.round < n.round,
                      Nil \notin {m.block, n.block}, m.block # n.block
               PROVE  Released(m.height, m.round, n.round, m.block)'
    BY DEF Bound
  <1>1. prevotes \subseteq prevotes' /\ precommits \subseteq precommits'
    BY DEF Step, Adds
  <1>2. m \in Votes /\ n \in Votes
    BY StepTypes DEF TypeInv
  <1>3. CASE m \in precommits /\ n \in prevotes
    BY <1>1, <1>3, ReleasedGrows DEF Bound
  <1>4. CASE m \in precommits /\ n \notin prevotes
    <2>1. n.from = v /\ Free(v, n.height, n.round, n.block)
      BY <1>4 DEF Step, Adds
    <2>2. Released(m.height, m.round, n.round, m.block)
      BY <1>4, <2>1 DEF Free, Released, Blocks
    <2> QED BY <1>1, <2>2, ReleasedGrows
  <1>5. CASE m \notin precommits
    <2>1. m.from = v /\ m.height = at'[v].height /\ m.round = at'[v].round
      BY <1>5 DEF Step, Adds
    <2>2. Reached(v, n.height, n.round)'
      BY <2>1, StepNotAhead DEF NotAhead
    <2> QED BY <1>2, <2>1, <2>2 DEF Reached, Step, Votes
  <1> QED BY <1>3, <1>4, <1>5

LEMMA NilBetweenGrows ==
  ASSUME prevotes \subseteq prevotes', NEW h, NEW r \in Nat, NEW q \in Nat, NEW s \in Nat,
         q <= s, NilBetween(h, r, q)
  PROVE  NilBetween(h, r, s)'
  BY CertifiedGrows DEF NilBetween

\* Who has left a round casts no vote there any more.
LEMMA MissedStays ==
  ASSUME QuorumAssumption, TypeInv, NEW v \in Validators, Step(v),
         NEW h \in Nat, NEW r \in Nat, NEW a, Missed(h, r, a)
  PROVE  Missed(h, r, a)'
  <1> SUFFICES ASSUME NEW Q \in Quorums
               PROVE  \E w \in Q : Past(w, h, r)' /\ Vote(w, h, r, a) \notin precommits'
    BY DEF Missed
  <1>1. PICK w \in Q : Past(w, h, r) /\ Vote(w, h, r, a) \notin precommits
    BY DEF Missed
  <1>2. w \in Validators
    BY DEF QuorumAssumption
  <1>3. Past(w, h, r)'
    BY <1>1, <1>2 DEF Step
  <1>4. ASSUME Vote(w, h, r, a) \in precommits'
        PROVE  FALSE
    <2>1. w = v /\ h = at'[v].height /\ r = at'[v].round
      BY <1>1, <1>4, VoteFields DEF Step, Adds
    <2> QED BY <1>3, <2>1 DEF Past
  <1> QED BY <1>3, <1>4

\* The vote that completes a quorum for c is the last of a quorum whose members have left
\* round r.  If all of some quorum precommitted a there, one of them prevoted c in spite of
\* it, so it had been released: by nil, or by a block for which the same was settled.
LEMMA StepSettled ==
  ASSUME QuorumAssumption, VotingInv, NEW v \in Validators, Step(v)
  PROVE  Settled'
  <1>1. /\ TypeInv /\ TypeInv' /\ NotAhead' /\ OneVote(prevotes')
        /\ prevotes \subseteq prevotes' /\ precommits \subseteq precommits'
    BY StepTypes, StepNotAhead, AddsOneVote DEF VotingInv, Step, Adds
  <1> SUFFICES ASSUME NEW h \in Nat, NEW r \in Nat, NEW q \in Nat,
                      NEW a \in Values, NEW c \in Values,
                      r < q, a # c, Certified(prevotes', h, q, c), ~Missed(h, r, a)'
               PROVE  NilBetween(h, r, q)'
    BY DEF Settled
  <1>2. ~Missed(h, r, a)
    BY <1>1, MissedStays
  <1>3. CASE Certified(prevotes, h, q, c)
    <2>1. NilBetween(h, r, q)
      BY <1>2, <1>3 DEF VotingInv, Settled
    <2> QED BY <1>1, <2>1, NilBetweenGrows
  <1>4. CASE ~Certified(prevotes, h, q, c)
    <2>1. PICK C \in Quorums : \A w \in C : Vote(w, h, q, c) \in prevotes'
      BY DEF Certified
    <2>2. PICK A \in Quorums : \A w \in A : Past(w, h, r)' => Vote(w, h, r, a) \in precommits'
      BY DEF Missed
    <2>3. PICK w : w \in A /\ w \in C /\ w \in Validators
      BY DEF QuorumAssumption
    <2>4. Reached(w, h, q)'
      BY <1>1, <2>1, <2>3, VoteFields DEF NotAhead
    <2>5. Past(w, h, r)'
      BY <1>1, <2>3, <2>4 DEF Reached, Past, TypeInv
    <2>6. Vote(w, h, r, a) \in precommits' /\ Vote(w, h, q, c) \in prevotes'
      BY <2>1, <2>2, <2>3, <2>5
    <2>7. Vote(w, h, r, a) \in precommits
      <3>1. CASE Vote(w, h, r, a) \notin precommits
        <4>1. w = v /\ h = at'[v].height /\ r = at'[v].round
          BY <2>6, <3>1, VoteFields DEF Step, Adds
        <4> QED BY <2>5, <4>1 DEF Past
      <3> QED BY <3>1
    <2>8. Released(h, r, q, a)
      <3>1. CASE Vote(w, h, q, c) \in prevotes
        BY <2>7, <3>1, VoteFields DEF VotingInv, Bound, QuorumAssumption
      <3>2. CASE Vote(w, h, q, c) \notin prevotes
        <4>1. w = v /\ Free(w, h, q, c)
          BY <2>6, <3>2, VoteFields DEF Step, Adds, QuorumAssumption
        <4> DEFINE m == Vote(w, h, r, a)
        <4>2. m.from = w /\ m.height = h /\ m.round = r /\ m.block = a
          BY VoteFields
        <4>3. m.block \notin {Nil, c}
          BY <4>2 DEF QuorumAssumption
        <4>4. \E p \in m.round + 1 .. q : \E b \in Blocks \ {m.block} :
                Certified(prevotes, h, p, b)
          BY <2>7, <4>1, <4>2, <4>3 DEF Free, Blocks
        <4> QED BY <4>2, <4>4 DEF Released
      <3> QED BY <3>1, <3>2
    <2>9. PICK p \in r + 1 .. q, b \in Blocks \ {a} : Certified(prevotes, h, p, b)
      BY <2>8 DEF Released
    <2>10. p # q
      <3>1. ASSUME p = q PROVE FALSE
        <4>1. Certified(prevotes', h, q, b)
          BY <1>1, <2>9, <3>1, CertifiedGrows
        <4>2. b = c
          BY <1>1, <4>1, CertifiedOnce
        <4> QED BY <1>4, <2>9, <3>1, <4>2
      <3> QED BY <3>1
    <2>11. p \in Nat /\ r < p /\ p < q
      BY <2>10
    <2>12. CASE b = Nil
      <3>1. NilBetween(h, r, q)
        BY <2>9, <2>11, <2>12 DEF NilBetween
      <3> QED BY <1>1, <3>1, NilBetweenGrows
    <2>13. CASE b # Nil
      <3>1. b \in Values /\ a # b
        BY <2>13 DEF Blocks
      <3>2. NilBetween(h, r, p)
        BY <1>2, <2>9, <2>11, <3>1 DEF VotingInv, Settled
      <3> QED BY <1>1, <2>11, <3>2, NilBetweenGrows
    <2> QED BY <2>12, <2>13
  <1> QED BY <1>3, <1>4

LEMMA VotingNext ==
  ASSUME QuorumAssumption, VotingInv, [Next]_vars
  PROVE  VotingInv'
  <1>1. ASSUME NEW v \in Validators, Handle(v)
        PROVE  VotingInv'
    <2>1. Step(v)
      BY <1>1, HandleStep DEF VotingInv
    <2>2. OneVote(prevotes') /\ OneVote(precommits')
      BY <2>1, AddsOneVote DEF VotingInv, Step
    <2>3. TypeInv' /\ NotAhead' /\ Backed' /\ Bound'
      BY <2>1, StepTypes, StepNotAhead, StepBacked, StepBound DEF VotingInv
    <2>4. Settled'
      BY <2>1, StepSettled
    <2> QED BY <2>2, <2>3, <2>4 DEF VotingInv
  <1>2. CASE UNCHANGED vars
    BY <1>2 DEF vars, VotingInv, TypeInv, NotAhead, Reached, Backed, Bound, Released,
                Settled, NilBetween, Missed, Past
  <1> QED BY <1>1, <1>2 DEF Next

LEMMA VotingInit ==
  ASSUME QuorumAssumption, Init
  PROVE  VotingInv
  <1>1. prevotes = {} /\ precommits = {} /\ TypeInv
    BY DEF Init, TypeInv
  <1>2. \A h, r, b : ~Certified(prevotes, h, r, b)
    BY <1>1 DEF Certified, QuorumAssumption
  <1> QED BY <1>1, <1>2 DEF VotingInv, NotAhead, OneVote, Backed, Bound, Settled

LEMMA SettledDecides ==
  ASSUME QuorumAssumption, VotingInv
  PROVE  DecisionsAgree
  <1> SUFFICES ASSUME NEW r \in StartRound .. MaxRound, NEW s \in StartRound .. MaxRound,
                      NEW h \in 1 .. MaxHeight, NEW a \in Values, NEW b \in Values,
                      Certified(precommits, h, r, a), Certified(precommits, h, s, b),
                      r <= s, a # b
               PROVE  NilBetween(h, r, s)
    BY DEF DecisionsAgree, NilBetween
  <1>1. h \in Nat /\ r \in Nat /\ s \in Nat
    BY DEF QuorumAssumption
  <1>2. r < s
    BY <1>1, CertifiedOnce DEF VotingInv
  <1>3. Certified(prevotes, h, s, b)
    <2>1. PICK Q \in Quorums : \A v \in Q : Vote(v, h, s, b) \in precommits
      BY DEF Certified
    <2>2. PICK v : Vote(v, h, s, b) \in precommits
      BY <2>1 DEF QuorumAssumption
    <2>3. b # Nil
      BY DEF QuorumAssumption
    <2> QED BY <2>2, <2>3, VoteFields DEF VotingInv, Backed
  <1>4. ~Missed(h, r, a)
    BY DEF Missed, Certified
  <1> QED BY <1>1, <1>2, <1>3, <1>4 DEF VotingInv, Settled

\* Locks make decisions agree: two blocks have quorums of precommits at one height only if
\* a quorum of prevotes for nil came between (checkPrevoteQuorum, handleProposal), whatever
\* the quorums are, as long as any two of them meet.
THEOREM LocksAgree ==
  ASSUME QuorumAssumption
  PROVE  Spec => []DecisionsAgree
  <1>1. Init => VotingInv
    BY VotingInit
  <1>2. VotingInv /\ [Next]_vars => VotingInv'
    BY VotingNext
  <1>3. VotingInv => DecisionsAgree
    BY SettledDecides
  <1> QED BY <1>1, <1>2, <1>3, PTL DEF Spec
=============================================================================

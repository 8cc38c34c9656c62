--------------------------- MODULE OutcomeProofs ---------------------------
(***************************************************************************)
(* What a height comes to, whatever the powers, bounds and timeouts are:   *)
(* commits agree, since Consensus implements LockedVoting when nobody      *)
(* double-signs, the reports of a height are true to what the validators   *)
(* did, and it takes a timeout to leave the first round of a height.       *)
(*                                                                         *)
(* A handler is mapped to one step of LockedVoting.  ConsensusProofs says  *)
(* where a handler can begin (Opens), what a record in the middle of it    *)
(* has behind it (Kept), and that a Closed set of records is not left;     *)
(* what is added here is that every block a vote names is one that can be  *)
(* proposed within the bounds.                                             *)
(***************************************************************************)
EXTENDS ConsensusRefinement, Reports, ConsensusProofs

Values == {Block(h, r) : h \in 1 .. MaxHeight, r \in StartRound .. MaxRound}

\* Any two quorums have a validator in common, no block is nil, and rounds are numbers:
\* what LockedVoting asks of its constants (recomputeQuorum).
THEOREM QuorumsMeet == Voting!QuorumAssumption
<1>1. \A P, Q \in {R \in SUBSET Validators : PowerOf(R) >= QuorumOf(PowerOf(Validators))} :
        P \cap Q # {}
  BY QuorumsShare DEF Total
<1>2. {StartRound, MaxHeight, MaxRound} \subseteq Nat
  BY BoundsAssumption, TimeoutAssumption
<1>3. Nil \notin Values
  BY <1>2, NilAssumption DEF Values, Block, Blocks
<1> QED
  BY <1>1, <1>2, <1>3 DEF Voting!QuorumAssumption, Values
-----------------------------------------------------------------------------
InBounds(h, r) == h \in 1 .. MaxHeight /\ r \in StartRound .. MaxRound

\* The messages name heights and rounds within the bounds, and blocks proposed there.
WellNamed(K) ==
  \A m \in K : /\ InBounds(m.height, m.round)
               /\ m.type \in {"Proposal", "Prevote", "Precommit"} => m.block \in Values \cup {Nil}

LEMMA PolkaNamed ==
  ASSUME NEW K, WellNamed(K), NEW type \in Votes, NEW h, NEW r, NEW b, PolkaIn(K, type, h, r, b)
  PROVE  b \in Values \cup {Nil}
<1>1. PICK m \in K : m.type = type /\ m.block = b
  BY PolkaVoter
<1> QED
  BY <1>1 DEF WellNamed, Votes

\* The records in which a handler of n that began with o and runs in round r can be.
Named(n, S, o, h, r) ==
  {s \in Kept(n, S, o) : /\ s.currentHeight = h /\ s.currentRound = r
                         /\ WellNamed(S \cup s.out)}

LEMMA NamedClosed ==
  ASSUME Equivocators = {}, NEW n \in Validators, NEW S, NEW o \in NodeRecords,
         NEW h, NEW r, InBounds(h, r)
  PROVE  Closed(n, S, Named(n, S, o, h, r))
<1> SUFFICES ASSUME NEW s \in Named(n, S, o, h, r), NEW t \in NodeRecords,
                    Sound(n, s, S), Sound(n, t, S), Step(n, S, s, t)
             PROVE  t \in Named(n, S, o, h, r)
  BY DEF Closed
<1>1. /\ s \in Kept(n, S, o) /\ s \in NodeRecords /\ LockFacts(n, s, S)
      /\ s.currentHeight = h /\ s.currentRound = r /\ WellNamed(S \cup s.out)
  BY DEF Named, Kept
<1>2. t \in Kept(n, S, o)
  BY <1>1, HonestKeepQuorum, KeptClosed DEF Closed
<1>3. CASE Onward(n, S, s, t)
  <2>1. t.currentHeight = h /\ t.currentRound = r
    BY <1>1, <1>3 DEF Onward, Frame
  <2>2. Justified(s, S \cup s.out)
    BY <1>1 DEF LockFacts, RecordFacts
  <2>3. /\ s.lockedBlock \in Values \cup {Nil}
        /\ s.validBlock \in Values \cup {Nil}
    BY <1>1, <2>2, PolkaNamed DEF Justified, Votes
  <2>4. Block(h, r) \in Values
    BY DEF InBounds, Values
  <2>5. SelectProposalBlock(s) \in Values
    BY <1>1, <2>3, <2>4 DEF SelectProposalBlock
  <2>6. ASSUME NEW m \in t.out \ s.out
        PROVE  /\ InBounds(m.height, m.round)
               /\ m.type \in {"Proposal", "Prevote", "Precommit"} => m.block \in Values \cup {Nil}
    <3>1. Current(s, m) /\ Warranted(n, s, S \cup s.out, m)
      BY <1>3, <2>6 DEF Onward
    <3>2. InBounds(m.height, m.round)
      BY <1>1, <3>1 DEF Current
    <3>3. m.type = "Proposal" => m.block \in Values
      BY <2>5, <3>1 DEF Warranted
    <3>4. m.type = "Prevote" => m.block \in Values \cup {Nil}
      BY <1>1, <3>1 DEF Warranted, WellNamed
    <3>5. m.type = "Precommit" => m.block \in Values \cup {Nil}
      BY <2>3, <3>1 DEF Warranted
    <3> QED
      BY <3>2, <3>3, <3>4, <3>5
  <2>7. WellNamed(S \cup t.out)
    BY <1>1, <2>6 DEF WellNamed
  <2> QED
    BY <1>2, <2>1, <2>7 DEF Named
<1>4. CASE Locks(n, s, t) \/ Unlocks(n, s, t)
  <2>1. t.currentHeight = h /\ t.currentRound = r /\ t.out = s.out
    BY <1>1, <1>4 DEF Locks, LockedOn, Unlocks, Unlocked, NodeRecords
  <2> QED
    BY <1>1, <1>2, <2>1 DEF Named
<1> QED
  BY <1>3, <1>4 DEF Step
-----------------------------------------------------------------------------
\* A validator is at the height that is run, or at the one before.
PlaceInv ==
  /\ LockInv
  /\ height \in 1 .. MaxHeight
  /\ WellNamed(sent) /\ \A m \in sent : m.height <= height
  /\ \A n \in Validators :
       LET s == node[n]
       IN  /\ s.currentHeight \in {height - 1, height}
           /\ s.active => s.currentHeight = height
           /\ s.currentHeight > 0 => s.currentRound \in StartRound .. MaxRound

\* Where the handlers of n may take it: nowhere, to the next round, to the next height.
Moves(n, s) ==
  LET o == node[n]
  IN  \/ /\ o.active /\ s.currentHeight = o.currentHeight
         /\ s.currentRound = o.currentRound
      \/ /\ o.active /\ s.currentHeight = o.currentHeight
         /\ o.currentRound < MaxRound /\ s.currentRound = o.currentRound + 1
      \/ /\ o.currentHeight < height /\ s.currentHeight = height
         /\ s.currentRound = StartRound

LEMMA OpensNamed ==
  ASSUME PlaceInv, NEW n \in Validators, NEW o, Opens(n, o)
  PROVE  /\ o \in Named(n, sent, node[n], height, o.currentRound)
         /\ InBounds(height, o.currentRound) /\ Moves(n, o)
<1> DEFINE s == node[n]
<1>1. /\ s \in NodeRecords /\ Sound(n, s, sent) /\ s.out = {} /\ height \in 1 .. MaxHeight
      /\ WellNamed(sent) /\ s.currentRound \in Nat
      /\ s.active => s.currentHeight = height /\ s.currentRound \in StartRound .. MaxRound
  BY DEF PlaceInv, LockInv, VotesInv, TypeOK, NodeRecords
<1>2. {StartRound, MaxHeight, MaxRound} \subseteq Nat /\ StartRound <= MaxRound
  BY BoundsAssumption, TimeoutAssumption
<1>3. o \in Kept(n, sent, s)
  BY OpensFacts DEF PlaceInv
<1> HIDE DEF s
<1>4. /\ o.currentHeight = height /\ o.out = {}
      /\ \/ s.active /\ o.currentRound = s.currentRound
         \/ s.active /\ s.currentRound < MaxRound /\ o.currentRound = s.currentRound + 1
         \/ s.currentHeight < height /\ o.currentRound = StartRound
  <2>1. CASE s.active /\ o = s
    BY <1>1, <2>1
  <2>2. CASE /\ s.active /\ ~s.roundActive /\ s.currentRound < MaxRound
             /\ o = Opened(Escalated(s), s.currentRound + 1)
    <3>1. Escalated(s) \in NodeRecords
      BY <1>1, EscalatedSound DEF Sound
    <3>2. Escalated(s).currentHeight = s.currentHeight /\ Escalated(s).out = {}
      BY <1>1, <3>1 DEF Escalated, NodeRecords
    <3>3. s.currentRound + 1 \in Nat
      BY <1>1
    <3> QED
      BY <1>1, <2>2, <3>1, <3>2, <3>3, OpenedShape
  <2>3. CASE /\ s.currentHeight < height /\ ~(s.jailed \/ n \in s.jailedPeers)
             /\ o = Opened(Ready(n, s, height), StartRound)
    <3>1. /\ Ready(n, s, height) \in NodeRecords /\ Ready(n, s, height).currentHeight = height
          /\ Ready(n, s, height).out = {}
      BY <1>1, ReadyShape, SMTT(20)
    <3> QED
      BY <1>2, <2>3, <3>1, OpenedShape
  <2> QED
    BY <2>1, <2>2, <2>3 DEF Opens, s
<1>5. InBounds(height, o.currentRound)
  BY <1>1, <1>2, <1>4 DEF InBounds
<1>6. Moves(n, o)
  BY <1>1, <1>4 DEF Moves, s
<1>7. sent \cup o.out = sent
  BY <1>4
<1> QED
  BY <1>1, <1>3, <1>4, <1>5, <1>6, <1>7 DEF Named, s

\* What a handler of n that ends with s leaves to be mapped.
Handled(n, s) ==
  /\ Ended(n, s, sent)
  /\ Moves(n, s) /\ s.currentHeight = height /\ InBounds(height, s.currentRound)
  /\ WellNamed(sent \cup s.out)
  /\ MessageFacts(sent \cup s.out) /\ OwnCommit(s, sent \cup s.out)
  /\ NewFree(n, s, sent) /\ OutNow(s)

LEMMA HandlersHandled ==
  ASSUME Equivocators = {}, PlaceInv, NEW n \in Validators, Proceed(n) \/ Receive(n)
  PROVE  \E s : Handled(n, s) /\ \E consumed : Finish(n, s, consumed)
<1>1. /\ VotesInv /\ node[n] \in NodeRecords /\ node[n].out = {} /\ height \in 1 .. MaxHeight
      /\ MessageFacts(sent) /\ WellNamed(sent)
  BY DEF PlaceInv, LockInv, VotesInv, TypeOK
<1>2. PICK s : /\ \E consumed : Finish(n, s, consumed)
               /\ Ended(n, s, sent)
               /\ Declines(n, s) \/ \E q : Opens(n, q) /\ Walks(n, q, s)
  BY <1>1, HandlersWalk
<1>3. CASE \E q : Opens(n, q) /\ Walks(n, q, s)
  <2>1. PICK q : Opens(n, q) /\ Walks(n, q, s)
    BY <1>3
  <2>2. /\ q \in Named(n, sent, node[n], height, q.currentRound)
        /\ InBounds(height, q.currentRound) /\ Moves(n, q)
    BY <2>1, OpensNamed
  <2>3. s \in Named(n, sent, node[n], height, q.currentRound)
    BY <1>1, <2>1, <2>2, NamedClosed DEF Walks
  <2>4. s.currentHeight = height /\ s.currentRound = q.currentRound /\ q.currentHeight = height
    BY <2>2, <2>3 DEF Named
  <2>5. Moves(n, s)
    BY <2>2, <2>4 DEF Moves
  <2> QED
    BY <1>2, <2>2, <2>3, <2>4, <2>5 DEF Named, Kept, LockFacts, RecordFacts, Handled
<1>4. CASE Declines(n, s)
  <2>1. /\ s.currentHeight = height /\ s.currentRound = StartRound /\ ~s.committed /\ s.out = {}
        /\ node[n].currentHeight < height
    BY <1>1, <1>4, BegunShape DEF Declines
  <2>2. sent \cup s.out = sent
    BY <2>1
  <2>3. InBounds(height, StartRound)
    BY <1>1, BoundsAssumption, TimeoutAssumption DEF InBounds
  <2> QED
    BY <1>1, <1>2, <2>1, <2>2, <2>3 DEF Handled, Moves, OwnCommit, NewFree, OutNow
<1> QED
  BY <1>2, <1>3, <1>4

LEMMA PlaceInit == Init => PlaceInv
<1> SUFFICES ASSUME Init PROVE PlaceInv
  OBVIOUS
<1>1. LockInv /\ height = 1 /\ sent = {} /\ \A n \in Validators : node[n] = NewNode
  BY LockInit DEF Init
<1>2. NewNode.currentHeight = 0 /\ ~NewNode.active
  BY DEF NewNode
<1>3. 1 \in 1 .. MaxHeight
  BY BoundsAssumption
<1> QED
  BY <1>1, <1>2, <1>3 DEF PlaceInv, WellNamed

LEMMA PlaceNext ==
  ASSUME Equivocators = {}
  PROVE  PlaceInv /\ [Next]_vars => PlaceInv'
<1> SUFFICES ASSUME PlaceInv, [Next]_vars PROVE PlaceInv'
  OBVIOUS
<1>1. LockInv'
  BY HonestKeepQuorum, LockNext DEF PlaceInv
<1>2. node \in [Validators -> NodeRecords] /\ height \in 1 .. MaxHeight
  BY DEF PlaceInv, LockInv, VotesInv, TypeOK
<1>3. ASSUME NEW n \in Validators, Proceed(n) \/ Receive(n) PROVE PlaceInv'
  <2>1. PICK s : Handled(n, s) /\ \E consumed : Finish(n, s, consumed)
    BY <1>3, HandlersHandled
  <2>2. /\ height' = height /\ sent' = sent \cup s.out
        /\ node' = [node EXCEPT ![n] = Done(s)] /\ s \in NodeRecords
    BY <2>1 DEF Finish, Done, Handled, Ended
  <2>3. /\ Done(s).currentHeight = height
        /\ Done(s).currentRound \in StartRound .. MaxRound
    BY <2>1, <2>2, DoneShape DEF Handled, InBounds
  <2>4. \A m \in sent' : m.height <= height'
    BY <1>2, <2>1, <2>2 DEF PlaceInv, Handled, OutNow, Current
  <2> QED
    BY <1>1, <1>2, <2>1, <2>2, <2>3, <2>4 DEF PlaceInv, Handled
<1>4. CASE UNCHANGED <<height, node, sent>>
  BY <1>1, <1>4 DEF PlaceInv
<1>5. CASE NextHeight
  <2>1. /\ height < MaxHeight /\ height' = height + 1 /\ UNCHANGED <<node, sent>>
        /\ \A v \in Validators : node[v].currentHeight = height /\ ~node[v].active
    BY <1>5 DEF NextHeight
  <2>2. height' \in 1 .. MaxHeight /\ height = height' - 1
    BY <1>2, <2>1, BoundsAssumption
  <2>3. \A m \in sent' : m.height <= height'
    BY <1>2, <2>1 DEF PlaceInv, WellNamed, InBounds
  <2> QED
    BY <1>1, <2>1, <2>2, <2>3 DEF PlaceInv
<1> QED
  BY <1>3, <1>4, <1>5 DEF Next, Lose, vars
-----------------------------------------------------------------------------
\* A quorum of LockedVoting is a Polka of the messages.
VotesIn(K, type) ==
  {[from |-> m.from, height |-> m.height, round |-> m.round, block |-> m.block]
     : m \in {k \in K : k.type = type}}

LEMMA VotesMapped == \A type : VotesOf(type) = VotesIn(sent, type)
  BY DEF VotesOf, VotesIn, Sent

LEMMA PolkaMapped ==
  ASSUME NEW K, NEW type, NEW h, NEW r, NEW b
  PROVE  Voting!Certified(VotesIn(K, type), h, r, b) <=> PolkaIn(K, type, h, r, b)
<1> DEFINE V == VotersIn(K, type, h, r, b)
<1>1. V \in SUBSET Validators
  BY DEF VotersIn
<1>2. \A v \in Validators : v \in V <=> Voting!Vote(v, h, r, b) \in VotesIn(K, type)
  BY DEF VotersIn, VotesIn, Voting!Vote
<1> HIDE DEF V
<1>3. ASSUME PowerOf(V) >= QuorumOf(Total)
      PROVE  Voting!Certified(VotesIn(K, type), h, r, b)
  <2>1. V \in {Q \in SUBSET Validators : PowerOf(Q) >= QuorumOf(PowerOf(Validators))}
    BY <1>1, <1>3 DEF Total
  <2>2. \A v \in V : Voting!Vote(v, h, r, b) \in VotesIn(K, type)
    BY <1>1, <1>2
  <2> QED
    BY <2>1, <2>2 DEF Voting!Certified
<1>4. ASSUME Voting!Certified(VotesIn(K, type), h, r, b)
      PROVE  PowerOf(V) >= QuorumOf(Total)
  <2>1. PICK Q \in SUBSET Validators :
          /\ PowerOf(Q) >= QuorumOf(Total)
          /\ \A v \in Q : Voting!Vote(v, h, r, b) \in VotesIn(K, type)
    BY <1>4 DEF Voting!Certified, Total
  <2>2. Q \in SUBSET V
    BY <1>2, <2>1
  <2>3. PowerOf(Q) \in Nat /\ PowerOf(V) \in Nat /\ PowerOf(Q) <= PowerOf(V)
    BY <1>1, <2>2, PowerGrows
  <2> QED
    BY <2>1, <2>3, QuorumType
<1> QED
  BY <1>3, <1>4 DEF PolkaIn, V

\* A handler adds at most one vote of each type, in the round it ends in.
LEMMA OneVoteAdded ==
  ASSUME Equivocators = {}, NEW n \in Validators, NEW s, Handled(n, s), NEW type \in Votes
  PROVE  \/ VotesIn(sent \cup s.out, type) = VotesIn(sent, type)
         \/ /\ ~Voting!HasVoted(VotesIn(sent, type), n, height, s.currentRound)
            /\ \E m \in s.out :
                 /\ m.type = type /\ m.height = height /\ m.round = s.currentRound
                 /\ VotesIn(sent \cup s.out, type) =
                      VotesIn(sent, type) \cup {Voting!Vote(n, height, s.currentRound, m.block)}
<1> DEFINE K == sent \cup s.out
           Of(m) == [from |-> m.from, height |-> m.height, round |-> m.round, block |-> m.block]
<1>1. /\ \A m \in s.out : m.from = n /\ m.height = height /\ m.round = s.currentRound
      /\ \A a, b \in {k \in K : k.type = type} :
           a.from = b.from /\ a.height = b.height /\ a.round = b.round => a = b
  BY DEF Handled, Ended, OutNow, Current, OneVote
<1>2. CASE \A m \in s.out : m.type = type => m \in sent
  BY <1>2 DEF VotesIn
<1>3. ASSUME NEW m \in s.out, m.type = type, m \notin sent
      PROVE  /\ ~Voting!HasVoted(VotesIn(sent, type), n, height, s.currentRound)
             /\ VotesIn(K, type) =
                  VotesIn(sent, type) \cup {Voting!Vote(n, height, s.currentRound, m.block)}
  <2>1. ~Voting!HasVoted(VotesIn(sent, type), n, height, s.currentRound)
    BY <1>1, <1>3 DEF Voting!HasVoted, VotesIn
  <2>2. Of(m) = Voting!Vote(n, height, s.currentRound, m.block)
    BY <1>1 DEF Voting!Vote
  <2>3. {k \in K : k.type = type} = {k \in sent : k.type = type} \cup {m}
    BY <1>1, <1>3
  <2> QED
    BY <2>1, <2>2, <2>3 DEF VotesIn
<1> QED
  BY <1>1, <1>2, <1>3

LEMMA FreeMapped ==
  ASSUME WellNamed(sent), NEW n, NEW h, NEW r, NEW b, FreeIn(sent, n, h, r, b)
  PROVE  Voting!Free(n, h, r, b)
<1> SUFFICES ASSUME NEW v \in VotesIn(sent, "Precommit"),
                    v.from = n, v.height = h, v.block \notin {Nil, b}
             PROVE  \E q \in v.round + 1 .. r, c \in (Values \cup {Nil}) \ {v.block} :
                      Voting!Certified(VotesIn(sent, "Prevote"), h, q, c)
  BY VotesMapped DEF Voting!Free, Values
<1>1. PICK m \in sent : /\ m.type = "Precommit" /\ m.from = n /\ m.height = h
                        /\ m.round = v.round /\ m.block = v.block
  BY DEF VotesIn
<1>2. PICK q \in v.round + 1 .. r, c \in (Blocks \cup {Nil}) \ {v.block} :
        PolkaIn(sent, "Prevote", h, q, c)
  BY <1>1 DEF FreeIn
<1>3. c \in Values \cup {Nil}
  BY <1>2, PolkaNamed DEF Votes
<1> QED
  BY <1>2, <1>3, PolkaMapped
-----------------------------------------------------------------------------
\* LockedVotingProofs, of the same votes.
Locked ==
  INSTANCE LockedVotingProofs WITH
    Quorums <- {Q \in SUBSET Validators : PowerOf(Q) >= QuorumOf(PowerOf(Validators))},
    Values <- {Block(h, r) : h \in 1 .. MaxHeight, r \in StartRound .. MaxRound},
    at <- [v \in Validators |->
             [height |-> node[v].currentHeight, round |-> node[v].currentRound]],
    prevotes <- VotesOf("Prevote"),
    precommits <- VotesOf("Precommit"),
    decided <- [v \in Validators |->
                  IF node[v].committed THEN node[v].committedBlock ELSE Nil]

\* The two instances say the same.
LEMMA LockedAlike ==
  /\ \A v, h, r, b : Voting!Vote(v, h, r, b) = Locked!Vote(v, h, r, b)
  /\ \A votes, h, r, b : Voting!Certified(votes, h, r, b) <=> Locked!Certified(votes, h, r, b)
  /\ \A votes, v, h, r : Voting!HasVoted(votes, v, h, r) <=> Locked!HasVoted(votes, v, h, r)
  /\ \A v, h, r, b : Voting!Free(v, h, r, b) <=> Locked!Free(v, h, r, b)
<1>1. \A v, h, r, b : Voting!Vote(v, h, r, b) = Locked!Vote(v, h, r, b)
  BY DEF Voting!Vote, Locked!Vote
<1>2. \A votes, h, r, b : Voting!Certified(votes, h, r, b) <=> Locked!Certified(votes, h, r, b)
  BY <1>1 DEF Voting!Certified, Locked!Certified
<1>3. \A votes, v, h, r : Voting!HasVoted(votes, v, h, r) <=> Locked!HasVoted(votes, v, h, r)
  BY DEF Voting!HasVoted, Locked!HasVoted
<1>4. \A v, h, r, b : Voting!Free(v, h, r, b) <=> Locked!Free(v, h, r, b)
  BY <1>2 DEF Voting!Free, Locked!Free
<1> QED
  BY <1>1, <1>2, <1>3, <1>4

PlaceOf(nodes) ==
  [v \in Validators |-> [height |-> nodes[v].currentHeight, round |-> nodes[v].currentRound]]

DecidedOf(nodes) ==
  [v \in Validators |-> IF nodes[v].committed THEN nodes[v].committedBlock ELSE Nil]

\* What the step of a handler does to the variables that are mapped.
Stores(n, s) ==
  /\ node' = [node EXCEPT ![n] = Done(s)] /\ sent' = sent \cup s.out

LEMMA StoresMapped ==
  ASSUME PlaceInv, NEW n \in Validators, NEW s, Handled(n, s), Stores(n, s)
  PROVE  /\ PlaceOf(node') = [PlaceOf(node) EXCEPT
                                ![n] = [height |-> height, round |-> s.currentRound]]
         /\ DecidedOf(node') = [DecidedOf(node) EXCEPT
                                  ![n] = IF s.committed THEN s.committedBlock ELSE Nil]
         /\ \A type : VotesOf(type)' = VotesIn(sent \cup s.out, type)
<1>1. /\ node \in [Validators -> NodeRecords] /\ s \in NodeRecords /\ s.currentHeight = height
  BY DEF PlaceInv, LockInv, VotesInv, TypeOK, Handled, Ended
<1>2. /\ Done(s).currentHeight = height /\ Done(s).currentRound = s.currentRound
      /\ Done(s).committedBlock = s.committedBlock
  BY <1>1, DoneShape
<1>3. Done(s).committed = s.committed
  BY <1>1, DoneShape
<1>4. \A v \in Validators : node'[v] = IF v = n THEN Done(s) ELSE node[v]
  BY <1>1 DEF Stores
<1>5. PlaceOf(node') = [PlaceOf(node) EXCEPT
                         ![n] = [height |-> height, round |-> s.currentRound]]
  BY <1>2, <1>4 DEF PlaceOf
<1>6. DecidedOf(node') = [DecidedOf(node) EXCEPT
                           ![n] = IF s.committed THEN s.committedBlock ELSE Nil]
  BY <1>2, <1>3, <1>4 DEF DecidedOf
<1>7. \A type : VotesOf(type)' = VotesIn(sent \cup s.out, type)
  BY DEF VotesOf, VotesIn, Sent, Stores
<1> QED
  BY <1>5, <1>6, <1>7

LEMMA MovesMapped ==
  ASSUME PlaceInv, NEW n \in Validators, NEW s, Handled(n, s), Stores(n, s)
  PROVE  Voting!Proceed(n)
<1> DEFINE at == PlaceOf(node)
           o  == node[n]
<1>1. /\ o.currentHeight \in {height - 1, height} /\ height \in 1 .. MaxHeight
      /\ o.active => o.currentHeight = height
      /\ o.active => ~o.committed
      /\ at[n] = [height |-> o.currentHeight, round |-> o.currentRound]
      /\ at[n].height = o.currentHeight /\ at[n].round = o.currentRound
      /\ at = [v \in Validators |-> at[v]]
  BY DEF PlaceInv, LockInv, PlaceOf
<1>2. PlaceOf(node') = [at EXCEPT ![n] = [height |-> height, round |-> s.currentRound]]
  BY StoresMapped
<1>3. MaxHeight \in Nat /\ height \in Nat
  BY <1>1, BoundsAssumption
<1> HIDE DEF at, o
<1>4. CASE /\ o.active /\ s.currentHeight = o.currentHeight
           /\ s.currentRound = o.currentRound
  <2>1. PlaceOf(node') = at
    BY <1>1, <1>2, <1>4
  <2> QED
    BY <2>1 DEF Voting!Proceed, PlaceOf, at
<1>5. CASE /\ o.active /\ s.currentHeight = o.currentHeight
           /\ o.currentRound < MaxRound /\ s.currentRound = o.currentRound + 1
  <2>1. PlaceOf(node') = [at EXCEPT ![n].round = @ + 1]
    <3>1. [at[n] EXCEPT !.round = @ + 1] = [height |-> height, round |-> s.currentRound]
      BY <1>1, <1>5
    <3> QED
      BY <1>2, <3>1
  <2>2. at[n].height > 0 /\ at[n].round < MaxRound
    BY <1>1, <1>3, <1>5
  <2>3. DecidedOf(node)[n] = Nil
    BY <1>1, <1>5 DEF DecidedOf, o
  <2> QED
    BY <2>1, <2>2, <2>3 DEF Voting!Proceed, PlaceOf, DecidedOf, at
<1>6. CASE o.currentHeight < height /\ s.currentHeight = height /\ s.currentRound = StartRound
  <2>1. at[n].height < MaxHeight /\ at[n].height + 1 = height
    BY <1>1, <1>3, <1>6
  <2>2. PlaceOf(node') = [at EXCEPT ![n] = [height |-> @.height + 1, round |-> StartRound]]
    BY <1>1, <1>2, <1>6, <2>1
  <2> QED
    BY <2>1, <2>2 DEF Voting!Proceed, PlaceOf, at
<1> QED
  BY <1>4, <1>5, <1>6 DEF Handled, Moves, o

LEMMA PrevoteMapped ==
  ASSUME Equivocators = {}, PlaceInv, NEW n \in Validators, NEW s,
         Handled(n, s), Stores(n, s)
  PROVE  Voting!Prevote(n, height, s.currentRound)
<1> DEFINE r == s.currentRound
           before == VotesIn(sent, "Prevote")
           after  == VotesIn(sent \cup s.out, "Prevote")
<1>1. VotesOf("Prevote") = before /\ VotesOf("Prevote")' = after
  BY VotesMapped, StoresMapped
<1>2. CASE after = before
  BY <1>1, <1>2 DEF Voting!Prevote
<1>3. CASE /\ ~Voting!HasVoted(before, n, height, r)
           /\ \E m \in s.out :
                /\ m.type = "Prevote" /\ m.height = height /\ m.round = r
                /\ after = before \cup {Voting!Vote(n, height, r, m.block)}
  <2>1. PICK m \in s.out : /\ m.type = "Prevote" /\ m.height = height /\ m.round = r
                           /\ after = before \cup {Voting!Vote(n, height, r, m.block)}
    BY <1>3
  <2>2. m.block \in Values \cup {Nil}
    BY <2>1 DEF Handled, WellNamed
  <2>3. m.block # Nil => Voting!Free(n, height, r, m.block)
    BY <2>1, FreeMapped DEF Handled, NewFree, PlaceInv
  <2> HIDE DEF before, after
  <2> QED
    BY <1>1, <1>3, <2>1, <2>2, <2>3 DEF Voting!Prevote, Values
<1> QED
  BY <1>2, <1>3, OneVoteAdded DEF Votes

LEMMA PrecommitMapped ==
  ASSUME Equivocators = {}, PlaceInv, NEW n \in Validators, NEW s,
         Handled(n, s), Stores(n, s)
  PROVE  Voting!Precommit(n, height, s.currentRound)
<1> DEFINE r == s.currentRound
           before == VotesIn(sent, "Precommit")
           after  == VotesIn(sent \cup s.out, "Precommit")
<1>1. /\ VotesOf("Precommit") = before /\ VotesOf("Precommit")' = after
      /\ VotesOf("Prevote")' = VotesIn(sent \cup s.out, "Prevote")
  BY VotesMapped, StoresMapped
<1>2. CASE after = before
  BY <1>1, <1>2 DEF Voting!Precommit
<1>3. CASE /\ ~Voting!HasVoted(before, n, height, r)
           /\ \E m \in s.out :
                /\ m.type = "Precommit" /\ m.height = height /\ m.round = r
                /\ after = before \cup {Voting!Vote(n, height, r, m.block)}
  <2>1. PICK m \in s.out : /\ m.type = "Precommit" /\ m.height = height /\ m.round = r
                           /\ after = before \cup {Voting!Vote(n, height, r, m.block)}
    BY <1>3
  <2>2. m.block \in Values \cup {Nil}
    BY <2>1 DEF Handled, WellNamed
  <2>3. m.block # Nil => PolkaIn(sent \cup s.out, "Prevote", height, r, m.block)
    BY <2>1 DEF Handled, MessageFacts
  <2>4. m.block # Nil => Voting!Certified(VotesOf("Prevote")', height, r, m.block)
    BY <1>1, <2>3, PolkaMapped
  <2> HIDE DEF before, after
  <2> QED
    BY <1>1, <1>3, <2>1, <2>2, <2>4 DEF Voting!Precommit, Values
<1> QED
  BY <1>2, <1>3, OneVoteAdded DEF Votes

LEMMA CommitMapped ==
  ASSUME PlaceInv, NEW n \in Validators, NEW s, Handled(n, s), Stores(n, s)
  PROVE  /\ Voting!Decide(n, PlaceOf(node')[n].height, PlaceOf(node')[n].round)
         /\ Locked!Decide(n, PlaceOf(node')[n].height, PlaceOf(node')[n].round)
<1> DEFINE o == node[n]
           h == PlaceOf(node')[n].height
           r == PlaceOf(node')[n].round
           decided == DecidedOf(node)
           same == PlaceOf(node')[n].height = PlaceOf(node)[n].height
           before == IF same THEN decided ELSE [decided EXCEPT ![n] = Nil]
<1>1. /\ h = height /\ r = s.currentRound /\ PlaceOf(node)[n].height = o.currentHeight
      /\ DecidedOf(node') = [decided EXCEPT ![n] = IF s.committed THEN s.committedBlock ELSE Nil]
      /\ VotesOf("Precommit")' = VotesIn(sent \cup s.out, "Precommit")
  <2>1. /\ PlaceOf(node') = [PlaceOf(node) EXCEPT
                              ![n] = [height |-> height, round |-> s.currentRound]]
        /\ n \in DOMAIN PlaceOf(node)
    BY StoresMapped DEF PlaceOf
  <2>2. PlaceOf(node)[n].height = o.currentHeight
    BY DEF PlaceOf
  <2>3. h = height /\ r = s.currentRound
    BY <2>1
  <2> QED
    BY <2>2, <2>3, StoresMapped
<1>2. before[n] = Nil /\ \A v \in Validators \ {n} : before[v] = decided[v]
  <2>1. o.active \/ o.currentHeight < height
    BY DEF Handled, Moves
  <2>2. o.active => ~o.committed
    BY DEF PlaceInv, LockInv
  <2>3. height \in Nat /\ o.currentHeight \in Nat
    BY DEF PlaceInv, LockInv, VotesInv, TypeOK, NodeRecords
  <2>4. same => o.active
    BY <1>1, <2>1, <2>3
  <2> QED
    BY <2>2, <2>4 DEF DecidedOf
<1>3. DOMAIN before = Validators /\ before = [v \in Validators |-> before[v]]
  BY DEF DecidedOf
<1>4. CASE ~s.committed
  <2>1. DecidedOf(node') = before
    BY <1>1, <1>2, <1>3, <1>4 DEF DecidedOf
  <2>2. Voting!Decide(n, h, r)
    BY <2>1 DEF Voting!Decide, DecidedOf, PlaceOf
  <2>3. Locked!Decide(n, h, r)
    BY <2>1 DEF Locked!Decide, DecidedOf, PlaceOf
  <2> QED
    BY <2>2, <2>3
<1>5. CASE s.committed
  <2>1. /\ s.committedBlock # Nil
        /\ PolkaIn(sent \cup s.out, "Precommit", height, s.currentRound, s.committedBlock)
    BY <1>5 DEF Handled, OwnCommit
  <2>2. s.committedBlock \in Values
    BY <2>1, PolkaNamed DEF Handled, Votes
  <2>3. Voting!Certified(VotesOf("Precommit")', h, r, s.committedBlock)
    BY <1>1, <2>1, PolkaMapped
  <2>4. DecidedOf(node') = [decided EXCEPT ![n] = s.committedBlock]
    BY <1>1, <1>5
  <2>5. Voting!Decide(n, h, r)
    BY <1>2, <2>2, <2>3, <2>4 DEF Voting!Decide, DecidedOf, PlaceOf, Values
  <2>6. Locked!Decide(n, h, r)
    BY <1>2, <2>2, <2>3, <2>4, LockedAlike DEF Locked!Decide, DecidedOf, PlaceOf, Values
  <2> QED
    BY <2>5, <2>6
<1> QED
  BY <1>4, <1>5

LEMMA HandlerMapped ==
  ASSUME Equivocators = {}, PlaceInv, NEW n \in Validators, Proceed(n) \/ Receive(n)
  PROVE  Voting!Handle(n) /\ Locked!Handle(n)
<1> DEFINE h == PlaceOf(node')[n].height
           r == PlaceOf(node')[n].round
<1>1. PICK s : Handled(n, s) /\ Stores(n, s)
  <2>1. PICK s : Handled(n, s) /\ \E consumed : Finish(n, s, consumed)
    BY HandlersHandled
  <2>2. Stores(n, s)
    BY <2>1 DEF Finish, Done, Stores
  <2> QED
    BY <2>1, <2>2
<1>2. h = height /\ r = s.currentRound
  <2>1. PlaceOf(node') = [PlaceOf(node) EXCEPT
                           ![n] = [height |-> height, round |-> s.currentRound]]
    BY <1>1, StoresMapped
  <2>2. n \in DOMAIN PlaceOf(node)
    BY DEF PlaceOf
  <2> QED
    BY <2>1, <2>2
<1>3. h > 0
  BY <1>2 DEF PlaceInv
<1>4. Voting!Proceed(n) /\ Locked!Proceed(n)
  <2>1. Voting!Proceed(n)
    BY <1>1, MovesMapped
  <2> QED
    BY <2>1 DEF Voting!Proceed, Locked!Proceed
<1>5. Voting!Prevote(n, h, r) /\ Locked!Prevote(n, h, r)
  <2>1. Voting!Prevote(n, height, s.currentRound)
    BY <1>1, PrevoteMapped
  <2>2. Voting!Prevote(n, h, r)
    BY <1>2, <2>1 DEF Voting!Prevote
  <2> QED
    BY <2>2, LockedAlike DEF Voting!Prevote, Locked!Prevote
<1>6. Voting!Precommit(n, h, r) /\ Locked!Precommit(n, h, r)
  <2>1. Voting!Precommit(n, height, s.currentRound)
    BY <1>1, PrecommitMapped
  <2>2. Voting!Precommit(n, h, r)
    BY <1>2, <2>1 DEF Voting!Precommit
  <2> QED
    BY <2>2, LockedAlike DEF Voting!Precommit, Locked!Precommit
<1>7. Voting!Decide(n, h, r) /\ Locked!Decide(n, h, r)
  BY <1>1, CommitMapped
<1>8. Voting!Handle(n)
  BY <1>3, <1>4, <1>5, <1>6, <1>7 DEF Voting!Handle, PlaceOf
<1>9. Locked!Handle(n)
  BY <1>3, <1>4, <1>5, <1>6, <1>7 DEF Locked!Handle, PlaceOf
<1> QED
  BY <1>8, <1>9

LEMMA InitMapped == Init => Voting!Init /\ Locked!Init
<1> SUFFICES ASSUME Init PROVE Voting!Init /\ Locked!Init
  OBVIOUS
<1>1. sent = {} /\ \A v \in Validators : node[v] = NewNode
  BY DEF Init
<1>2. NewNode.currentHeight = 0 /\ NewNode.currentRound = 0 /\ ~NewNode.committed
  BY DEF NewNode
<1>3. VotesOf("Prevote") = {} /\ VotesOf("Precommit") = {}
  BY <1>1 DEF VotesOf, Sent
<1> QED
  BY <1>1, <1>2, <1>3 DEF Voting!Init, Locked!Init

LEMMA StepMapped ==
  ASSUME Equivocators = {}, PlaceInv, [Next]_vars
  PROVE  [Voting!Next]_Voting!vars /\ [Locked!Next]_Locked!vars
<1>1. CASE \E n \in Validators : Proceed(n) \/ Receive(n)
  BY <1>1, HandlerMapped DEF Voting!Next, Locked!Next
<1>2. CASE UNCHANGED <<node, sent>>
  BY <1>2 DEF Voting!vars, Locked!vars, VotesOf, Sent
<1> QED
  BY <1>1, <1>2 DEF Next, NextHeight, Lose, vars

\* Without double-signers every handler, with all the calls it makes, is one step of
\* LockedVoting, for every power map, bound and timeout (handleMessage, the timer
\* handlers, runRound and StartConsensus).
THEOREM ImplementsVoting ==
  ASSUME Equivocators = {}
  PROVE  Spec => ImplementsLockedVoting
<1>1. PlaceInv /\ [Next]_vars => PlaceInv'
  BY PlaceNext
<1>2. PlaceInv /\ [Next]_vars => [Voting!Next]_Voting!vars
  BY StepMapped
<1> QED
  BY <1>1, <1>2, PlaceInit, InitMapped, PTL DEF Spec, ImplementsLockedVoting, Voting!Spec
-----------------------------------------------------------------------------
\* What is decided in LockedVoting is what Commit messages say.
LEMMA AgreementMapped ==
  ASSUME PlaceInv, Voting!DecisionsAgree
  PROVE  AgreementUnlessNilPolka
<1> SUFFICES ASSUME NEW a \in Sent("Commit"), NEW b \in Sent("Commit"),
                    a.height = b.height, a.round <= b.round, a.block # b.block
             PROVE  \E r \in a.round + 1 .. b.round - 1 : Polka("Prevote", a.height, r, Nil)
  BY DEF AgreementUnlessNilPolka
<1>1. WellNamed(sent) /\ MessageFacts(sent)
  BY DEF PlaceInv, LockInv
<1>2. ASSUME NEW c \in Sent("Commit")
      PROVE  /\ InBounds(c.height, c.round) /\ c.block \in Values
             /\ Voting!Certified(VotesOf("Precommit"), c.height, c.round, c.block)
  <2>1. c \in sent /\ c.type = "Commit"
    BY DEF Sent
  <2>2. c.block # Nil /\ PolkaIn(sent, "Precommit", c.height, c.round, c.block)
    BY <1>1, <2>1 DEF MessageFacts
  <2>3. c.block \in Values
    BY <1>1, <2>2, PolkaNamed DEF Votes
  <2>4. InBounds(c.height, c.round)
    BY <1>1, <2>1 DEF WellNamed
  <2> QED
    BY <2>2, <2>3, <2>4, PolkaMapped, VotesMapped
<1>3. \E q \in a.round + 1 .. b.round - 1 :
        Voting!Certified(VotesOf("Prevote"), a.height, q, Nil)
  BY <1>2 DEF Voting!DecisionsAgree, InBounds, Values
<1> QED
  BY <1>3, PolkaMapped, VotesMapped, PolkasAreIn

\* Two blocks are committed at one height only if a round between the commits had a
\* quorum of prevotes for nil, for every power map and any number of validators, heights
\* and rounds, when nobody double-signs: the locks of checkPrevoteQuorum and
\* handleProposal leave no other way.
THEOREM CommitsAgree ==
  ASSUME Equivocators = {}
  PROVE  Spec => []AgreementUnlessNilPolka
<1>1. PlaceInv /\ [Next]_vars => PlaceInv'
  BY PlaceNext
<1>2. PlaceInv /\ [Next]_vars => [Locked!Next]_Locked!vars
  BY StepMapped
<1>3. Init => PlaceInv /\ Locked!Init
  BY PlaceInit, InitMapped
<1>4. Locked!QuorumAssumption
  BY QuorumsMeet DEF Voting!QuorumAssumption, Locked!QuorumAssumption
<1>5. Locked!Spec => []Locked!DecisionsAgree
  BY <1>4, Locked!LocksAgree
<1>6. PlaceInv /\ Locked!DecisionsAgree => AgreementUnlessNilPolka
  <2>1. Locked!DecisionsAgree => Voting!DecisionsAgree
    BY LockedAlike DEF Locked!DecisionsAgree, Voting!DecisionsAgree
  <2> QED
    BY <2>1, AgreementMapped
<1> QED
  BY <1>1, <1>2, <1>3, <1>5, <1>6, PTL DEF Spec, Locked!Spec
-----------------------------------------------------------------------------
\* The shares of the active validators, laid end to end, cover all their power, so there
\* is always one for proposerFor to choose.
LEMMA ProposerExists ==
  ASSUME NEW n \in Validators, NEW J, NEW h \in Nat, NEW r \in Nat
  PROVE  ProposerFor(n, J, h, r) \in Validators
<1> DEFINE ids == ActiveValidators(J)
           total == PowerOf(ids)
           offset == (h + r) % total
<1>1. ids \in SUBSET Validators /\ \A v \in ids : Power[v] \in Nat /\ Power[v] > 0
  BY PowerAssumption DEF ActiveValidators
<1>2. /\ total = Held(Power, ids)
      /\ \A v : PowerOf({w \in ids : w < v}) = HeldBelow(Power, ids, v)
  BY PowersHeld DEF HeldBelow
<1> DEFINE Mine(v) == /\ PowerOf({w \in ids : w < v}) <= offset
                      /\ offset < PowerOf({w \in ids : w < v}) + Power[v]
<1>3. ProposerFor(n, J, h, r) = IF ids = {} THEN n ELSE CHOOSE v \in ids : Mine(v)
  BY DEF ProposerFor
<1> HIDE DEF ids
<1>4. CASE ids # {}
  <2>1. PICK v \in ids : TRUE
    BY <1>4
  <2>2. HeldBelow(Power, ids, v) \in Nat /\ HeldBelow(Power, ids, v) + Power[v] <= total
    BY <1>1, <1>2, ValidatorsAssumption, PowerAssumption, SharesApart
  <2>3. total \in Nat
    BY <1>1, PowerGrows
  <2>4. offset \in Nat /\ offset < total
    BY <1>1, <2>2, <2>3, Remainder
  <2> HIDE DEF total, offset
  <2>5. \E w \in ids : Mine(w)
    <3>1. PICK w \in ids : Owns(Power, ids, w, offset)
      BY <1>1, <1>2, <2>4, ValidatorsAssumption, PowerAssumption, SharesCover
    <3> QED
      BY <1>2, <3>1 DEF Owns
  <2> HIDE DEF Mine
  <2> QED
    BY <1>1, <1>3, <1>4, <2>5
<1> QED
  BY <1>3, <1>4
-----------------------------------------------------------------------------
\* Whatever committed s did not commit nil, nor did anybody whose Commit is known.
NamesBlock(s, K) ==
  /\ s.committed => s.committedBlock # Nil
  /\ \A m \in K : m.type = "Commit" => m.block # Nil

Deciding(S, h) ==
  {s \in NodeRecords : s.active /\ s.currentHeight = h /\ NamesBlock(s, S \cup s.out)}

LEMMA DecidingClosed ==
  ASSUME NEW n \in Validators, NEW S, NEW h
  PROVE  Closed(n, S, Deciding(S, h))
<1> SUFFICES ASSUME NEW s \in Deciding(S, h), NEW t \in NodeRecords, Step(n, S, s, t)
             PROVE  t \in Deciding(S, h)
  BY DEF Closed
<1>1. s \in NodeRecords /\ s.active /\ s.currentHeight = h /\ NamesBlock(s, S \cup s.out)
  BY DEF Deciding
<1>2. CASE Onward(n, S, s, t)
  <2>1. t.active /\ t.currentHeight = h
    BY <1>1, <1>2 DEF Onward, Frame
  <2>2. \A m \in t.out \ s.out : m.type = "Commit" => m.block # Nil
    BY <1>2 DEF Onward, Warranted
  <2>3. t.committed => t.committedBlock # Nil
    BY <1>1, <1>2 DEF Onward, CommitWarranted, NamesBlock
  <2> QED
    BY <1>1, <2>1, <2>2, <2>3 DEF Deciding, NamesBlock
<1>3. CASE Locks(n, s, t) \/ Unlocks(n, s, t)
  <2>1. /\ t.active = s.active /\ t.currentHeight = s.currentHeight /\ t.out = s.out
        /\ t.committed = s.committed /\ t.committedBlock = s.committedBlock
    BY <1>1, <1>3, ZenonT(30) DEF Locks, Unlocks, LockedOn, Unlocked, NodeRecords
  <2> QED
    BY <1>1, <2>1 DEF Deciding, NamesBlock
<1> QED
  BY <1>2, <1>3 DEF Step

SettledInv ==
  /\ VotesInv
  /\ height > 0
  /\ \A m \in sent : m.type = "Commit" => m.block # Nil
  /\ \A n \in Validators :
       LET s == node[n]
       IN  /\ s.committed => s.committedBlock # Nil
           /\ s.currentHeight <= height
           /\ s.active => s.currentHeight = height /\ ~s.committed /\ ~s.aborted

LEMMA OpensDeciding ==
  ASSUME SettledInv, NEW n \in Validators, NEW o, Opens(n, o)
  PROVE  o \in Deciding(sent, height)
<1> DEFINE s == node[n]
<1>1. /\ s \in NodeRecords /\ s.out = {} /\ height \in Nat /\ Sound(n, s, sent)
      /\ \A m \in sent : m.type = "Commit" => m.block # Nil
      /\ s.active => s.currentHeight = height /\ ~s.committed
  BY DEF SettledInv, VotesInv, TypeOK
<1>2. StartRound \in Nat /\ s.currentRound + 1 \in Nat
  BY <1>1, TimeoutAssumption DEF NodeRecords
<1> HIDE DEF s
<1>3. ASSUME NEW t \in NodeRecords, t.active, t.currentHeight = height, ~t.committed, t.out = {}
      PROVE  t \in Deciding(sent, height)
  BY <1>1, <1>3 DEF Deciding, NamesBlock
<1>4. CASE s.active /\ o = s
  BY <1>1, <1>3, <1>4
<1>5. ASSUME NEW e \in NodeRecords, NEW r \in Nat, o = Opened(e, r),
             e.active, e.currentHeight = height, ~e.committed, e.out = {}
      PROVE  o \in Deciding(sent, height)
  <2>1. o.active
    BY <1>5, OpenedShape
  <2>2. ~o.committed
    BY <1>5, OpenedShape
  <2>3. o \in NodeRecords /\ o.currentHeight = height /\ o.out = {}
    BY <1>5, OpenedShape
  <2> QED
    BY <1>3, <2>1, <2>2, <2>3
<1>6. CASE s.active /\ o = Opened(Escalated(s), s.currentRound + 1)
  <2>1. Escalated(s) \in NodeRecords
    BY <1>1, EscalatedSound DEF Sound
  <2>2. /\ Escalated(s).active /\ Escalated(s).currentHeight = height
        /\ ~Escalated(s).committed /\ Escalated(s).out = {}
    BY <1>1, <1>6, <2>1 DEF Escalated, NodeRecords
  <2> QED
    BY <1>2, <1>5, <1>6, <2>1, <2>2
<1>7. CASE /\ ~(s.jailed \/ n \in s.jailedPeers)
           /\ o = Opened(Ready(n, s, height), StartRound)
  <2>1. /\ Ready(n, s, height) \in NodeRecords /\ Ready(n, s, height).active
        /\ Ready(n, s, height).currentHeight = height /\ ~Ready(n, s, height).committed
        /\ Ready(n, s, height).out = {}
    BY <1>1, <1>7, ReadyShape
  <2> QED
    BY <1>2, <1>5, <1>7, <2>1
<1> QED
  BY <1>4, <1>6, <1>7 DEF Opens, s

\* What a step of n leaves behind: a validator that took part is still at it, or has
\* committed or given up.
LEMMA HandlersDecide ==
  ASSUME SettledInv, NEW n \in Validators, Proceed(n) \/ Receive(n)
  PROVE  /\ \E s \in NodeRecords : node' = [node EXCEPT ![n] = Done(s)]
         /\ height' = height
         /\ \A m \in sent' : m.type = "Commit" => m.block # Nil
         /\ LET t == node'[n]
            IN  /\ t.currentHeight = height
                /\ t.committed => t.committedBlock # Nil
                /\ t.active => ~t.committed /\ ~t.aborted
                /\ \/ t.active \/ t.committed \/ t.aborted
                   \/ node[n].currentHeight < height /\ Skips(n)
<1>1. /\ VotesInv /\ node \in [Validators -> NodeRecords] /\ height \in Nat
      /\ node[n].out = {} /\ \A m \in sent : m.type = "Commit" => m.block # Nil
  BY DEF SettledInv, VotesInv, TypeOK
<1>2. PICK s : /\ \E consumed : Finish(n, s, consumed)
               /\ Ended(n, s, sent)
               /\ Declines(n, s) \/ \E q : Opens(n, q) /\ Walks(n, q, s)
  BY <1>1, HandlersWalk
<1>3. /\ sent' = sent \cup s.out /\ node' = [node EXCEPT ![n] = Done(s)] /\ height' = height
      /\ s \in NodeRecords
  BY <1>2 DEF Finish, Done, Ended
<1>4. node'[n] = Done(s)
  BY <1>1, <1>3
<1>5. /\ Done(s).currentHeight = s.currentHeight /\ Done(s).committed = s.committed
      /\ Done(s).committedBlock = s.committedBlock /\ Done(s).aborted = s.aborted
      /\ Done(s).active => ~s.committed /\ ~s.aborted
      /\ s.active => Done(s).active \/ s.committed \/ s.aborted
  BY <1>3, DoneShape
<1>6. CASE \E q : Opens(n, q) /\ Walks(n, q, s)
  <2>1. s \in Deciding(sent, height)
    BY <1>6, OpensDeciding, DecidingClosed DEF Walks
  <2> QED
    BY <1>3, <1>4, <1>5, <2>1 DEF Deciding, NamesBlock
<1>7. CASE Declines(n, s)
  <2>1. /\ s.currentHeight = height /\ ~s.committed /\ s.out = {}
        /\ node[n].currentHeight < height /\ Skips(n)
    BY <1>1, <1>7, BegunShape DEF Declines, Skips
  <2> QED
    BY <1>1, <1>3, <1>4, <1>5, <2>1
<1> QED
  BY <1>2, <1>6, <1>7

LEMMA SettledNext == SettledInv /\ [Next]_vars => SettledInv'
<1> SUFFICES ASSUME SettledInv, [Next]_vars PROVE SettledInv'
  OBVIOUS
<1>1. VotesInv' /\ TypeOK /\ height \in Nat
  BY VotesNext DEF SettledInv, VotesInv, TypeOK
<1>2. ASSUME NEW n \in Validators, Proceed(n) \/ Receive(n) PROVE SettledInv'
  <2>1. PICK s \in NodeRecords : node' = [node EXCEPT ![n] = Done(s)]
    BY <1>2, HandlersDecide
  <2>2. \A v \in Validators : v # n => node'[v] = node[v]
    BY <1>1, <2>1 DEF TypeOK
  <2>3. /\ height' = height
        /\ \A m \in sent' : m.type = "Commit" => m.block # Nil
        /\ node'[n].currentHeight = height
        /\ node'[n].committed => node'[n].committedBlock # Nil
        /\ node'[n].active => ~node'[n].committed /\ ~node'[n].aborted
    BY <1>2, HandlersDecide
  <2> QED
    BY <1>1, <2>2, <2>3 DEF SettledInv
<1>3. ASSUME UNCHANGED <<height, node, sent>> PROVE SettledInv'
  BY <1>1, <1>3 DEF SettledInv
<1>4. ASSUME NextHeight PROVE SettledInv'
  <2>1. /\ height' = height + 1 /\ UNCHANGED <<node, sent>>
        /\ \A v \in Validators : ~node[v].active /\ node[v].currentHeight = height
    BY <1>4 DEF NextHeight
  <2> QED
    BY <1>1, <2>1 DEF SettledInv
<1>5. CASE UNCHANGED vars \/ \E n \in Validators : Lose(n)
  BY <1>3, <1>5 DEF Lose, vars
<1> QED
  BY <1>2, <1>4, <1>5 DEF Next

LEMMA SettledInit == Init => SettledInv
<1> SUFFICES ASSUME Init PROVE SettledInv
  OBVIOUS
<1>1. VotesInv /\ sent = {} /\ height = 1 /\ \A n \in Validators : node[n] = NewNode
  BY VotesInit DEF Init
<1>2. NewNode.currentHeight = 0 /\ ~NewNode.active /\ ~NewNode.committed
  BY DEF NewNode
<1> QED
  BY <1>1, <1>2 DEF SettledInv
-----------------------------------------------------------------------------
\* The type of the metrics of a validator.
Measures ==
  [RoundsAttempted: 0 .. MaxRound, CommitRound: {0} \cup Rounds,
   CommitBlock: Blocks \cup {Nil}, Success: BOOLEAN, Aborted: BOOLEAN,
   ProposerByRound: [Rounds -> Validators \cup {NoProposer}],
   Timeouts: [Stages -> 0 .. MaxRound]]

\* The timer of the stage may still fire in this round, and be counted.
MayFire(s, stage) ==
  \/ stage \in s.timers
  \/ stage = "prevote" /\ ~s.prevoteSent
  \/ stage = "precommit" /\ ~s.precommitSent

\* What m has counted when its validator is in the round of s: each stage fires once
\* a round, because its timer is started when the vote before it is cast.
Tallied(s, m) ==
  /\ s.currentRound \in Rounds
  /\ m.RoundsAttempted = s.currentRound - StartRound + 1
  /\ "prevote" \in s.timers => s.prevoteSent
  /\ "precommit" \in s.timers => s.precommitSent
  /\ \A stage \in Stages : /\ m.Timeouts[stage] <= m.RoundsAttempted
                           /\ MayFire(s, stage) => m.Timeouts[stage] < m.RoundsAttempted

LEMMA RoundType == Rounds \subseteq Nat /\ StartRound \in Rounds /\ MaxRound \in Nat
  BY TimeoutAssumption, BoundsAssumption DEF Rounds

LEMMA NewMetricsType == NewMetrics \in Measures /\ SkippedMetrics \in Measures
<1>1. 0 \in 0 .. MaxRound
  BY RoundType
<1>2. /\ [r \in Rounds |-> NoProposer] \in [Rounds -> Validators \cup {NoProposer}]
      /\ [stage \in Stages |-> 0] \in [Stages -> 0 .. MaxRound]
  BY <1>1
<1> QED
  BY <1>1, <1>2 DEF NewMetrics, SkippedMetrics, Measures

LEMMA AttemptShape ==
  ASSUME NEW m \in Measures, NEW n \in Validators, NEW s, NEW r \in Rounds,
         m.RoundsAttempted < MaxRound, height \in Nat
  PROVE  LET a == AttemptRound(n, m, s, r)
         IN  /\ a \in Measures /\ a.RoundsAttempted = m.RoundsAttempted + 1
             /\ a.Timeouts = m.Timeouts
<1> DEFINE p == ProposerFor(n, s.jailedPeers, height, r)
           a == [m EXCEPT !.RoundsAttempted = m.RoundsAttempted + 1,
                          !.ProposerByRound[r] = p]
<1>1. p \in Validators
  BY RoundType, ProposerExists
<1> HIDE DEF p
<1>2. m.RoundsAttempted + 1 \in 0 .. MaxRound
  BY RoundType DEF Measures
<1>3. [m.ProposerByRound EXCEPT ![r] = p] \in [Rounds -> Validators \cup {NoProposer}]
  BY <1>1 DEF Measures
<1>4. a \in Measures /\ a.RoundsAttempted = m.RoundsAttempted + 1 /\ a.Timeouts = m.Timeouts
  BY <1>2, <1>3 DEF Measures
<1> QED
  BY <1>4 DEF AttemptRound, p

LEMMA OutcomeShape ==
  ASSUME NEW m \in Measures, NEW t \in NodeRecords, t.committed => t.currentRound \in Rounds
  PROVE  LET o == Outcome(m, t)
         IN  /\ o \in Measures
             /\ o.RoundsAttempted = m.RoundsAttempted /\ o.Timeouts = m.Timeouts
             /\ t.committed /\ ~t.aborted => o.Success
<1> DEFINE noted == [m EXCEPT !.CommitRound = t.currentRound, !.Success = TRUE,
                              !.CommitBlock = t.committedBlock]
           Like(o) == /\ o \in Measures
                      /\ o.RoundsAttempted = m.RoundsAttempted /\ o.Timeouts = m.Timeouts
<1>1. Like(m)
  OBVIOUS
<1>2. t.committed => Like(noted) /\ noted.Success
  BY DEF Measures, NodeRecords
<1> HIDE DEF noted
<1>3. ASSUME NEW o \in Measures
      PROVE  LET a == [o EXCEPT !.Aborted = TRUE, !.Success = FALSE]
             IN  /\ a \in Measures
                 /\ a.RoundsAttempted = o.RoundsAttempted /\ a.Timeouts = o.Timeouts
  BY DEF Measures
<1>4. CASE t.committed
  <2>1. Outcome(m, t) = IF t.aborted THEN [noted EXCEPT !.Aborted = TRUE, !.Success = FALSE]
                        ELSE noted
    BY <1>4 DEF Outcome, noted
  <2> QED
    BY <1>2, <1>3, <1>4, <2>1
<1>5. CASE ~t.committed
  <2>1. Outcome(m, t) = IF t.aborted THEN [m EXCEPT !.Aborted = TRUE, !.Success = FALSE] ELSE m
    BY <1>5 DEF Outcome
  <2> QED
    BY <1>1, <1>3, <1>5, <2>1
<1> QED
  BY <1>4, <1>5

LEMMA CountShape ==
  ASSUME NEW m \in Measures, NEW stage \in Stages, m.Timeouts[stage] < m.RoundsAttempted
  PROVE  LET c == [m EXCEPT !.Timeouts[stage] = m.Timeouts[stage] + 1]
         IN  /\ c \in Measures /\ c.RoundsAttempted = m.RoundsAttempted
             /\ c.Timeouts[stage] <= m.RoundsAttempted
             /\ \A x \in Stages : x # stage => c.Timeouts[x] = m.Timeouts[x]
<1> DEFINE f == [m.Timeouts EXCEPT ![stage] = m.Timeouts[stage] + 1]
<1>1. /\ m.Timeouts \in [Stages -> 0 .. MaxRound] /\ m.RoundsAttempted \in 0 .. MaxRound
      /\ MaxRound \in Nat
  BY RoundType DEF Measures
<1>2. /\ f \in [Stages -> 0 .. MaxRound] /\ f[stage] <= m.RoundsAttempted
      /\ \A x \in Stages : x # stage => f[x] = m.Timeouts[x]
  BY <1>1
<1> HIDE DEF f
<1>3. [m EXCEPT !.Timeouts = f] \in Measures
      /\ [m EXCEPT !.Timeouts = f].Timeouts = f
      /\ [m EXCEPT !.Timeouts = f].RoundsAttempted = m.RoundsAttempted
  BY <1>2 DEF Measures
<1>4. [m EXCEPT !.Timeouts[stage] = m.Timeouts[stage] + 1] = [m EXCEPT !.Timeouts = f]
  BY DEF Measures, f
<1> QED
  BY <1>2, <1>3, <1>4

LEMMA GrowsTallied ==
  ASSUME NEW s, NEW t, Grows(s, t), NEW m, Tallied(s, m)
  PROVE  Tallied(t, m)
<1>1. \A stage \in Stages : MayFire(t, stage) => MayFire(s, stage)
  BY DEF Grows, MayFire
<1> QED
  BY <1>1 DEF Grows, Tallied

\* A new round may have one timeout of each stage more.
LEMMA RunRoundTallied ==
  ASSUME NEW n \in Validators, NEW s \in NodeRecords, NEW r \in Rounds,
         NEW m \in Measures, m.RoundsAttempted = r - StartRound + 1,
         \A stage \in Stages : m.Timeouts[stage] < m.RoundsAttempted
  PROVE  Tallied(RunRound(n, s, r), m)
<1> DEFINE o        == Opened(s, r)
           opened   == ScheduleStageTimeout(o, "proposal")
           proposal == Msg("Proposal", n, opened, SelectProposalBlock(opened))
           told     == Broadcast(opened, proposal)
<1>1. r \in Nat /\ "proposal" \in Stages
  BY RoundType DEF Stages
<1>2. /\ o \in NodeRecords /\ o.timers = {} /\ ~o.prevoteSent /\ ~o.precommitSent
      /\ o.currentRound = r
  BY <1>1, OpenedShape
<1> HIDE DEF o
<1>3. /\ opened \in NodeRecords /\ opened.timers \subseteq {"proposal"}
      /\ opened.currentRound = r
  BY <1>1, <1>2, ScheduleType, ScheduleGrows
<1> HIDE DEF opened
<1>4. Tallied(opened, m)
  <2>1. \A stage \in Stages : m.Timeouts[stage] <= m.RoundsAttempted
    BY RoundType DEF Measures
  <2> QED
    BY <1>3, <2>1 DEF Tallied
<1>5. proposal \in VoteMessages /\ proposal \in Messages
  BY <1>3, BlockType, MsgType DEF Messages
<1> HIDE DEF proposal
<1>6. told \in NodeRecords /\ Grows(opened, told)
  BY <1>3, <1>5, BroadcastType, SmallStepsGrow
<1> HIDE DEF told
<1>7. Grows(opened, HandleProposal(n, told, proposal))
  BY <1>5, <1>6, HandleProposalGrows, GrowsOn
<1>8. Tallied(HandleProposal(n, told, proposal), m)
  BY <1>4, <1>7, GrowsTallied
<1> QED
  BY <1>4, <1>8 DEF RunRound, Opened, told, proposal, opened, o

LEMMA EventTallied ==
  ASSUME NEW s \in NodeRecords, NEW n \in Validators, NEW stage \in Stages,
         NEW m \in Measures, Tallied(s, m), stage \in s.timers
  PROVE  /\ Tallied(HandleEvent(n, s, stage), CountTimeout(m, s, stage))
         /\ CountTimeout(m, s, stage) \in Measures
         /\ CountTimeout(m, s, stage).RoundsAttempted = m.RoundsAttempted
<1> DEFINE fired == [s EXCEPT !.timers = s.timers \ {stage}]
           over  == [fired EXCEPT !.roundActive = FALSE]
           t     == HandleEvent(n, s, stage)
           c     == [m EXCEPT !.Timeouts[stage] = m.Timeouts[stage] + 1]
<1>1. /\ fired \in NodeRecords /\ fired.timers = s.timers \ {stage}
      /\ fired.prevoteSent = s.prevoteSent /\ fired.precommitSent = s.precommitSent
      /\ fired.currentRound = s.currentRound
  BY DEF NodeRecords
<1>2. fired.committed = s.committed
  BY DEF NodeRecords
<1>3. Grows(fired, over) /\ Grows(fired, fired)
  BY DEF Grows, Live, NodeRecords
<1> HIDE DEF fired, over
<1>4. Grows(fired, t)
  <2>1. CASE stage = "proposal"
    <3>1. Grows(fired, SendPrevote(n, fired, Nil))
      BY <1>1, SendPrevoteGrows
    <3> QED
      BY <1>3, <2>1, <3>1 DEF HandleEvent, OnProposalTimeout, fired
  <2>2. CASE stage = "prevote"
    <3>1. Grows(fired, SendPrecommit(n, fired, Nil))
      BY <1>1, SendPrecommitGrows
    <3> QED
      BY <1>3, <2>2, <3>1 DEF HandleEvent, OnPrevoteTimeout, fired
  <2>3. CASE stage = "precommit"
    BY <1>3, <2>3 DEF HandleEvent, OnPrecommitTimeout, fired, over
  <2> QED
    BY <2>1, <2>2, <2>3 DEF Stages
<1> HIDE DEF t
<1>5. \A x \in Stages : MayFire(fired, x) => MayFire(s, x)
  BY <1>1 DEF MayFire
<1>6. Tallied(fired, m)
  BY <1>1, <1>5 DEF Tallied
<1>7. Tallied(t, m)
  BY <1>4, <1>6, GrowsTallied
<1>8. CountTimeout(m, s, stage) = m \/ CountTimeout(m, s, stage) = c
  BY DEF CountTimeout
<1>9. CASE CountTimeout(m, s, stage) = m
  BY <1>7, <1>9 DEF t
<1>10. CASE CountTimeout(m, s, stage) = c
  <2>1. m.Timeouts[stage] < m.RoundsAttempted
    BY DEF Tallied, MayFire
  <2> HIDE DEF c
  <2>2. /\ c \in Measures /\ c.RoundsAttempted = m.RoundsAttempted
        /\ c.Timeouts[stage] <= m.RoundsAttempted
        /\ \A x \in Stages : x # stage => c.Timeouts[x] = m.Timeouts[x]
    BY <2>1, CountShape DEF c
  <2>3. ~MayFire(t, stage)
    <3>1. stage \notin fired.timers
      BY <1>1
    <3>2. /\ stage = "prevote" => fired.prevoteSent
          /\ stage = "precommit" => fired.precommitSent
      BY <1>1 DEF Tallied
    <3> QED
      BY <1>4, <3>1, <3>2 DEF Grows, MayFire
  <2> QED
    BY <1>7, <1>10, <2>2, <2>3 DEF Tallied, t
<1> QED
  BY <1>8, <1>9, <1>10

TallyInv ==
  /\ SettledInv
  /\ metrics \in [Validators -> Measures]
  /\ \A n \in Validators :
       LET s == node[n]
           m == metrics[n]
       IN  /\ s.active \/ m.RoundsAttempted # 0 => Tallied(s, m)
           /\ s.currentHeight > 0 =>
                /\ s.active \/ s.committed \/ s.aborted \/ m.RoundsAttempted = 0
                /\ m.RoundsAttempted = 0 => m.Success
                /\ m.RoundsAttempted > 0 /\ s.committed /\ ~s.aborted => m.Success

LEMMA DoneTallied ==
  ASSUME NEW s \in NodeRecords, NEW m, Tallied(s, m)
  PROVE  Tallied(Done(s), m)
<1>1. /\ Done(s).currentRound = s.currentRound /\ Done(s).timers \subseteq s.timers
      /\ Done(s).prevoteSent = s.prevoteSent /\ Done(s).precommitSent = s.precommitSent
  BY DoneShape
<1>2. \A stage \in Stages : MayFire(Done(s), stage) => MayFire(s, stage)
  BY <1>1 DEF MayFire
<1> QED
  BY <1>1, <1>2 DEF Tallied

\* A step of n that ends with s, when m is counted by then.
LEMMA StepTallied ==
  ASSUME TallyInv, NEW n \in Validators, Proceed(n) \/ Receive(n), SettledInv',
         ~(node[n].currentHeight < height /\ Skips(n)),
         NEW s \in NodeRecords, NEW consumed, Finish(n, s, consumed),
         NEW m \in Measures, Tallied(s, m), Note(n, Outcome(m, node'[n]))
  PROVE  TallyInv'
<1> DEFINE t == Done(s)
           o == Outcome(m, t)
<1>1. node \in [Validators -> NodeRecords] /\ metrics \in [Validators -> Measures]
  BY DEF TallyInv, SettledInv, VotesInv, TypeOK
<1>2. node' = [node EXCEPT ![n] = t] /\ node'[n] = t
  BY <1>1 DEF Finish, Done
<1>3. metrics' = [metrics EXCEPT ![n] = o]
  BY <1>2 DEF Note
<1>4. t \in NodeRecords /\ Tallied(t, m)
  BY DoneType, DoneTallied DEF Done
<1>5. /\ t.active \/ t.committed \/ t.aborted
  BY <1>2, HandlersDecide DEF TallyInv
<1> HIDE DEF t
<1>6. /\ o \in Measures
      /\ o.RoundsAttempted = m.RoundsAttempted /\ o.Timeouts = m.Timeouts
      /\ t.committed /\ ~t.aborted => o.Success
  BY <1>4, OutcomeShape DEF Tallied
<1> HIDE DEF o
<1>7. Tallied(t, o)
  BY <1>4, <1>6 DEF Tallied
<1>8. o.RoundsAttempted # 0
  <2>1. t.currentRound \in Nat /\ t.currentRound >= StartRound /\ StartRound \in Nat
    BY <1>4, RoundType DEF Tallied, Rounds
  <2> QED
    BY <1>7, <2>1 DEF Tallied
<1>9. ASSUME NEW v \in Validators
      PROVE  LET r == node'[v]
                 q == metrics'[v]
             IN  /\ r.active \/ q.RoundsAttempted # 0 => Tallied(r, q)
                 /\ r.currentHeight > 0 =>
                      /\ r.active \/ r.committed \/ r.aborted \/ q.RoundsAttempted = 0
                      /\ q.RoundsAttempted = 0 => q.Success
                      /\ q.RoundsAttempted > 0 /\ r.committed /\ ~r.aborted => q.Success
  <2>1. CASE v = n
    <3>1. node'[v] = t /\ metrics'[v] = o
      BY <1>1, <1>2, <1>3, <2>1
    <3> QED
      BY <1>5, <1>6, <1>7, <1>8, <3>1
  <2>2. CASE v # n
    <3>1. node'[v] = node[v] /\ metrics'[v] = metrics[v]
      BY <1>1, <1>2, <1>3, <2>2
    <3> QED
      BY <3>1 DEF TallyInv
  <2> QED
    BY <2>1, <2>2
<1>10. metrics' \in [Validators -> Measures]
  BY <1>1, <1>3, <1>6
<1> QED
  BY <1>9, <1>10 DEF TallyInv

LEMMA StartTallied ==
  ASSUME TallyInv, SettledInv', NEW n \in Validators, Start(n),
         Note(n, IF Skips(n) THEN SkippedMetrics
                 ELSE Outcome(AttemptRound(n, NewMetrics, node[n], StartRound), node'[n]))
  PROVE  TallyInv'
<1> DEFINE o == node[n]
           s == StartConsensus(n, o, height)
<1>1. /\ o \in NodeRecords /\ height \in Nat /\ node \in [Validators -> NodeRecords]
      /\ metrics \in [Validators -> Measures]
  BY DEF TallyInv, SettledInv, VotesInv, TypeOK
<1>2. Finish(n, s, {}) /\ s \in NodeRecords
  BY <1>1, StartConsensusType DEF Start
<1>3. CASE ~Skips(n)
  <2> DEFINE m == AttemptRound(n, NewMetrics, o, StartRound)
  <2>1. /\ NewMetrics.RoundsAttempted = 0 /\ StartRound \in Rounds /\ 0 < MaxRound
        /\ \A stage \in Stages : NewMetrics.Timeouts[stage] = 0
    BY TimeoutAssumption, RoundType DEF NewMetrics, Rounds
  <2>2. /\ m \in Measures /\ m.RoundsAttempted = NewMetrics.RoundsAttempted + 1
        /\ m.Timeouts = NewMetrics.Timeouts
    BY <1>1, <2>1, NewMetricsType, AttemptShape
  <2>3. Note(n, Outcome(m, node'[n]))
    BY <1>3
  <2> HIDE DEF m
  <2>4. /\ m.RoundsAttempted = StartRound - StartRound + 1
        /\ \A stage \in Stages : m.Timeouts[stage] < m.RoundsAttempted
    BY <2>1, <2>2, TimeoutAssumption
  <2>5. Ready(n, o, height) \in NodeRecords
    BY <1>1, ReadyShape
  <2>6. s = RunRound(n, Ready(n, o, height), StartRound)
    BY <1>3, StartSplits DEF Skips
  <2>7. Tallied(s, m)
    BY <2>1, <2>2, <2>4, <2>5, <2>6, RunRoundTallied
  <2> HIDE DEF s, o
  <2> QED
    BY <1>2, <1>3, <2>2, <2>3, <2>7, StepTallied DEF Proceed
<1>4. CASE Skips(n)
  <2>1. s = Begun(n, o, height)
    BY <1>4, StartSplits DEF Skips
  <2>2. ~s.active
    BY <1>1, <1>4, <2>1, BegunShape DEF Skips
  <2> HIDE DEF s, o
  <2>3. node' = [node EXCEPT ![n] = Done(s)] /\ ~Done(s).active
    BY <1>2, <2>2, DoneShape DEF Finish, Done
  <2>4. metrics' = [metrics EXCEPT ![n] = SkippedMetrics]
    BY <1>4 DEF Note
  <2>5. SkippedMetrics.RoundsAttempted = 0 /\ SkippedMetrics.Success
    BY DEF SkippedMetrics, NewMetrics
  <2>6. SkippedMetrics \in Measures
    BY NewMetricsType
  <2> HIDE DEF o
  <2>7. \A v \in Validators :
          \/ v = n /\ node'[v] = Done(s) /\ metrics'[v] = SkippedMetrics
          \/ node'[v] = node[v] /\ metrics'[v] = metrics[v]
    BY <1>1, <2>3, <2>4
  <2>8. metrics' \in [Validators -> Measures]
    BY <1>1, <2>4, <2>6
  <2> QED
    BY <2>3, <2>5, <2>7, <2>8 DEF TallyInv
<1> QED
  BY <1>3, <1>4

LEMMA TallyNext == TallyInv /\ [ReportsNext]_<<vars, metrics>> => TallyInv'
<1> SUFFICES ASSUME TallyInv, [ReportsNext]_<<vars, metrics>> PROVE TallyInv'
  OBVIOUS
<1>1. [Next]_vars
  BY DEF ReportsNext, Next, Proceed, vars
<1>2. SettledInv'
  BY <1>1, SettledNext DEF TallyInv
<1>3. ASSUME NEW n \in Validators
      PROVE  /\ node[n] \in NodeRecords /\ metrics[n] \in Measures /\ height \in Nat
             /\ inbox[n] \subseteq Messages
             /\ node[n].active => node[n].currentHeight = height /\ Tallied(node[n], metrics[n])
  BY DEF TallyInv, SettledInv, VotesInv, TypeOK
<1>4. ASSUME NEW n \in Validators, Proceed(n) \/ Receive(n), node[n].active,
             NEW s \in NodeRecords, NEW consumed, Finish(n, s, consumed),
             NEW m \in Measures, Tallied(s, m), Note(n, Outcome(m, node'[n]))
      PROVE  TallyInv'
  <2>1. ~(node[n].currentHeight < height)
    BY <1>3, <1>4
  <2> QED
    BY <1>2, <1>4, <2>1, StepTallied
<1>5. ASSUME NEW n \in Validators, StartNextRound(n),
             Note(n, Outcome(AttemptRound(n, metrics[n], node[n], node[n].currentRound + 1),
                             node'[n]))
      PROVE  TallyInv'
  <2> DEFINE o == node[n]
             r == o.currentRound + 1
             m == AttemptRound(n, metrics[n], o, r)
             s == NextRound(n, o)
  <2>1. o.active /\ o.currentRound < MaxRound /\ Finish(n, s, {})
    BY <1>5 DEF StartNextRound
  <2>2. o \in NodeRecords /\ metrics[n] \in Measures /\ Tallied(o, metrics[n]) /\ height \in Nat
    BY <1>3, <2>1
  <2>3. /\ r \in Rounds /\ metrics[n].RoundsAttempted = r - StartRound
        /\ metrics[n].RoundsAttempted < MaxRound /\ StartRound \in Nat
        /\ \A stage \in Stages : metrics[n].Timeouts[stage] <= metrics[n].RoundsAttempted
    BY <2>1, <2>2, TimeoutAssumption, BoundsAssumption DEF Tallied, Rounds
  <2>4. Escalated(o) \in NodeRecords
    <3>1. EscalatedCap(o.timeoutMultiplierCap) \in Nat
      BY <2>2 DEF EscalatedCap, NodeRecords
    <3> QED
      BY <2>2, <3>1 DEF Escalated, NodeRecords
  <2>5. s = RunRound(n, Escalated(o), r)
    BY NextSplits
  <2>6. s \in NodeRecords
    BY <2>2, NextRoundType
  <2> HIDE DEF r
  <2>7. /\ m \in Measures /\ m.RoundsAttempted = metrics[n].RoundsAttempted + 1
        /\ m.Timeouts = metrics[n].Timeouts
    BY <2>2, <2>3, AttemptShape
  <2>8. Note(n, Outcome(m, node'[n]))
    BY <1>5 DEF r
  <2> HIDE DEF m, s, o
  <2>9. /\ m.RoundsAttempted = r - StartRound + 1
        /\ \A stage \in Stages : m.Timeouts[stage] < m.RoundsAttempted
    <3>1. \A stage \in Stages : metrics[n].Timeouts[stage] \in Nat
      BY <2>2, RoundType DEF Measures
    <3>2. r \in Nat /\ metrics[n].RoundsAttempted \in Nat
      BY <2>2, <2>3, RoundType DEF Measures
    <3> QED
      BY <2>3, <2>7, <3>1, <3>2
  <2>10. Tallied(s, m)
    BY <2>3, <2>4, <2>5, <2>7, <2>9, RunRoundTallied
  <2> QED
    BY <1>4, <1>5, <2>1, <2>6, <2>7, <2>8, <2>10 DEF Proceed, o
<1>6. ASSUME NEW n \in Validators, HandlePending(n), Note(n, Outcome(metrics[n], node'[n]))
      PROVE  TallyInv'
  <2> DEFINE o == node[n]
             q == o.pendingMessages
             p == [o EXCEPT !.pendingMessages = Tail(q)]
             s == HandleMessage(n, p, Head(q))
  <2>1. o.active /\ q # <<>> /\ Finish(n, s, {})
    BY <1>6 DEF HandlePending, Looping
  <2>2. o \in NodeRecords /\ metrics[n] \in Measures /\ Tallied(o, metrics[n])
    BY <1>3, <2>1
  <2>3. Head(q) \in Messages /\ Tail(q) \in Seq(Messages)
    <3>1. q \in Seq(Messages)
      BY <2>2 DEF NodeRecords
    <3> QED
      BY <2>1, <3>1
  <2>4. p \in NodeRecords
    BY <2>2, <2>3, PendingType
  <2>5. Grows(o, p)
    BY <2>2 DEF Grows, Live, NodeRecords
  <2> HIDE DEF p, q
  <2>6. s \in NodeRecords /\ Grows(p, s)
    BY <2>3, <2>4, HandleMessageType, HandleMessageGrows
  <2> HIDE DEF s, o
  <2>7. Tallied(s, metrics[n])
    BY <2>2, <2>5, <2>6, GrowsTallied
  <2> QED
    BY <1>4, <1>6, <2>1, <2>2, <2>6, <2>7 DEF Proceed, o
<1>7. ASSUME NEW n \in Validators, Receive(n), Note(n, Outcome(metrics[n], node'[n]))
      PROVE  TallyInv'
  <2>1. PICK msg \in inbox[n] : Finish(n, HandleMessage(n, node[n], msg), {msg})
    BY <1>7 DEF Receive
  <2> DEFINE s == HandleMessage(n, node[n], msg)
  <2>2. node[n].active
    BY <1>7 DEF Receive, Looping
  <2>3. /\ node[n] \in NodeRecords /\ metrics[n] \in Measures /\ Tallied(node[n], metrics[n])
        /\ msg \in Messages
    BY <1>3, <2>2
  <2>4. s \in NodeRecords /\ Grows(node[n], s)
    BY <2>3, HandleMessageType, HandleMessageGrows
  <2>5. Finish(n, s, {msg})
    BY <2>1
  <2> HIDE DEF s
  <2>6. Tallied(s, metrics[n])
    BY <2>3, <2>4, GrowsTallied
  <2> QED
    BY <1>4, <1>7, <2>2, <2>3, <2>4, <2>5, <2>6
<1>8. ASSUME NEW n \in Validators, NEW stage \in Stages, Timeout(n, stage),
             Note(n, Outcome(CountTimeout(metrics[n], node[n], stage), node'[n]))
      PROVE  TallyInv'
  <2> DEFINE s == HandleEvent(n, node[n], stage)
             m == CountTimeout(metrics[n], node[n], stage)
  <2>1. node[n].active /\ stage \in node[n].timers /\ Finish(n, s, {})
    BY <1>8 DEF Timeout, Looping
  <2>2. node[n] \in NodeRecords /\ metrics[n] \in Measures /\ Tallied(node[n], metrics[n])
    BY <1>3, <2>1
  <2>3. s \in NodeRecords /\ Tallied(s, m) /\ m \in Measures
    BY <2>1, <2>2, HandleEventType, EventTallied
  <2>4. Note(n, Outcome(m, node'[n])) /\ Proceed(n)
    BY <1>8 DEF Proceed
  <2> HIDE DEF s, m
  <2> QED
    BY <1>4, <2>1, <2>3, <2>4
<1>9. ASSUME UNCHANGED <<node, metrics>> PROVE TallyInv'
  BY <1>2, <1>9 DEF TallyInv
<1> QED
  BY <1>2, <1>5, <1>6, <1>7, <1>8, <1>9, StartTallied
     DEF ReportsNext, NextHeight, Lose, vars

LEMMA TallyInit == ReportsInit => TallyInv
<1> SUFFICES ASSUME ReportsInit PROVE TallyInv
  OBVIOUS
<1>1. SettledInv /\ metrics = [v \in Validators |-> NewMetrics]
      /\ \A n \in Validators : node[n] = NewNode
  BY SettledInit DEF ReportsInit, Init
<1>2. NewNode.currentHeight = 0 /\ ~NewNode.active /\ NewMetrics.RoundsAttempted = 0
  BY DEF NewNode, NewMetrics
<1>3. \A n \in Validators : metrics[n] = NewMetrics
  BY <1>1
<1> QED
  BY <1>1, <1>2, <1>3, NewMetricsType DEF TallyInv

LEMMA TallyAlways == ReportsSpec => []TallyInv
<1> QED
  BY TallyInit, TallyNext, PTL DEF ReportsSpec

\* The metrics of a height have their type, and each stage of a round counts at most one
\* timeout (onProposalTimeout, onPrevoteTimeout, onPrecommitTimeout).
THEOREM MetricsTypeCorrect == ReportsSpec => []MetricsTypeOK
<1>1. TallyInv => MetricsTypeOK
  BY DEF TallyInv, MetricsTypeOK, Measures
<1> QED
  BY <1>1, TallyAlways, PTL

LEMMA FirstValidator ==
  (CHOOSE v \in Validators : \A w \in Validators : v <= w) \in Validators
<1>1. \E v \in Validators : \A w \in Validators : v <= w
  BY ValidatorsAssumption, LeastExists
<1> QED
  BY <1>1

\* A height is only reported as failed when some validator gave it up, as the message of
\* RunSimulation says: neither a message that was lost nor the order of commits and
\* timeouts makes it one.
THEOREM FailuresAreAborts == ReportsSpec => []FailureMeansAbort
<1>1. ASSUME TallyInv, HeightOver, ~Report.Success
      PROVE  \E v \in Validators : node[v].aborted
  <2> DEFINE first == CHOOSE v \in Validators : \A w \in Validators : v <= w
  <2>1. first \in Validators
    BY FirstValidator
  <2> HIDE DEF first
  <2>2. Summary.Success = metrics[first].Success
    BY DEF Summary, first
  <2>3. Report.Success = (Summary.Success /\ \A v \in Validators : StartReturned(v))
    BY DEF Report, Summary
  <2>4. \A v \in Validators : ~node[v].active /\ node[v].currentHeight > 0
    BY <1>1 DEF HeightOver, TallyInv, SettledInv, VotesInv, TypeOK
  <2>5. CASE \E v \in Validators : ~StartReturned(v)
    BY <1>1, <2>4, <2>5 DEF StartReturned, Skipped, TallyInv
  <2>6. CASE ~metrics[first].Success
    <3>1. metrics[first].RoundsAttempted \in Nat
      BY <1>1, <2>1, RoundType DEF TallyInv, Measures
    <3> QED
      BY <1>1, <2>1, <2>4, <2>6, <3>1 DEF TallyInv
  <2> QED
    BY <1>1, <2>2, <2>3, <2>5, <2>6
<1>2. TallyInv => FailureMeansAbort
  BY <1>1 DEF FailureMeansAbort
<1> QED
  BY <1>2, TallyAlways, PTL

LEMMA OutcomeCounts ==
  ASSUME NEW m \in Measures, NEW t
  PROVE  Outcome(m, t).RoundsAttempted = m.RoundsAttempted
  BY DEF Outcome, Measures

\* Who is not configured to double-sign takes part in every height.
PresentInv ==
  \A v \in Validators \ Equivocators :
    node[v].currentHeight > 0 => metrics[v].RoundsAttempted # 0

LEMMA PresentNext ==
  ASSUME TallyInv, PresentInv, [ReportsNext]_<<vars, metrics>>
  PROVE  PresentInv'
<1>1. ASSUME NEW n \in Validators
      PROVE  /\ node[n] \in NodeRecords /\ metrics[n] \in Measures
             /\ Skips(n) => n \in Equivocators
             /\ node[n].active => Tallied(node[n], metrics[n])
  BY DEF TallyInv, SettledInv, VotesInv, TypeOK, Sound, Holds, Skips
<1>2. /\ metrics \in [Validators -> Measures] /\ node \in [Validators -> NodeRecords]
      /\ height \in Nat
  BY DEF TallyInv, SettledInv, VotesInv, TypeOK
<1>3. ASSUME NEW n \in Validators, node[n].active PROVE metrics[n].RoundsAttempted > 0
  <2>1. /\ node[n].currentRound \in Rounds
        /\ metrics[n].RoundsAttempted = node[n].currentRound - StartRound + 1
    BY <1>1, <1>3 DEF Tallied
  <2> QED
    BY <2>1, RoundType DEF Rounds
\* A handler of n, with m the measures it notes.
<1>4. ASSUME NEW n \in Validators, Proceed(n) \/ Receive(n), NEW m, Note(n, m),
             m.RoundsAttempted # 0 \/ n \in Equivocators
      PROVE  PresentInv'
  <2>1. \A v \in Validators : v # n => node'[v] = node[v]
    BY <1>2, <1>4, HandlersDecide DEF TallyInv
  <2>2. metrics'[n] = m /\ \A v \in Validators : v # n => metrics'[v] = metrics[v]
    BY <1>2, <1>4 DEF Note
  <2> QED
    BY <1>4, <2>1, <2>2 DEF PresentInv
<1>5. ASSUME NEW n \in Validators, Start(n),
             Note(n, IF Skips(n) THEN SkippedMetrics
                     ELSE Outcome(AttemptRound(n, NewMetrics, node[n], StartRound), node'[n]))
      PROVE  PresentInv'
  <2>1. CASE Skips(n)
    BY <1>1, <1>4, <1>5, <2>1 DEF Proceed
  <2>2. CASE ~Skips(n)
    <3> DEFINE a == AttemptRound(n, NewMetrics, node[n], StartRound)
    <3>1. NewMetrics.RoundsAttempted = 0 /\ 0 < MaxRound /\ StartRound \in Rounds
      BY TimeoutAssumption, RoundType DEF NewMetrics, Rounds
    <3>2. a \in Measures /\ a.RoundsAttempted = 1
      BY <1>2, <3>1, NewMetricsType, AttemptShape
    <3>3. Note(n, Outcome(a, node'[n]))
      BY <1>5, <2>2
    <3> HIDE DEF a
    <3>4. Outcome(a, node'[n]).RoundsAttempted # 0
      BY <3>2, OutcomeCounts
    <3> QED
      BY <1>4, <1>5, <3>3, <3>4 DEF Proceed
  <2> QED
    BY <2>1, <2>2
<1>6. ASSUME NEW n \in Validators, StartNextRound(n),
             Note(n, Outcome(AttemptRound(n, metrics[n], node[n], node[n].currentRound + 1),
                             node'[n]))
      PROVE  PresentInv'
  <2> DEFINE r == node[n].currentRound + 1
             a == AttemptRound(n, metrics[n], node[n], r)
  <2>1. node[n].active /\ node[n].currentRound < MaxRound
    BY <1>6 DEF StartNextRound
  <2>2. r \in Rounds /\ metrics[n].RoundsAttempted < MaxRound
    BY <1>1, <2>1, TimeoutAssumption, BoundsAssumption DEF Tallied, Rounds
  <2>3. a \in Measures /\ a.RoundsAttempted = metrics[n].RoundsAttempted + 1
    BY <1>1, <1>2, <2>2, AttemptShape
  <2>4. Note(n, Outcome(a, node'[n]))
    BY <1>6
  <2> HIDE DEF a, r
  <2>5. Outcome(a, node'[n]).RoundsAttempted # 0
    <3>1. metrics[n].RoundsAttempted \in Nat /\ metrics[n].RoundsAttempted > 0
      BY <1>1, <1>3, <2>1, RoundType DEF Measures
    <3> QED
      BY <2>3, <3>1, OutcomeCounts
  <2> QED
    BY <1>4, <1>6, <2>4, <2>5 DEF Proceed
<1>7. ASSUME NEW n \in Validators, HandlePending(n) \/ Receive(n),
             Note(n, Outcome(metrics[n], node'[n]))
      PROVE  PresentInv'
  <2>1. node[n].active
    BY <1>7 DEF HandlePending, Receive, Looping
  <2>2. Outcome(metrics[n], node'[n]).RoundsAttempted # 0
    BY <1>1, <1>3, <2>1, OutcomeCounts
  <2> QED
    BY <1>4, <1>7, <2>2 DEF Proceed
<1>8. ASSUME NEW n \in Validators, NEW stage \in Stages, Timeout(n, stage),
             Note(n, Outcome(CountTimeout(metrics[n], node[n], stage), node'[n]))
      PROVE  PresentInv'
  <2> DEFINE m == CountTimeout(metrics[n], node[n], stage)
  <2>1. node[n].active /\ stage \in node[n].timers
    BY <1>8 DEF Timeout, Looping
  <2>2. m \in Measures /\ m.RoundsAttempted = metrics[n].RoundsAttempted
    BY <1>1, <2>1, EventTallied
  <2>3. Note(n, Outcome(m, node'[n]))
    BY <1>8
  <2> HIDE DEF m
  <2>4. Outcome(m, node'[n]).RoundsAttempted # 0
    BY <1>3, <2>1, <2>2, OutcomeCounts
  <2> QED
    BY <1>4, <1>8, <2>3, <2>4 DEF Proceed
<1>9. ASSUME UNCHANGED <<node, metrics>> PROVE PresentInv'
  BY <1>9 DEF PresentInv
<1> QED
  BY <1>5, <1>6, <1>7, <1>8, <1>9 DEF ReportsNext, NextHeight, Lose, vars

\* The summary looks at one validator, and a height skipped in jail is a success of the
\* validator that skipped it.  Still a height is reported as a success only if every
\* validator that is not configured to double-sign committed a block.
THEOREM SuccessesAreHonestCommits == ReportsSpec => []SuccessMeansHonestCommits
<1>1. ReportsInit => PresentInv
  BY DEF ReportsInit, Init, NewNode, PresentInv
<1>2. Report.Success => \A v \in Validators : StartReturned(v)
  BY DEF Report, Summary
<1>3. TallyInv /\ PresentInv => SuccessMeansHonestCommits
  BY <1>2 DEF SuccessMeansHonestCommits, StartReturned, Skipped, PresentInv, HeightOver,
              TallyInv, SettledInv
<1>4. TallyInv /\ PresentInv /\ [ReportsNext]_<<vars, metrics>> => PresentInv'
  BY PresentNext
<1> QED
  BY <1>1, <1>3, <1>4, TallyAlways, PTL DEF ReportsSpec
-----------------------------------------------------------------------------
\* What m notes of the commit of s, and of the proposer of its round.
NotedOf(n, s, m) ==
  /\ m.CommitRound # 0 => /\ m.RoundsAttempted # 0
                          /\ s.committed /\ s.committedBlock = m.CommitBlock
                          /\ s.currentRound = m.CommitRound
  /\ m.RoundsAttempted # 0 =>
       m.ProposerByRound[s.currentRound] = ProposerFor(n, {}, s.currentHeight, s.currentRound)

NotedInv == \A n \in Validators : NotedOf(n, node[n], metrics[n])

\* What n is counting before Outcome, when t is the record it has then: no commit yet,
\* and the proposer of the round it is in.
Noting(n, t, m) ==
  /\ m.CommitRound = 0 /\ m.RoundsAttempted # 0
  /\ m.ProposerByRound[t.currentRound] = ProposerFor(n, {}, height, t.currentRound)

LEMMA OutcomeNoted ==
  ASSUME NEW n \in Validators, NEW m \in Measures, NEW t \in NodeRecords, Noting(n, t, m),
         t.currentHeight = height, t.currentRound \in Rounds
  PROVE  NotedOf(n, t, Outcome(m, t))
<1> DEFINE noted == [m EXCEPT !.CommitRound = t.currentRound, !.Success = TRUE,
                              !.CommitBlock = t.committedBlock]
           base  == IF t.committed THEN noted ELSE m
<1>1. /\ noted.CommitRound = t.currentRound /\ noted.CommitBlock = t.committedBlock
      /\ noted.RoundsAttempted = m.RoundsAttempted /\ noted.ProposerByRound = m.ProposerByRound
      /\ noted \in Measures
  BY DEF Measures, NodeRecords
<1> HIDE DEF noted
<1>2. base \in Measures /\ NotedOf(n, t, base)
  BY <1>1 DEF NotedOf, Noting
<1> HIDE DEF base
<1>3. ASSUME NEW a \in Measures, NotedOf(n, t, a)
      PROVE  NotedOf(n, t, [a EXCEPT !.Aborted = TRUE, !.Success = FALSE])
  <2> DEFINE b == [a EXCEPT !.Aborted = TRUE, !.Success = FALSE]
  <2>1. /\ b.CommitRound = a.CommitRound /\ b.CommitBlock = a.CommitBlock
        /\ b.RoundsAttempted = a.RoundsAttempted /\ b.ProposerByRound = a.ProposerByRound
    BY DEF Measures
  <2> HIDE DEF b
  <2>2. NotedOf(n, t, b)
    BY <1>3, <2>1 DEF NotedOf
  <2> QED
    BY <2>2 DEF b
<1> QED
  BY <1>2, <1>3 DEF Outcome, base, noted

\* A new round counts one more, and notes its proposer; there was no commit before.
LEMMA AttemptNotes ==
  ASSUME NEW m \in Measures, NEW n \in Validators, NEW s, NEW r \in Rounds,
         m.RoundsAttempted < MaxRound, height \in Nat, s.jailedPeers = {}
  PROVE  LET a == AttemptRound(n, m, s, r)
         IN  /\ a \in Measures /\ a.RoundsAttempted = m.RoundsAttempted + 1
             /\ a.CommitRound = m.CommitRound
             /\ a.ProposerByRound[r] = ProposerFor(n, {}, height, r)
<1> DEFINE p == ProposerFor(n, s.jailedPeers, height, r)
           a == [m EXCEPT !.RoundsAttempted = m.RoundsAttempted + 1,
                          !.ProposerByRound[r] = p]
<1>1. a.CommitRound = m.CommitRound /\ a.ProposerByRound[r] = p
  BY DEF Measures
<1>2. /\ AttemptRound(n, m, s, r) \in Measures
      /\ AttemptRound(n, m, s, r).RoundsAttempted = m.RoundsAttempted + 1
  BY AttemptShape
<1> QED
  BY <1>1, <1>2 DEF AttemptRound

LEMMA NotedNext ==
  ASSUME Equivocators = {}, TallyInv, TallyInv', NotedInv, [ReportsNext]_<<vars, metrics>>
  PROVE  NotedInv'
<1>1. ASSUME NEW n \in Validators
      PROVE  /\ node[n] \in NodeRecords /\ metrics[n] \in Measures /\ height \in Nat
             /\ node[n].jailedPeers = {} /\ NotedOf(n, node[n], metrics[n])
             /\ node[n].active =>
                  /\ node[n].currentHeight = height /\ ~node[n].committed
                  /\ Tallied(node[n], metrics[n])
  BY DEF TallyInv, SettledInv, VotesInv, TypeOK, Sound, Holds, NotedInv
<1>2. /\ node \in [Validators -> NodeRecords] /\ metrics \in [Validators -> Measures]
      /\ node' \in [Validators -> NodeRecords] /\ metrics' \in [Validators -> Measures]
  BY DEF TallyInv, SettledInv, VotesInv, TypeOK
<1>3. ASSUME NEW n \in Validators
      PROVE  metrics'[n].RoundsAttempted # 0 => Tallied(node'[n], metrics'[n])
  BY <1>3 DEF TallyInv
\* A handler of n, when m is counted by then.
<1>4. ASSUME NEW n \in Validators, Proceed(n) \/ Receive(n), NEW m \in Measures,
             m.CommitRound = 0, m.RoundsAttempted # 0, Note(n, Outcome(m, node'[n])),
             NEW r \in Rounds, m.RoundsAttempted = r - StartRound + 1,
             m.ProposerByRound[r] = ProposerFor(n, {}, height, r)
      PROVE  NotedInv'
  <2> DEFINE t == node'[n]
             o == Outcome(m, t)
  <2>1. /\ \E s \in NodeRecords : node' = [node EXCEPT ![n] = Done(s)]
        /\ t.currentHeight = height
    BY <1>4, HandlersDecide DEF TallyInv
  <2>2. \A v \in Validators : v # n => node'[v] = node[v]
    BY <1>2, <2>1
  <2>3. metrics'[n] = o /\ \A v \in Validators : v # n => metrics'[v] = metrics[v]
    BY <1>2, <1>4 DEF Note
  <2>4. t \in NodeRecords
    BY <1>2
  <2> HIDE DEF t
  <2>5. o.RoundsAttempted = m.RoundsAttempted
    BY OutcomeCounts
  <2>6. Tallied(t, o)
    BY <1>3, <1>4, <2>3, <2>5 DEF t
  <2>7. t.currentRound = r
    <3>1. /\ t.currentRound \in Rounds /\ t.currentRound - StartRound + 1 = r - StartRound + 1
      BY <1>4, <2>5, <2>6 DEF Tallied
    <3>2. t.currentRound \in Nat /\ r \in Nat /\ StartRound \in Nat
      BY <3>1, RoundType
    <3> QED
      BY <3>1, <3>2
  <2>8. NotedOf(n, t, o)
    BY <1>4, <2>1, <2>4, <2>7, OutcomeNoted DEF Noting
  <2> QED
    BY <2>2, <2>3, <2>8 DEF NotedInv, t
<1>5. ASSUME NEW n \in Validators, Start(n),
             Note(n, IF Skips(n) THEN SkippedMetrics
                     ELSE Outcome(AttemptRound(n, NewMetrics, node[n], StartRound), node'[n]))
      PROVE  NotedInv'
  <2>1. CASE Skips(n)
    <3>1. \E s \in NodeRecords : node' = [node EXCEPT ![n] = Done(s)]
      BY <1>5, HandlersDecide DEF TallyInv, Proceed
    <3>2. \A v \in Validators : v # n => node'[v] = node[v] /\ metrics'[v] = metrics[v]
      BY <1>2, <1>5, <3>1 DEF Note
    <3>3. metrics'[n] = SkippedMetrics
      BY <1>2, <1>5, <2>1 DEF Note
    <3>4. SkippedMetrics.CommitRound = 0 /\ SkippedMetrics.RoundsAttempted = 0
      BY DEF SkippedMetrics, NewMetrics
    <3> QED
      BY <3>2, <3>3, <3>4 DEF NotedInv, NotedOf
  <2>2. CASE ~Skips(n)
    <3> DEFINE m == AttemptRound(n, NewMetrics, node[n], StartRound)
    <3>1. /\ NewMetrics.RoundsAttempted = 0 /\ NewMetrics.CommitRound = 0
          /\ StartRound \in Rounds /\ 0 < MaxRound /\ StartRound \in Nat
      BY TimeoutAssumption, RoundType DEF NewMetrics, Rounds
    <3>2. /\ m \in Measures /\ m.RoundsAttempted = NewMetrics.RoundsAttempted + 1
          /\ m.CommitRound = NewMetrics.CommitRound
          /\ m.ProposerByRound[StartRound] = ProposerFor(n, {}, height, StartRound)
      BY <1>1, <3>1, NewMetricsType, AttemptNotes
    <3>3. Note(n, Outcome(m, node'[n])) /\ Proceed(n)
      BY <1>5, <2>2 DEF Proceed
    <3> HIDE DEF m
    <3>4. m.RoundsAttempted = StartRound - StartRound + 1 /\ m.CommitRound = 0
      BY <3>1, <3>2
    <3> QED
      BY <1>4, <3>1, <3>2, <3>3, <3>4
  <2> QED
    BY <2>1, <2>2
<1>6. ASSUME NEW n \in Validators, StartNextRound(n),
             Note(n, Outcome(AttemptRound(n, metrics[n], node[n], node[n].currentRound + 1),
                             node'[n]))
      PROVE  NotedInv'
  <2> DEFINE r == node[n].currentRound + 1
             m == AttemptRound(n, metrics[n], node[n], r)
  <2>1. node[n].active /\ node[n].currentRound < MaxRound
    BY <1>6 DEF StartNextRound
  <2>2. /\ r \in Rounds /\ metrics[n].RoundsAttempted = r - StartRound
        /\ metrics[n].RoundsAttempted < MaxRound /\ StartRound \in Nat
    BY <1>1, <2>1, TimeoutAssumption, BoundsAssumption DEF Tallied, Rounds
  <2>3. metrics[n].CommitRound = 0
    BY <1>1, <2>1 DEF NotedOf
  <2> HIDE DEF r
  <2>4. /\ m \in Measures /\ m.RoundsAttempted = metrics[n].RoundsAttempted + 1
        /\ m.CommitRound = metrics[n].CommitRound
        /\ m.ProposerByRound[r] = ProposerFor(n, {}, height, r)
    BY <1>1, <2>2, AttemptNotes
  <2>5. Note(n, Outcome(m, node'[n])) /\ Proceed(n)
    BY <1>6 DEF Proceed, r
  <2> HIDE DEF m
  <2>6. m.RoundsAttempted = r - StartRound + 1 /\ m.RoundsAttempted # 0
    BY <2>2, <2>4, RoundType DEF Rounds
  <2> QED
    BY <1>4, <2>2, <2>3, <2>4, <2>5, <2>6
\* Where the round stays the same.
<1>7. ASSUME NEW n \in Validators, Proceed(n) \/ Receive(n), node[n].active,
             NEW m \in Measures, Note(n, Outcome(m, node'[n])),
             m.RoundsAttempted = metrics[n].RoundsAttempted,
             m.CommitRound = metrics[n].CommitRound,
             m.ProposerByRound = metrics[n].ProposerByRound
      PROVE  NotedInv'
  <2> DEFINE r == node[n].currentRound
  <2>1. /\ r \in Rounds /\ m.RoundsAttempted = r - StartRound + 1 /\ m.CommitRound = 0
    BY <1>1, <1>7 DEF Tallied, NotedOf
  <2>2. m.RoundsAttempted # 0
    BY <2>1, RoundType DEF Rounds
  <2>3. m.ProposerByRound[r] = ProposerFor(n, {}, height, r)
    BY <1>1, <1>7, <2>2 DEF NotedOf
  <2> HIDE DEF r
  <2> QED
    BY <1>4, <1>7, <2>1, <2>2, <2>3
<1>8. ASSUME NEW n \in Validators, HandlePending(n) \/ Receive(n),
             Note(n, Outcome(metrics[n], node'[n]))
      PROVE  NotedInv'
  <2>1. node[n].active /\ (Proceed(n) \/ Receive(n))
    BY <1>8 DEF HandlePending, Receive, Looping, Proceed
  <2> QED
    BY <1>1, <1>7, <1>8, <2>1
<1>9. ASSUME NEW n \in Validators, NEW stage \in Stages, Timeout(n, stage),
             Note(n, Outcome(CountTimeout(metrics[n], node[n], stage), node'[n]))
      PROVE  NotedInv'
  <2> DEFINE m == CountTimeout(metrics[n], node[n], stage)
  <2>1. node[n].active /\ Proceed(n) /\ stage \in node[n].timers
    BY <1>9 DEF Timeout, Looping, Proceed
  <2>2. m \in Measures /\ m.RoundsAttempted = metrics[n].RoundsAttempted
    BY <1>1, <2>1, EventTallied
  <2>3. /\ m.CommitRound = metrics[n].CommitRound
        /\ m.ProposerByRound = metrics[n].ProposerByRound
    BY <1>1 DEF CountTimeout, Measures
  <2> HIDE DEF m
  <2> QED
    BY <1>7, <1>9, <2>1, <2>2, <2>3 DEF m
<1>10. ASSUME UNCHANGED <<node, metrics>> PROVE NotedInv'
  BY <1>10 DEF NotedInv, NotedOf
<1> QED
  BY <1>5, <1>6, <1>8, <1>9, <1>10 DEF ReportsNext, NextHeight, Lose, vars

LEMMA NotedInit == ReportsInit => NotedInv
<1> SUFFICES ASSUME ReportsInit PROVE NotedInv
  OBVIOUS
<1>1. \A n \in Validators : metrics[n] = NewMetrics
  BY DEF ReportsInit
<1>2. NewMetrics.CommitRound = 0 /\ NewMetrics.RoundsAttempted = 0
  BY DEF NewMetrics
<1> QED
  BY <1>1, <1>2 DEF NotedInv, NotedOf

\* Whose turn it is does not depend on who asks, when somebody has power.
LEMMA OneProposer ==
  ASSUME NEW K, NEW type, NEW h, NEW r, NEW b, PolkaIn(K, type, h, r, b)
  PROVE  \A u, v, q : ProposerFor(u, {}, h, q) = ProposerFor(v, {}, h, q)
<1> DEFINE W == VotersIn(K, type, h, r, b)
<1>1. ActiveValidators({}) # {}
  <2> SUFFICES ASSUME ActiveValidators({}) = {} PROVE FALSE
    OBVIOUS
  <2>1. W \in SUBSET Validators
    BY DEF VotersIn
  <2>2. \A v \in Validators : {v} \X (1 .. Power[v]) = {}
    <3>1. \A v \in Validators : Power[v] \in Nat /\ ~(Power[v] > 0)
      BY PowerAssumption DEF ActiveValidators
    <3>2. \A v \in Validators : 1 .. Power[v] = {}
      BY <3>1
    <3> QED
      BY <3>2
  <2> HIDE DEF W
  <2>3. UNION {UnitsOf(v) : v \in W} = {}
    BY <2>1, <2>2 DEF UnitsOf
  <2>4. PowerOf(W) = 0
    BY <2>3, FS_EmptySet DEF PowerOf
  <2> QED
    BY <2>4, QuorumType DEF PolkaIn, W
<1> QED
  BY <1>1 DEF ProposerFor

LEMMA ReportHolds ==
  ASSUME Equivocators = {}, PlaceInv, TallyInv, NotedInv, Voting!DecisionsAgree, NoNilPolka
  PROVE  ReportTrue
<1> SUFFICES ASSUME HeightOver, Report.Success, Report.CommitRound # 0
             PROVE  /\ \A v \in Validators :
                         node[v].committed => node[v].committedBlock = Report.CommitBlock
                    /\ \E p \in Sent("Proposal") :
                         /\ p.from = Report.CommitProposer
                         /\ p.height = height /\ p.round = Report.CommitRound
                         /\ p.block = Report.CommitBlock
  BY DEF ReportTrue
<1> DEFINE first == CHOOSE v \in Validators : \A w \in Validators : v <= w
           m     == metrics[first]
<1>1. first \in Validators
  BY FirstValidator
<1> HIDE DEF first
<1>2. /\ Report.CommitRound = m.CommitRound /\ Report.CommitBlock = m.CommitBlock
      /\ Report.CommitProposer = m.ProposerByRound[m.CommitRound]
  BY DEF Report, Summary, first
<1> DEFINE s == node[first]
           r == s.currentRound
           b == s.committedBlock
<1>3. /\ m.CommitRound = r /\ m.CommitBlock = b /\ s.committed
      /\ m.ProposerByRound[r] = ProposerFor(first, {}, height, r)
  BY <1>1, <1>2 DEF NotedInv, NotedOf, HeightOver
<1>4. /\ MessageFacts(sent) /\ WellNamed(sent)
      /\ \A v \in Validators : OwnCommit(node[v], sent) /\ node[v].currentHeight = height
  BY DEF PlaceInv, LockInv, RecordFacts, HeightOver
<1>5. ASSUME NEW v \in Validators, node[v].committed
      PROVE  /\ InBounds(height, node[v].currentRound)
             /\ node[v].committedBlock # Nil
             /\ PolkaIn(sent, "Precommit", height, node[v].currentRound, node[v].committedBlock)
             /\ node[v].committedBlock \in Values
             /\ Voting!Certified(VotesOf("Precommit"), height, node[v].currentRound,
                                 node[v].committedBlock)
  <2>1. /\ node[v].committedBlock # Nil
        /\ PolkaIn(sent, "Precommit", height, node[v].currentRound, node[v].committedBlock)
    BY <1>4, <1>5 DEF OwnCommit
  <2>2. node[v].committedBlock \in Values
    BY <1>4, <2>1, PolkaNamed DEF Votes
  <2>3. PICK c \in sent : c.height = height /\ c.round = node[v].currentRound
    BY <2>1, PolkaVoter
  <2>4. InBounds(height, node[v].currentRound)
    BY <1>4, <2>3 DEF WellNamed
  <2> QED
    BY <2>1, <2>2, <2>4, PolkaMapped, VotesMapped
<1>6. ASSUME NEW u \in Validators, NEW v \in Validators, node[u].committed, node[v].committed,
             node[u].currentRound <= node[v].currentRound,
             node[u].committedBlock # node[v].committedBlock
      PROVE  FALSE
  <2>1. \E q \in node[u].currentRound + 1 .. node[v].currentRound - 1 :
          Voting!Certified(VotesOf("Prevote"), height, q, Nil)
    BY <1>5, <1>6 DEF Voting!DecisionsAgree, InBounds, Values
  <2>2. PICK q \in node[u].currentRound + 1 .. node[v].currentRound - 1 :
          Polka("Prevote", height, q, Nil)
    BY <2>1, PolkaMapped, VotesMapped, PolkasAreIn
  <2>3. q \in Rounds
    BY <1>5, <1>6, RoundType DEF InBounds, Rounds
  <2> QED
    BY <2>2, <2>3 DEF NoNilPolka
<1>7. \A v \in Validators : node[v].committed => node[v].committedBlock = b
  <2> SUFFICES ASSUME NEW v \in Validators, node[v].committed PROVE node[v].committedBlock = b
    OBVIOUS
  <2>1. node[v].currentRound \in Nat /\ r \in Nat
    BY <1>1, <1>3, <1>5, RoundType DEF InBounds, Rounds
  <2>2. node[v].currentRound <= r \/ r <= node[v].currentRound
    BY <2>1
  <2> QED
    BY <1>1, <1>3, <1>6, <2>2
<1>8. b # Nil /\ PolkaIn(sent, "Precommit", height, r, b)
  BY <1>1, <1>3, <1>5
<1> HIDE DEF b, r, s, m
<1>9. PICK c \in sent : c.type = "Precommit" /\ c.height = height /\ c.round = r /\ c.block = b
  BY <1>8, PolkaVoter
<1>10. PICK v \in sent : v.type = "Prevote" /\ v.height = height /\ v.round = r /\ v.block = b
  <2>1. PolkaIn(sent, "Prevote", height, r, b)
    BY <1>4, <1>8, <1>9 DEF MessageFacts
  <2> QED
    BY <2>1, PolkaVoter
<1>11. PICK p \in sent : ProposedAs(p, v)
  BY <1>4, <1>8, <1>10 DEF MessageFacts
<1>12. p.from = ProposerFor(p.from, {}, height, r)
  BY <1>4, <1>10, <1>11, ZenonT(30) DEF MessageFacts, MayPropose, ProposedAs
<1>13. ProposerFor(p.from, {}, height, r) = ProposerFor(first, {}, height, r)
  BY <1>8, OneProposer
<1>14. /\ p \in Sent("Proposal") /\ p.from = Report.CommitProposer
       /\ p.height = height /\ p.round = Report.CommitRound /\ p.block = Report.CommitBlock
  BY <1>2, <1>3, <1>10, <1>11, <1>12, <1>13 DEF ProposedAs, Sent
<1> QED
  BY <1>2, <1>3, <1>7, <1>14

\* The report of a height tells what happened, as long as no round of the height had a
\* quorum for nil: its block is the one that all who committed have, and its proposer
\* proposed that block in the round named, although the summary only looks at the view
\* of the first validator (checkPrecommitQuorum, handleCommit, RunConsensus).
THEOREM ReportsAreTrue ==
  ASSUME Equivocators = {}
  PROVE  ReportsSpec => []ReportTrueUnlessNilPolka
<1>1. [ReportsNext]_<<vars, metrics>> => [Next]_vars
  BY DEF ReportsNext, Next, Proceed, vars
<1>2. PlaceInv /\ [Next]_vars => PlaceInv'
  BY PlaceNext
<1>3. PlaceInv /\ [Next]_vars => [Locked!Next]_Locked!vars
  BY StepMapped
<1>4. ReportsInit => PlaceInv /\ Locked!Init /\ NotedInv
  BY PlaceInit, InitMapped, NotedInit DEF ReportsInit
<1>5. Locked!QuorumAssumption
  BY QuorumsMeet DEF Voting!QuorumAssumption, Locked!QuorumAssumption
<1>6. Locked!Spec => []Locked!DecisionsAgree
  BY <1>5, Locked!LocksAgree
<1>7. TallyInv /\ TallyInv' /\ NotedInv /\ [ReportsNext]_<<vars, metrics>> => NotedInv'
  BY NotedNext
<1>8. PlaceInv /\ TallyInv /\ NotedInv /\ Locked!DecisionsAgree => ReportTrueUnlessNilPolka
  <2>1. Locked!DecisionsAgree => Voting!DecisionsAgree
    BY LockedAlike DEF Locked!DecisionsAgree, Voting!DecisionsAgree
  <2> QED
    BY <2>1, ReportHolds DEF ReportTrueUnlessNilPolka
<1> QED
  BY <1>1, <1>2, <1>3, <1>4, <1>6, <1>7, <1>8, TallyAlways, PTL DEF ReportsSpec, Locked!Spec
-----------------------------------------------------------------------------
\* Nobody is set to vote for nil, or twice; some may be silent.
VotesInGoodFaith == \A v \in Validators : Behavior[v] \subseteq {"SilentPrevote", "SilentPrecommit"}

FirstBlock(h) == Block(h, StartRound)

\* A message of the first round of h, for the block that is proposed in it.
OfFirst(m, h) ==
  m.height = h /\ m.round = StartRound /\ (m.type # "Evidence" => m.block = FirstBlock(h))

\* A record in the first round of h, where no vote was for nil.
First(s, h) ==
  /\ s \in NodeRecords
  /\ s.currentHeight = h /\ s.currentRound = StartRound
  /\ s.roundActive \/ s.committed \/ s.aborted
  /\ \A v \in Validators : /\ s.prevoteByVoter[v] \in {NoVote, FirstBlock(h)}
                           /\ s.precommitByVoter[v] \in {NoVote, FirstBlock(h)}
  /\ s.lockedBlock # Nil => s.lockedBlock = FirstBlock(h) /\ s.lockedHeight = h
  /\ s.validBlock # Nil /\ s.validHeight = h => s.validBlock = FirstBlock(h)
  /\ \A m \in s.out : OfFirst(m, h)

LEMMA FirstBlockType ==
  \A h \in Nat : FirstBlock(h) \in Blocks /\ FirstBlock(h) # Nil /\ FirstBlock(h) # NoVote
<1> SUFFICES ASSUME NEW h \in Nat
             PROVE  FirstBlock(h) \in Blocks /\ FirstBlock(h) # Nil /\ FirstBlock(h) # NoVote
  OBVIOUS
<1>1. FirstBlock(h) \in Blocks
  BY TimeoutAssumption DEF FirstBlock, Block, Blocks
<1> QED
  BY <1>1, NilAssumption

LEMMA FirstTimed ==
  ASSUME NEW h \in Nat, NEW s, First(s, h), NEW stage \in Stages
  PROVE  First(ScheduleStageTimeout(s, stage), h)
<1>1. s \in NodeRecords
  BY DEF First
<1> DEFINE stopped == [s EXCEPT !.aborted = TRUE, !.roundActive = FALSE]
           timed   == [s EXCEPT !.timers = s.timers \cup {stage}]
<1>2. stopped \in NodeRecords /\ timed \in NodeRecords
  BY <1>1, ZenonT(30) DEF NodeRecords
<1>3. First(stopped, h)
  BY <1>1, <1>2 DEF First, NodeRecords
<1>4. First(timed, h)
  BY <1>1, <1>2 DEF First, NodeRecords
<1> HIDE DEF stopped, timed
<1> QED
  BY <1>3, <1>4 DEF ScheduleStageTimeout, stopped, timed

LEMMA FirstSaid ==
  ASSUME NEW h \in Nat, NEW s, First(s, h), NEW n \in Validators,
         NEW type \in {"Proposal", "Prevote", "Precommit", "Commit"}
  PROVE  LET m == Msg(type, n, s, FirstBlock(h))
         IN  /\ m \in VoteMessages /\ m \in Messages /\ m.block = FirstBlock(h) /\ m.from = n
             /\ m.type = type /\ OfFirst(m, h) /\ Current(s, m)
             /\ First(Broadcast(s, m), h)
<1> DEFINE m == Msg(type, n, s, FirstBlock(h))
<1>1. s \in NodeRecords
  BY DEF First
<1>2. m \in VoteMessages /\ m \in Messages
  BY <1>1, FirstBlockType, MsgType DEF Messages
<1>3. /\ m.block = FirstBlock(h) /\ m.from = n /\ m.type = type
      /\ m.height = s.currentHeight /\ m.round = s.currentRound
  BY DEF Msg
<1>4. OfFirst(m, h) /\ Current(s, m)
  BY <1>3 DEF OfFirst, Current, First
<1> HIDE DEF m
<1>5. First(Broadcast(s, m), h)
  <2>1. Broadcast(s, m) \in NodeRecords
    BY <1>1, <1>2, BroadcastType
  <2> QED
    BY <1>1, <1>4, <2>1 DEF First, Broadcast, NodeRecords
<1> QED
  BY <1>2, <1>3, <1>4, <1>5 DEF m

\* A second vote for the same block is no evidence.
LEMMA FirstRecorded ==
  ASSUME NEW h \in Nat, NEW s, First(s, h), NEW n \in Validators,
         NEW m \in VoteMessages, m.block = FirstBlock(h)
  PROVE  First(RecordPrevote(n, s, m), h) /\ First(RecordPrecommit(n, s, m), h)
<1>1. s \in NodeRecords /\ m.from \in Validators
  BY DEF First, VoteMessages
<1> DEFINE p == [s EXCEPT !.prevoteByVoter[m.from] = m.block]
           c == [s EXCEPT !.precommitByVoter[m.from] = m.block]
<1>2. p \in NodeRecords /\ c \in NodeRecords
  BY <1>1, FirstBlockType DEF NodeRecords
<1>3. First(p, h)
  BY <1>1, <1>2 DEF First, NodeRecords
<1>4. First(c, h)
  BY <1>1, <1>2 DEF First, NodeRecords
<1>5. ~Conflicting(s, s.prevoteByVoter, m) /\ ~Conflicting(s, s.precommitByVoter, m)
  BY <1>1 DEF Conflicting, First
<1> HIDE DEF p, c
<1> QED
  BY <1>3, <1>4, <1>5 DEF RecordPrevote, RecordPrecommit, p, c

LEMMA FirstCheckPrecommit ==
  ASSUME NEW h \in Nat, NEW s, First(s, h), NEW n \in Validators
  PROVE  First(CheckPrecommitQuorum(n, s, FirstBlock(h)), h)
<1> DEFINE b == FirstBlock(h)
           c == [s EXCEPT !.committed = TRUE, !.roundActive = FALSE, !.committedBlock = b]
<1>1. s \in NodeRecords /\ b \in Blocks /\ b # Nil
  BY FirstBlockType DEF First
<1> HIDE DEF b
<1>2. c \in NodeRecords
  BY <1>1 DEF NodeRecords
<1>3. First(c, h)
  BY <1>1, <1>2 DEF First, NodeRecords
<1>4. Msg("Commit", n, s, b) = Msg("Commit", n, c, b)
  BY <1>1 DEF Msg, NodeRecords
<1> HIDE DEF c
<1>5. First(Broadcast(c, Msg("Commit", n, s, b)), h)
  BY <1>3, <1>4, FirstSaid DEF b
<1> QED
  BY <1>1, <1>5 DEF CheckPrecommitQuorum, b, c

LEMMA FirstSendPrecommit ==
  ASSUME VotesInGoodFaith, NEW h \in Nat, NEW s, First(s, h), NEW n \in Validators
  PROVE  First(SendPrecommit(n, s, FirstBlock(h)), h)
<1> DEFINE b == FirstBlock(h)
           t == [s EXCEPT !.precommitSent = TRUE]
           m == Msg("Precommit", n, s, b)
           recorded == RecordPrecommit(n, t, m)
           said     == Broadcast(recorded, m)
           checked  == CheckPrecommitQuorum(n, said, b)
<1>1. "ForceNilPrecommit" \notin Behavior[n] /\ "EquivocatePrecommit" \notin Behavior[n]
  BY DEF VotesInGoodFaith
<1>2. First(t, h)
  <2>1. s \in NodeRecords
    BY DEF First
  <2>2. t \in NodeRecords
    BY <2>1 DEF NodeRecords
  <2> QED
    BY <2>1, <2>2 DEF First, NodeRecords
<1> HIDE DEF t
<1>3. m \in VoteMessages /\ m.block = b /\ OfFirst(m, h) /\ m \in Messages
  BY FirstSaid
<1> HIDE DEF m
<1>4. First(recorded, h)
  BY <1>2, <1>3, FirstRecorded
<1> HIDE DEF recorded
<1>5. First(said, h)
  <2>1. recorded \in NodeRecords
    BY <1>4 DEF First
  <2>2. said \in NodeRecords
    BY <1>3, <2>1, BroadcastType
  <2> QED
    BY <1>3, <1>4, <2>1, <2>2 DEF First, Broadcast, NodeRecords
<1> HIDE DEF said
<1>6. First(checked, h)
  BY <1>5, FirstCheckPrecommit
<1> HIDE DEF checked
<1>7. "precommit" \in Stages
  BY DEF Stages
<1>8. First(ScheduleStageTimeout(checked, "precommit"), h)
      /\ First(ScheduleStageTimeout(t, "precommit"), h)
  BY <1>2, <1>6, <1>7, FirstTimed
<1> QED
  BY <1>1, <1>8 DEF SendPrecommit, checked, said, recorded, m, t

LEMMA FirstCheckPrevote ==
  ASSUME VotesInGoodFaith, NEW h \in Nat, NEW s, First(s, h), NEW n \in Validators
  PROVE  First(CheckPrevoteQuorum(n, s, FirstBlock(h)), h)
<1> DEFINE b == FirstBlock(h)
           l == LockedOn(s, b)
<1>1. s \in NodeRecords /\ b \in Blocks /\ b # Nil
  BY FirstBlockType DEF First
<1>2. l \in NodeRecords
  BY <1>1 DEF LockedOn, NodeRecords
<1>3. First(l, h)
  BY <1>1, <1>2, SMTT(20) DEF First, LockedOn, NodeRecords
<1> HIDE DEF l
<1>4. First(SendPrecommit(n, l, b), h)
  BY <1>3, FirstSendPrecommit
<1> QED
  BY <1>1, <1>4 DEF CheckPrevoteQuorum, LockedOn, l

LEMMA FirstSendPrevote ==
  ASSUME VotesInGoodFaith, NEW h \in Nat, NEW s, First(s, h), NEW n \in Validators
  PROVE  First(SendPrevote(n, s, FirstBlock(h)), h)
<1> DEFINE b == FirstBlock(h)
           t == [s EXCEPT !.prevoteSent = TRUE]
           m == Msg("Prevote", n, s, b)
           recorded == RecordPrevote(n, t, m)
           said     == Broadcast(recorded, m)
           checked  == CheckPrevoteQuorum(n, said, b)
<1>1. "ForceNilPrevote" \notin Behavior[n] /\ "EquivocatePrevote" \notin Behavior[n]
  BY DEF VotesInGoodFaith
<1>2. First(t, h)
  <2>1. s \in NodeRecords
    BY DEF First
  <2>2. t \in NodeRecords
    BY <2>1 DEF NodeRecords
  <2> QED
    BY <2>1, <2>2 DEF First, NodeRecords
<1> HIDE DEF t
<1>3. m \in VoteMessages /\ m.block = b /\ OfFirst(m, h) /\ m \in Messages
  BY FirstSaid
<1> HIDE DEF m
<1>4. First(recorded, h)
  BY <1>2, <1>3, FirstRecorded
<1> HIDE DEF recorded
<1>5. First(said, h)
  <2>1. recorded \in NodeRecords
    BY <1>4 DEF First
  <2>2. said \in NodeRecords
    BY <1>3, <2>1, BroadcastType
  <2> QED
    BY <1>3, <1>4, <2>1, <2>2 DEF First, Broadcast, NodeRecords
<1> HIDE DEF said
<1>6. First(checked, h)
  BY <1>5, FirstCheckPrevote
<1> HIDE DEF checked
<1>7. "prevote" \in Stages
  BY DEF Stages
<1>8. First(ScheduleStageTimeout(checked, "prevote"), h)
      /\ First(ScheduleStageTimeout(t, "prevote"), h)
  BY <1>2, <1>6, <1>7, FirstTimed
<1> QED
  BY <1>1, <1>8 DEF SendPrevote, checked, said, recorded, m, t

LEMMA FirstHandleProposal ==
  ASSUME VotesInGoodFaith, NEW h \in Nat, NEW s, First(s, h), NEW n \in Validators,
         NEW m \in VoteMessages, m.type = "Proposal", OfFirst(m, h)
  PROVE  First(HandleProposal(n, s, m), h)
<1>1. m.block = FirstBlock(h) /\ m.height = h
  BY DEF OfFirst
<1>2. First(SendPrevote(n, s, m.block), h)
  BY <1>1, FirstSendPrevote
<1> QED
  BY <1>1, <1>2 DEF HandleProposal, First

\* Messages of the first round, and those of earlier heights, keep n in it.
LEMMA FirstHandleMessage ==
  ASSUME VotesInGoodFaith, NEW h \in Nat, NEW s, First(s, h), NEW n \in Validators,
         NEW m \in Messages, m.height < h \/ OfFirst(m, h)
  PROVE  First(HandleMessage(n, s, m), h)
<1>1. s \in NodeRecords /\ s.currentHeight = h /\ s.currentRound = StartRound
      /\ StartRound \in Nat
  BY TimeoutAssumption DEF First
<1>2. m.height \in Nat /\ m.round \in Nat
  BY DEF Messages, VoteMessages, EvidenceMessages
<1>3. CASE m.height < h
  <2>1. Past(s, m) /\ ~Future(s, m)
    BY <1>1, <1>2, <1>3 DEF Past, Future
  <2>2. HandleMessage(n, s, m) = s
    BY <2>1 DEF HandleMessage
  <2> QED
    BY <2>2
<1>4. CASE OfFirst(m, h)
  <2>1. ~Past(s, m) /\ ~Future(s, m)
    BY <1>1, <1>2, <1>4 DEF Past, Future, OfFirst
  <2>2. CASE m \in VoteMessages
    <3>1. /\ m.type \in {"Proposal", "Prevote", "Precommit", "Commit"}
          /\ m.block = FirstBlock(h)
      BY <1>4, <2>2 DEF VoteMessages, OfFirst
    <3>2. m.type = "Proposal" => First(HandleProposal(n, s, m), h)
      BY <1>4, <2>2, FirstHandleProposal
    <3>3. First(HandlePrevote(n, s, m), h)
      BY <2>2, <3>1, FirstRecorded, FirstCheckPrevote DEF HandlePrevote
    <3>4. First(HandlePrecommit(n, s, m), h)
      BY <2>2, <3>1, FirstRecorded, FirstCheckPrecommit DEF HandlePrecommit
    <3>5. First(HandleCommit(n, s, m), h)
      <4> DEFINE c == [s EXCEPT !.committed = TRUE, !.roundActive = FALSE,
                                !.committedBlock = m.block]
      <4>1. m.block \in Blocks
        BY <3>1, FirstBlockType
      <4>2. c \in NodeRecords
        BY <1>1, <4>1 DEF NodeRecords
      <4>3. First(c, h)
        BY <1>1, <4>2 DEF First, NodeRecords
      <4> QED
        BY <4>3 DEF HandleCommit
    <3> QED
      BY <2>1, <3>1, <3>2, <3>3, <3>4, <3>5 DEF HandleMessage
  <2>3. CASE m \in EvidenceMessages
    <3>1. m.type = "Evidence" /\ m.offender \in Validators
      BY <2>3 DEF EvidenceMessages
    <3>2. Jail(n, s, m.offender) \in NodeRecords
      BY <1>1, <3>1, JailType
    <3>3. First(Jail(n, s, m.offender), h)
      BY <1>1, <3>2, SMTT(20) DEF First, Jail, NodeRecords
    <3> QED
      BY <2>1, <3>1, <3>3 DEF HandleMessage, HandleEvidence
  <2> QED
    BY <2>2, <2>3 DEF Messages
<1> QED
  BY <1>3, <1>4

LEMMA FirstRunRound ==
  ASSUME VotesInGoodFaith, NEW h \in Nat, NEW n \in Validators,
         NEW s \in NodeRecords, s.currentHeight = h, s.lockedBlock = Nil, s.validBlock = Nil,
         s.out = {}
  PROVE  First(RunRound(n, s, StartRound), h)
<1> DEFINE o        == Opened(s, StartRound)
           opened   == ScheduleStageTimeout(o, "proposal")
           proposal == Msg("Proposal", n, opened, SelectProposalBlock(opened))
           told     == Broadcast(opened, proposal)
<1>1. StartRound \in Nat /\ "proposal" \in Stages
  BY TimeoutAssumption DEF Stages
<1>2. First(o, h)
  <2>1. /\ o \in NodeRecords /\ o.currentHeight = h /\ o.currentRound = StartRound
        /\ o.roundActive /\ o.prevoteByVoter = NoVotes /\ o.precommitByVoter = NoVotes
        /\ o.lockedBlock = Nil /\ o.validBlock = Nil /\ o.out = {}
    BY <1>1, OpenedShape
  <2> HIDE DEF o
  <2> QED
    BY <2>1 DEF First, NoVotes
<1> HIDE DEF o
<1>3. First(opened, h)
  BY <1>1, <1>2, FirstTimed
<1> HIDE DEF opened
<1>4. SelectProposalBlock(opened) = FirstBlock(h)
  BY <1>3 DEF First, SelectProposalBlock, FirstBlock
<1>5. /\ proposal \in VoteMessages /\ OfFirst(proposal, h) /\ proposal.type = "Proposal"
      /\ First(told, h)
  <2>1. proposal = Msg("Proposal", n, opened, FirstBlock(h))
    BY <1>4
  <2> HIDE DEF proposal
  <2>2. proposal \in VoteMessages /\ proposal.type = "Proposal" /\ OfFirst(proposal, h)
    BY <1>3, <2>1, FirstSaid
  <2>3. First(Broadcast(opened, proposal), h)
    BY <1>3, <2>1, FirstSaid
  <2> QED
    BY <2>2, <2>3
<1> HIDE DEF proposal, told
<1>6. First(HandleProposal(n, told, proposal), h)
  BY <1>5, FirstHandleProposal
<1> QED
  BY <1>3, <1>6 DEF RunRound, Opened, told, proposal, opened, o

LEMMA FirstDone ==
  ASSUME NEW h \in Nat, NEW s, First(s, h)
  PROVE  First(Done(s), h)
<1> DEFINE said == [s EXCEPT !.out = {}]
           left == Settled(said)
           back == [left EXCEPT !.active = FALSE, !.timers = {}, !.pendingMessages = <<>>,
                                !.prevoteByVoter = NoVotes, !.precommitByVoter = NoVotes]
<1>1. s \in NodeRecords
  BY DEF First
<1>2. First(said, h)
  <2>1. said \in NodeRecords
    BY <1>1 DEF NodeRecords
  <2> QED
    BY <1>1, <2>1 DEF First, NodeRecords
<1> HIDE DEF said
<1>3. First(left, h)
  <2>1. said \in NodeRecords
    BY <1>2 DEF First
  <2>2. \E T : left = [said EXCEPT !.timers = T]
    BY DEF Settled
  <2>3. left \in NodeRecords
    BY <2>1, SettledType
  <2> HIDE DEF left
  <2> QED
    BY <1>2, <2>1, <2>2, <2>3, ZenonT(30) DEF First, NodeRecords
<1> HIDE DEF left
<1>4. First(back, h)
  <2>1. left \in NodeRecords
    BY <1>3 DEF First
  <2>2. back \in NodeRecords
    <3>1. <<>> \in Seq(Messages)
      OBVIOUS
    <3> QED
      BY <2>1, <3>1, NoVotesType DEF NodeRecords
  <2> QED
    BY <1>3, <2>1, <2>2 DEF First, NodeRecords, NoVotes
<1> HIDE DEF back
<1>5. Done(s) = back \/ Done(s) = left
  BY DEF Done, Returned, left, said, back
<1> QED
  BY <1>3, <1>4, <1>5

\* No timeout has been counted at the height that is run.
Untimed ==
  \A v \in Validators : node[v].currentHeight = height =>
    \A stage \in Stages : metrics[v].Timeouts[stage] = 0

AllFirst ==
  /\ \A m \in sent : m.height = height => OfFirst(m, height)
  /\ \A v \in Validators :
       node[v].currentHeight = height /\ metrics[v].RoundsAttempted # 0 => First(node[v], height)

FirstInv == PlaceInv /\ TallyInv /\ (Untimed => AllFirst)

LEMMA FirstRecord ==
  ASSUME FirstInv, NEW n \in Validators, node[n].active
  PROVE  /\ node[n].currentHeight = height /\ ~node[n].committed /\ ~node[n].aborted
         /\ AllFirst => First(node[n], height) /\ node[n].roundActive
<1>1. /\ node[n].currentHeight = height /\ Tallied(node[n], metrics[n])
      /\ ~node[n].committed /\ ~node[n].aborted
  BY DEF FirstInv, TallyInv, SettledInv
<1>2. metrics[n].RoundsAttempted # 0
  BY <1>1, RoundType DEF Tallied, Rounds
<1> QED
  BY <1>1, <1>2 DEF AllFirst, First

\* What is left of a step of n is to show that its handler stays in the first round,
\* unless the step counts a timeout, or had one to its account.
LEMMA StepFirst ==
  ASSUME FirstInv, PlaceInv', TallyInv', NEW n \in Validators, Proceed(n) \/ Receive(n),
         NEW s \in NodeRecords, NEW consumed, Finish(n, s, consumed),
         NEW m \in Measures, Note(n, Outcome(m, node'[n])),
         NEW old, old = metrics[n].Timeouts,
         node[n].currentHeight = height /\ (\A stage \in Stages : m.Timeouts[stage] = 0)
           => \A stage \in Stages : old[stage] = 0,
         AllFirst /\ (\A stage \in Stages : m.Timeouts[stage] = 0)
           => First(s, height) \/ (s.out = {} /\ m.RoundsAttempted = 0)
  PROVE  FirstInv'
<1> SUFFICES ASSUME Untimed' PROVE AllFirst'
  BY DEF FirstInv
<1> DEFINE t == Done(s)
           o == Outcome(m, t)
<1>1. /\ node \in [Validators -> NodeRecords] /\ metrics \in [Validators -> Measures]
      /\ height \in Nat
  BY DEF FirstInv, TallyInv, SettledInv, VotesInv, TypeOK
<1>2. /\ node' = [node EXCEPT ![n] = t] /\ node'[n] = t
      /\ sent' = sent \cup s.out /\ height' = height
  BY <1>1 DEF Finish, Done
<1>3. metrics' = [metrics EXCEPT ![n] = o] /\ metrics'[n] = o
  BY <1>1, <1>2 DEF Note
<1>4. t \in NodeRecords /\ t.currentHeight = height
  BY <1>2, DoneShape, HandlersDecide DEF FirstInv, TallyInv
<1> HIDE DEF t
<1>5. t.committed => t.currentRound \in Rounds
  <2>1. t.currentHeight > 0 => t.currentRound \in StartRound .. MaxRound
    BY <1>2 DEF PlaceInv
  <2>2. height > 0
    BY DEF FirstInv, TallyInv, SettledInv
  <2> QED
    BY <1>4, <2>1, <2>2 DEF Rounds
<1>6. o.Timeouts = m.Timeouts /\ o.RoundsAttempted = m.RoundsAttempted
  BY <1>4, <1>5, OutcomeShape
<1> HIDE DEF o
<1>7. \A stage \in Stages : m.Timeouts[stage] = 0
  BY <1>2, <1>3, <1>4, <1>6 DEF Untimed
<1>8. Untimed
  <2>1. \A v \in Validators : v # n => node'[v] = node[v] /\ metrics'[v] = metrics[v]
    BY <1>1, <1>2, <1>3
  <2> QED
    BY <1>2, <1>7, <2>1 DEF Untimed
<1>9. AllFirst
  BY <1>8 DEF FirstInv
<1>10. First(s, height) \/ (s.out = {} /\ m.RoundsAttempted = 0)
  BY <1>7, <1>9
<1>11. \A x \in sent' : x.height = height => OfFirst(x, height)
  BY <1>2, <1>9, <1>10 DEF AllFirst, First
<1>12. m.RoundsAttempted # 0 => First(t, height)
  BY <1>1, <1>10, FirstDone DEF t
<1>13. ASSUME NEW v \in Validators, node'[v].currentHeight = height,
              metrics'[v].RoundsAttempted # 0
       PROVE  First(node'[v], height)
  <2>1. CASE v = n
    BY <1>2, <1>3, <1>6, <1>12, <1>13, <2>1
  <2>2. CASE v # n
    <3>1. node'[v] = node[v] /\ metrics'[v] = metrics[v]
      BY <1>1, <1>2, <1>3, <2>2
    <3> QED
      BY <1>9, <1>13, <3>1 DEF AllFirst
  <2> QED
    BY <2>1, <2>2
<1> QED
  BY <1>2, <1>11, <1>13 DEF AllFirst

LEMMA StartFirst ==
  ASSUME VotesInGoodFaith, FirstInv, PlaceInv', TallyInv', NEW n \in Validators, Start(n),
         Note(n, IF Skips(n) THEN SkippedMetrics
                 ELSE Outcome(AttemptRound(n, NewMetrics, node[n], StartRound), node'[n]))
  PROVE  FirstInv'
<1> DEFINE o == node[n]
           s == StartConsensus(n, o, height)
<1>1. /\ o \in NodeRecords /\ height \in Nat /\ o.out = {} /\ LockInv
      /\ node \in [Validators -> NodeRecords] /\ metrics \in [Validators -> Measures]
      /\ o.currentHeight < height
  BY DEF FirstInv, PlaceInv, TallyInv, SettledInv, VotesInv, TypeOK, Start
<1>2. Finish(n, s, {}) /\ s \in NodeRecords /\ Proceed(n)
  BY <1>1, StartConsensusType DEF Start, Proceed
<1>3. o.currentHeight # height
  BY <1>1 DEF NodeRecords
<1>4. CASE ~Skips(n)
  <2> DEFINE m == AttemptRound(n, NewMetrics, o, StartRound)
             q == Ready(n, o, height)
  <2>1. NewMetrics.RoundsAttempted < MaxRound /\ StartRound \in Rounds
    BY TimeoutAssumption, RoundType DEF NewMetrics, Rounds
  <2>2. m \in Measures
    BY <1>1, <2>1, NewMetricsType, AttemptShape
  <2>3. Note(n, Outcome(m, node'[n]))
    BY <1>4
  <2>4. s = RunRound(n, q, StartRound)
    BY <1>4, StartSplits DEF Skips
  <2>5. q \in NodeRecords /\ q.currentHeight = height /\ q.out = {}
    <3>1. q \in NodeRecords /\ q.currentHeight = height
      BY <1>1, ReadyShape
    <3>2. q.out = o.out
      BY <1>1, ReadyShape
    <3> QED
      BY <1>1, <3>1, <3>2
  <2>6. q.lockedBlock = Nil /\ q.validBlock = Nil
    <3>1. LocksBehind(o) /\ o.currentHeight \in Nat
      BY <1>1 DEF LockInv, RecordFacts, NodeRecords
    <3>2. (o.lockedHeight = height /\ q.lockedBlock = o.lockedBlock) \/ q.lockedBlock = Nil
      BY <1>1, ReadyShape
    <3>3. (o.validHeight = height /\ q.validBlock = o.validBlock) \/ q.validBlock = Nil
      BY <1>1, ReadyShape
    <3> QED
      BY <1>1, <3>1, <3>2, <3>3 DEF LocksBehind, Behind
  <2> HIDE DEF m, q
  <2>7. First(s, height)
    BY <1>1, <2>4, <2>5, <2>6, FirstRunRound
  <2> HIDE DEF s, o
  <2> QED
    BY <1>2, <1>3, <2>2, <2>3, <2>7, StepFirst DEF o
<1>5. CASE Skips(n)
  <2>1. s = Begun(n, o, height)
    BY <1>5, StartSplits DEF Skips
  <2>2. s.out = {}
    BY <1>1, <2>1, BegunShape
  <2> HIDE DEF s, o
  <2>3. node' = [node EXCEPT ![n] = Done(s)] /\ height' = height /\ sent' = sent
    BY <1>2, <2>2 DEF Finish, Done
  <2>4. metrics' = [metrics EXCEPT ![n] = SkippedMetrics]
    BY <1>5 DEF Note
  <2>5. SkippedMetrics.RoundsAttempted = 0
    BY DEF SkippedMetrics, NewMetrics
  <2>6. \A v \in Validators :
          \/ v = n /\ metrics'[v].RoundsAttempted = 0
          \/ v # n /\ node'[v] = node[v] /\ metrics'[v] = metrics[v]
    BY <1>1, <2>3, <2>4, <2>5
  <2>7. Untimed' => Untimed
    BY <1>3, <2>3, <2>6 DEF Untimed, o
  <2> QED
    BY <2>3, <2>6, <2>7 DEF FirstInv, AllFirst
<1> QED
  BY <1>4, <1>5

\* A timeout that is not counted comes too late to have an effect.
LEMMA EventFirst ==
  ASSUME NEW s \in NodeRecords, NEW n \in Validators, NEW stage \in Stages,
         NEW m \in Measures, \A x \in Stages : CountTimeout(m, s, stage).Timeouts[x] = 0
  PROVE  /\ \A x \in Stages : m.Timeouts[x] = 0
         /\ \A h \in Nat : First(s, h) => First(HandleEvent(n, s, stage), h)
<1> DEFINE f     == [m.Timeouts EXCEPT ![stage] = m.Timeouts[stage] + 1]
           c     == [m EXCEPT !.Timeouts = f]
           fired == [s EXCEPT !.timers = s.timers \ {stage}]
<1>1. m.Timeouts \in [Stages -> 0 .. MaxRound] /\ m.Timeouts[stage] \in Nat
  BY RoundType DEF Measures
<1>2. f[stage] = m.Timeouts[stage] + 1
  BY <1>1
<1>3. [m EXCEPT !.Timeouts[stage] = m.Timeouts[stage] + 1] = c
  BY DEF Measures
<1> HIDE DEF f
<1>4. c.Timeouts = f
  BY DEF Measures
<1> HIDE DEF c
<1>5. /\ CountTimeout(m, s, stage) = m
      /\ \/ s.committed
         \/ stage = "proposal" /\ s.prevoteSent
         \/ stage = "prevote" /\ s.precommitSent
  <2>1. c.Timeouts[stage] # 0
    BY <1>1, <1>2, <1>4
  <2>2. CountTimeout(m, s, stage) # c
    BY <2>1
  <2> QED
    BY <1>3, <2>2 DEF CountTimeout
<1>6. /\ fired.committed = s.committed /\ fired.prevoteSent = s.prevoteSent
      /\ fired.precommitSent = s.precommitSent
  BY DEF NodeRecords
<1>7. \A h \in Nat : First(s, h) => First(fired, h)
  <2>1. fired \in NodeRecords
    BY DEF NodeRecords
  <2> QED
    BY <2>1, ZenonT(30) DEF First, NodeRecords
<1> HIDE DEF fired
<1>8. HandleEvent(n, s, stage) = fired
  <2>1. CASE stage = "proposal"
    BY <1>5, <1>6, <2>1 DEF HandleEvent, OnProposalTimeout, fired
  <2>2. CASE stage = "prevote"
    BY <1>5, <1>6, <2>2 DEF HandleEvent, OnPrevoteTimeout, fired
  <2>3. CASE stage = "precommit"
    BY <1>5, <1>6, <2>3 DEF HandleEvent, OnPrecommitTimeout, fired
  <2> QED
    BY <2>1, <2>2, <2>3 DEF Stages
<1> QED
  BY <1>5, <1>7, <1>8

LEMMA FirstNext ==
  ASSUME VotesInGoodFaith
  PROVE  FirstInv /\ [ReportsNext]_<<vars, metrics>> => FirstInv'
<1> SUFFICES ASSUME FirstInv, [ReportsNext]_<<vars, metrics>> PROVE FirstInv'
  OBVIOUS
<1>1. Equivocators = {}
  BY DEF VotesInGoodFaith, Equivocators
<1>2. [Next]_vars
  BY DEF ReportsNext, Next, Proceed, vars
<1>3. PlaceInv' /\ TallyInv'
  BY <1>1, <1>2, PlaceNext, TallyNext DEF FirstInv
<1>4. /\ node \in [Validators -> NodeRecords] /\ metrics \in [Validators -> Measures]
      /\ \A n \in Validators : node[n].pendingMessages \in Seq(sent) /\ inbox[n] \subseteq sent
      /\ sent \subseteq Messages /\ height \in Nat
      /\ \A x \in sent : x.height <= height
  <2>1. \A n \in Validators : Sound(n, node[n], sent) /\ node[n].out = {} /\ inbox[n] \subseteq sent
    BY DEF FirstInv, TallyInv, SettledInv, VotesInv, TypeOK
  <2>2. \A n \in Validators : sent \cup node[n].out = sent
    BY <2>1
  <2> QED
    BY <2>1, <2>2 DEF FirstInv, PlaceInv, TallyInv, SettledInv, VotesInv, TypeOK, Sound, Holds
<1>5. ASSUME NEW n \in Validators, Proceed(n) \/ Receive(n), NEW s \in NodeRecords,
             AllFirst => First(s, height), NEW x \in sent, NEW consumed,
             Finish(n, HandleMessage(n, s, x), consumed), Note(n, Outcome(metrics[n], node'[n]))
      PROVE  FirstInv'
  <2> DEFINE t == HandleMessage(n, s, x)
  <2>1. x \in Messages /\ metrics[n] \in Measures
    BY <1>4
  <2>2. x.height \in Nat
    BY <2>1 DEF Messages, VoteMessages, EvidenceMessages
  <2>3. t \in NodeRecords
    BY <2>1, HandleMessageType
  <2>4. AllFirst => First(t, height)
    <3>1. AllFirst => x.height < height \/ OfFirst(x, height)
      BY <1>4, <2>2 DEF AllFirst
    <3> QED
      BY <1>4, <1>5, <2>1, <3>1, FirstHandleMessage
  <2>5. Finish(n, t, consumed)
    BY <1>5
  <2> HIDE DEF t
  <2> QED
    BY <1>3, <1>5, <2>1, <2>3, <2>4, <2>5, StepFirst
<1>6. ASSUME NEW n \in Validators, Start(n),
             Note(n, IF Skips(n) THEN SkippedMetrics
                     ELSE Outcome(AttemptRound(n, NewMetrics, node[n], StartRound), node'[n]))
      PROVE  FirstInv'
  BY <1>3, <1>6, StartFirst
<1>7. ASSUME NEW n \in Validators, StartNextRound(n),
             Note(n, Outcome(AttemptRound(n, metrics[n], node[n], node[n].currentRound + 1),
                             node'[n]))
      PROVE  FirstInv'
  <2> DEFINE o == node[n]
             r == o.currentRound + 1
             m == AttemptRound(n, metrics[n], o, r)
             s == NextRound(n, o)
  <2>1. o.active /\ ~o.roundActive /\ o.currentRound < MaxRound /\ Finish(n, s, {})
    BY <1>7 DEF StartNextRound
  <2>2. o \in NodeRecords /\ metrics[n] \in Measures
    BY <1>4
  <2>3. Tallied(o, metrics[n]) /\ ~AllFirst
    BY <2>1, FirstRecord DEF FirstInv, TallyInv
  <2>4. r \in Rounds /\ metrics[n].RoundsAttempted < MaxRound
    BY <2>1, <2>2, <2>3, TimeoutAssumption, BoundsAssumption DEF Tallied, Rounds
  <2>5. s \in NodeRecords
    BY <2>2, NextRoundType
  <2> HIDE DEF r
  <2>6. m \in Measures /\ m.Timeouts = metrics[n].Timeouts
    BY <1>4, <2>2, <2>4, AttemptShape
  <2>7. Note(n, Outcome(m, node'[n]))
    BY <1>7 DEF r
  <2> HIDE DEF m, s
  <2>8. Proceed(n)
    BY <1>7 DEF Proceed
  <2> HIDE DEF o
  <2> QED
    BY <1>3, <2>1, <2>3, <2>5, <2>6, <2>7, <2>8, StepFirst
<1>8. ASSUME NEW n \in Validators, HandlePending(n), Note(n, Outcome(metrics[n], node'[n]))
      PROVE  FirstInv'
  <2> DEFINE q == node[n].pendingMessages
             p == [node[n] EXCEPT !.pendingMessages = Tail(q)]
  <2>1. node[n].active /\ q # <<>> /\ Finish(n, HandleMessage(n, p, Head(q)), {})
    BY <1>8 DEF HandlePending, Looping
  <2>2. q \in Seq(sent) /\ node[n] \in NodeRecords
    BY <1>4
  <2>3. Head(q) \in sent
    BY <2>1, <2>2
  <2>4. Tail(q) \in Seq(Messages)
    <3>1. q \in Seq(Messages)
      BY <2>2 DEF NodeRecords
    <3> QED
      BY <2>1, <3>1
  <2>5. p \in NodeRecords
    BY <2>2, <2>4, PendingType
  <2>6. First(node[n], height) => First(p, height)
    BY <2>2, <2>5 DEF First, NodeRecords
  <2>7. AllFirst => First(p, height)
    BY <2>1, <2>6, FirstRecord
  <2>8. Proceed(n)
    BY <1>8 DEF Proceed
  <2> HIDE DEF p, q
  <2> QED
    BY <1>5, <1>8, <2>1, <2>3, <2>5, <2>7, <2>8
<1>9. ASSUME NEW n \in Validators, Receive(n), Note(n, Outcome(metrics[n], node'[n]))
      PROVE  FirstInv'
  <2>1. PICK x \in inbox[n] : Finish(n, HandleMessage(n, node[n], x), {x})
    BY <1>9 DEF Receive
  <2>2. node[n].active /\ node[n] \in NodeRecords /\ x \in sent
    BY <1>4, <1>9 DEF Receive, Looping
  <2>3. AllFirst => First(node[n], height)
    BY <2>2, FirstRecord
  <2> QED
    BY <1>5, <1>9, <2>1, <2>2, <2>3
<1>10. ASSUME NEW n \in Validators, NEW stage \in Stages, Timeout(n, stage),
              Note(n, Outcome(CountTimeout(metrics[n], node[n], stage), node'[n]))
       PROVE  FirstInv'
  <2> DEFINE s == HandleEvent(n, node[n], stage)
             m == CountTimeout(metrics[n], node[n], stage)
  <2>1. node[n].active /\ stage \in node[n].timers /\ Finish(n, s, {})
    BY <1>10 DEF Timeout, Looping
  <2>2. node[n] \in NodeRecords /\ metrics[n] \in Measures /\ Tallied(node[n], metrics[n])
    BY <1>4, <2>1 DEF FirstInv, TallyInv
  <2>3. s \in NodeRecords /\ m \in Measures
    BY <2>1, <2>2, HandleEventType, EventTallied
  <2>4. (\A x \in Stages : m.Timeouts[x] = 0) =>
          /\ \A x \in Stages : metrics[n].Timeouts[x] = 0
          /\ AllFirst => First(s, height)
    <3>1. AllFirst => First(node[n], height)
      BY <2>1, FirstRecord
    <3> QED
      BY <1>4, <2>2, <3>1, EventFirst
  <2>5. Note(n, Outcome(m, node'[n])) /\ Proceed(n)
    BY <1>10 DEF Proceed
  <2> HIDE DEF s, m
  <2> QED
    BY <1>3, <2>1, <2>3, <2>4, <2>5, StepFirst
<1>11. ASSUME NextHeight PROVE FirstInv'
  <2>1. height' = height + 1 /\ UNCHANGED <<node, sent>>
        /\ \A v \in Validators : node[v].currentHeight = height
    BY <1>11 DEF NextHeight
  <2>2. \A x \in sent : x.height # height'
    <3>1. \A x \in sent : x.height \in Nat
      BY <1>4 DEF Messages, VoteMessages, EvidenceMessages
    <3> QED
      BY <1>4, <2>1, <3>1
  <2> QED
    BY <1>3, <1>4, <2>1, <2>2 DEF FirstInv, AllFirst
<1>12. ASSUME UNCHANGED <<height, node, sent, metrics>> PROVE FirstInv'
  BY <1>3, <1>12 DEF FirstInv, Untimed, AllFirst
<1> QED
  BY <1>6, <1>7, <1>8, <1>9, <1>10, <1>11, <1>12 DEF ReportsNext, Lose, vars

LEMMA FirstInit == ReportsInit => FirstInv
<1> SUFFICES ASSUME ReportsInit PROVE FirstInv
  OBVIOUS
<1>1. PlaceInv /\ TallyInv
  BY PlaceInit, TallyInit DEF ReportsInit
<1>2. sent = {} /\ NewMetrics.RoundsAttempted = 0 /\ \A v \in Validators : metrics[v] = NewMetrics
  BY DEF ReportsInit, Init, NewMetrics
<1> QED
  BY <1>1, <1>2 DEF FirstInv, AllFirst

\* When nobody is set to vote for nil, or twice, it takes a counted timeout of some
\* validator for anybody to leave the first round of a height: neither delays nor the
\* order of messages, silent validators or locks of earlier heights do it.
THEOREM RoundsFollowTimeouts ==
  ASSUME VotesInGoodFaith
  PROVE  ReportsSpec => []TimeoutsExplainRounds
<1>1. ASSUME FirstInv, \A v \in Validators : \A stage \in Stages : metrics[v].Timeouts[stage] = 0,
             NEW v \in Validators, node[v].currentHeight = height
      PROVE  metrics[v].RoundsAttempted <= 1
  <2>1. AllFirst
    BY <1>1 DEF FirstInv, Untimed
  <2>2. metrics[v].RoundsAttempted # 0 =>
          node[v].currentRound = StartRound /\ Tallied(node[v], metrics[v])
    BY <1>1, <2>1 DEF AllFirst, First, FirstInv, TallyInv
  <2> QED
    BY <2>2, TimeoutAssumption DEF Tallied
<1>2. FirstInv => TimeoutsExplainRounds
  BY <1>1 DEF TimeoutsExplainRounds
<1> QED
  BY <1>2, FirstInit, FirstNext, PTL DEF ReportsSpec
=============================================================================

--------------------------- MODULE ConsensusProofs ---------------------------
(***************************************************************************)
(* Theorems about Consensus for every set of validators, power map,        *)
(* behaviour and bound: types, votes and evidence, and, in the second      *)
(* half, what is behind locks, commits and rounds.  First what every       *)
(* handler of a validator keeps, whatever the record it starts from: the   *)
(* record stays a NodeRecord.                                              *)
(***************************************************************************)
EXTENDS Consensus, PowerProofs

LEMMA ScheduleType ==
  ASSUME NEW s \in NodeRecords, NEW stage \in Stages
  PROVE  ScheduleStageTimeout(s, stage) \in NodeRecords
  BY ZenonT(30) DEF ScheduleStageTimeout, NodeRecords

LEMMA MsgType ==
  ASSUME NEW s \in NodeRecords, NEW n \in Validators, NEW b \in Blocks \cup {Nil},
         NEW type \in {"Proposal", "Prevote", "Precommit", "Commit"}
  PROVE  Msg(type, n, s, b) \in VoteMessages
  BY DEF Msg, NodeRecords, VoteMessages

LEMMA BroadcastType ==
  ASSUME NEW s \in NodeRecords, NEW m \in Messages
  PROVE  Broadcast(s, m) \in NodeRecords
  BY DEF Broadcast, NodeRecords

LEMMA JailType ==
  ASSUME NEW s \in NodeRecords, NEW n \in Validators, NEW v \in Validators
  PROVE  Jail(n, s, v) \in NodeRecords
<1> DEFINE j == s.jailed \/ v = n
<1>1. j \in BOOLEAN /\ s.jailedPeers \cup {v} \in SUBSET Validators
  BY DEF NodeRecords
<1> HIDE DEF j
<1>2. [s EXCEPT !.jailedPeers = s.jailedPeers \cup {v}, !.jailed = j] \in NodeRecords
  BY <1>1 DEF NodeRecords
<1> QED
  BY <1>2 DEF Jail, j

LEMMA ReportType ==
  ASSUME NEW s \in NodeRecords, NEW n \in Validators, NEW v \in Validators
  PROVE  ReportEvidence(n, s, v) \in NodeRecords
<1> DEFINE e == [type |-> "Evidence", from |-> n, height |-> s.currentHeight,
                 round |-> s.currentRound, offender |-> v]
<1>1. e \in Messages
  BY DEF Messages, EvidenceMessages, NodeRecords
<1> HIDE DEF e
<1>2. Broadcast(s, e) \in NodeRecords
  BY <1>1, BroadcastType
<1>3. Jail(n, Broadcast(s, e), v) \in NodeRecords
  BY <1>2, JailType
<1> QED
  BY <1>3 DEF ReportEvidence, e

LEMMA RecordType ==
  ASSUME NEW s \in NodeRecords, NEW n \in Validators, NEW m \in VoteMessages
  PROVE  /\ RecordPrevote(n, s, m) \in NodeRecords
         /\ RecordPrecommit(n, s, m) \in NodeRecords
<1>1. m.from \in Validators /\ m.block \in Blocks \cup {Nil}
  BY DEF VoteMessages
<1>2. [s EXCEPT !.prevoteByVoter[m.from] = m.block] \in NodeRecords
  BY <1>1 DEF NodeRecords
<1>3. [s EXCEPT !.precommitByVoter[m.from] = m.block] \in NodeRecords
  BY <1>1 DEF NodeRecords
<1> QED
  BY <1>1, <1>2, <1>3, ReportType DEF RecordPrevote, RecordPrecommit

\* The blocks that validators name in their messages.
LEMMA BlockType ==
  ASSUME NEW s \in NodeRecords, NEW n \in Validators, NEW b \in Blocks \cup {Nil}
  PROVE  /\ ConflictingVote(n, s, b) \in Blocks \cup {Nil}
         /\ SelectProposalBlock(s) \in Blocks \cup {Nil}
  BY DEF ConflictingVote, SelectProposalBlock, Block, EquivBlock, Blocks, NodeRecords

LEMMA CheckPrecommitType ==
  ASSUME NEW s \in NodeRecords, NEW n \in Validators, NEW b \in Blocks \cup {Nil}
  PROVE  CheckPrecommitQuorum(n, s, b) \in NodeRecords
<1> DEFINE c == [s EXCEPT !.committed = TRUE, !.roundActive = FALSE, !.committedBlock = b]
           m == Msg("Commit", n, s, b)
<1>1. [s EXCEPT !.roundActive = FALSE] \in NodeRecords /\ c \in NodeRecords
  BY ZenonT(30) DEF NodeRecords
<1>2. m \in Messages
  BY MsgType DEF Messages
<1> HIDE DEF c, m
<1>3. Broadcast(c, m) \in NodeRecords
  BY <1>1, <1>2, BroadcastType
<1> QED
  BY <1>1, <1>3 DEF CheckPrecommitQuorum, c, m

LEMMA SendPrecommitType ==
  ASSUME NEW s \in NodeRecords, NEW n \in Validators, NEW b \in Blocks \cup {Nil}
  PROVE  SendPrecommit(n, s, b) \in NodeRecords
<1> DEFINE t        == [s EXCEPT !.precommitSent = TRUE]
           vote     == IF "ForceNilPrecommit" \in Behavior[n] THEN Nil ELSE b
           m        == Msg("Precommit", n, s, vote)
           recorded == RecordPrecommit(n, t, m)
           checked  == CheckPrecommitQuorum(n, Broadcast(recorded, m), vote)
           conflict == Msg("Precommit", n, s, ConflictingVote(n, s, vote))
           final    == IF "EquivocatePrecommit" \in Behavior[n]
                       THEN Broadcast(checked, conflict) ELSE checked
<1>1. t \in NodeRecords
  BY DEF NodeRecords
<1>2. vote \in Blocks \cup {Nil}
  OBVIOUS
<1>3. ConflictingVote(n, s, vote) \in Blocks \cup {Nil}
  BY <1>2, BlockType
<1> HIDE DEF vote, t
<1>4. m \in VoteMessages /\ conflict \in VoteMessages
  BY <1>2, <1>3, MsgType
<1> HIDE DEF m, conflict
<1>5. recorded \in NodeRecords
  BY <1>1, <1>4, RecordType
<1> HIDE DEF recorded
<1>6. Broadcast(recorded, m) \in NodeRecords
  BY <1>4, <1>5, BroadcastType DEF Messages
<1>7. checked \in NodeRecords
  BY <1>2, <1>6, CheckPrecommitType
<1> HIDE DEF checked
<1>8. final \in NodeRecords
  BY <1>4, <1>7, BroadcastType DEF Messages
<1> HIDE DEF final
<1>9. /\ ScheduleStageTimeout(final, "precommit") \in NodeRecords
      /\ ScheduleStageTimeout(t, "precommit") \in NodeRecords
  BY <1>1, <1>8, ScheduleType DEF Stages
<1> QED
  BY <1>9 DEF SendPrecommit, final, checked, recorded, conflict, m, vote, t

LEMMA CheckPrevoteType ==
  ASSUME NEW s \in NodeRecords, NEW n \in Validators, NEW b \in Blocks \cup {Nil}
  PROVE  CheckPrevoteQuorum(n, s, b) \in NodeRecords
<1> DEFINE l == [s EXCEPT !.lockedBlock = b, !.lockedRound = s.currentRound,
                          !.lockedHeight = s.currentHeight,
                          !.validBlock = b, !.validRound = s.currentRound,
                          !.validHeight = s.currentHeight]
<1>1. l \in NodeRecords
  BY DEF NodeRecords
<1>2. Unlocked(s) \in NodeRecords
  BY DEF Unlocked, NodeRecords
<1> HIDE DEF l
<1>3. /\ SendPrecommit(n, l, b) \in NodeRecords
      /\ SendPrecommit(n, Unlocked(s), Nil) \in NodeRecords
      /\ SendPrecommit(n, s, Nil) \in NodeRecords
  BY <1>1, <1>2, SendPrecommitType
<1> QED
  BY <1>3 DEF CheckPrevoteQuorum, l

LEMMA SendPrevoteType ==
  ASSUME NEW s \in NodeRecords, NEW n \in Validators, NEW b \in Blocks \cup {Nil}
  PROVE  SendPrevote(n, s, b) \in NodeRecords
<1> DEFINE t        == [s EXCEPT !.prevoteSent = TRUE]
           vote     == IF "ForceNilPrevote" \in Behavior[n] THEN Nil ELSE b
           m        == Msg("Prevote", n, s, vote)
           recorded == RecordPrevote(n, t, m)
           checked  == CheckPrevoteQuorum(n, Broadcast(recorded, m), vote)
           conflict == Msg("Prevote", n, s, ConflictingVote(n, s, vote))
           final    == IF "EquivocatePrevote" \in Behavior[n]
                       THEN Broadcast(checked, conflict) ELSE checked
<1>1. t \in NodeRecords
  BY DEF NodeRecords
<1>2. vote \in Blocks \cup {Nil}
  OBVIOUS
<1>3. ConflictingVote(n, s, vote) \in Blocks \cup {Nil}
  BY <1>2, BlockType
<1> HIDE DEF vote, t
<1>4. m \in VoteMessages /\ conflict \in VoteMessages
  BY <1>2, <1>3, MsgType
<1> HIDE DEF m, conflict
<1>5. recorded \in NodeRecords
  BY <1>1, <1>4, RecordType
<1> HIDE DEF recorded
<1>6. Broadcast(recorded, m) \in NodeRecords
  BY <1>4, <1>5, BroadcastType DEF Messages
<1>7. checked \in NodeRecords
  BY <1>2, <1>6, CheckPrevoteType
<1> HIDE DEF checked
<1>8. final \in NodeRecords
  BY <1>4, <1>7, BroadcastType DEF Messages
<1> HIDE DEF final
<1>9. /\ ScheduleStageTimeout(final, "prevote") \in NodeRecords
      /\ ScheduleStageTimeout(t, "prevote") \in NodeRecords
  BY <1>1, <1>8, ScheduleType DEF Stages
<1> QED
  BY <1>9 DEF SendPrevote, final, checked, recorded, conflict, m, vote, t

LEMMA HandleProposalType ==
  ASSUME NEW s \in NodeRecords, NEW n \in Validators, NEW m \in VoteMessages
  PROVE  HandleProposal(n, s, m) \in NodeRecords
<1>1. m.block \in Blocks \cup {Nil}
  BY DEF VoteMessages
<1>2. SendPrevote(n, s, m.block) \in NodeRecords /\ SendPrevote(n, s, Nil) \in NodeRecords
  BY <1>1, SendPrevoteType
<1> QED
  BY <1>2 DEF HandleProposal

LEMMA HandleVoteType ==
  ASSUME NEW s \in NodeRecords, NEW n \in Validators, NEW m \in VoteMessages
  PROVE  /\ HandlePrevote(n, s, m) \in NodeRecords
         /\ HandlePrecommit(n, s, m) \in NodeRecords
         /\ HandleCommit(n, s, m) \in NodeRecords
<1>1. m.block \in Blocks \cup {Nil}
  BY DEF VoteMessages
<1>2. /\ RecordPrevote(n, s, m) \in NodeRecords
      /\ RecordPrecommit(n, s, m) \in NodeRecords
  BY RecordType
<1>3. HandlePrevote(n, s, m) \in NodeRecords
  BY <1>1, <1>2, CheckPrevoteType DEF HandlePrevote
<1>4. HandlePrecommit(n, s, m) \in NodeRecords
  BY <1>1, <1>2, CheckPrecommitType DEF HandlePrecommit
<1>5. HandleCommit(n, s, m) \in NodeRecords
  BY <1>1 DEF HandleCommit, NodeRecords
<1> QED
  BY <1>3, <1>4, <1>5

LEMMA HandleMessageType ==
  ASSUME NEW s \in NodeRecords, NEW n \in Validators, NEW m \in Messages
  PROVE  HandleMessage(n, s, m) \in NodeRecords
<1>1. [s EXCEPT !.pendingMessages = Append(s.pendingMessages, m),
                !.roundActive = FALSE] \in NodeRecords
  <2>1. Append(s.pendingMessages, m) \in Seq(Messages)
    BY DEF NodeRecords
  <2> QED
    BY <2>1 DEF NodeRecords
<1>2. CASE m \in VoteMessages
  <2>1. m.type \in {"Proposal", "Prevote", "Precommit", "Commit"}
    BY <1>2 DEF VoteMessages
  <2>2. /\ HandleProposal(n, s, m) \in NodeRecords
        /\ HandlePrevote(n, s, m) \in NodeRecords
        /\ HandlePrecommit(n, s, m) \in NodeRecords
        /\ HandleCommit(n, s, m) \in NodeRecords
    BY <1>2, HandleProposalType, HandleVoteType
  <2> QED
    BY <1>1, <2>1, <2>2 DEF HandleMessage
<1>3. CASE m \in EvidenceMessages
  <2>1. m.type = "Evidence" /\ m.offender \in Validators
    BY <1>3 DEF EvidenceMessages
  <2>2. HandleEvidence(n, s, m) \in NodeRecords
    BY <2>1, JailType DEF HandleEvidence
  <2> QED
    BY <1>1, <2>1, <2>2 DEF HandleMessage
<1> QED
  BY <1>2, <1>3 DEF Messages

LEMMA HandleEventType ==
  ASSUME NEW s \in NodeRecords, NEW n \in Validators, NEW stage \in Stages
  PROVE  HandleEvent(n, s, stage) \in NodeRecords
<1> DEFINE fired == [s EXCEPT !.timers = s.timers \ {stage}]
<1>1. fired \in NodeRecords
  BY DEF NodeRecords
<1> HIDE DEF fired
<1>2. OnProposalTimeout(n, fired) \in NodeRecords
  BY <1>1, SendPrevoteType DEF OnProposalTimeout
<1>3. OnPrevoteTimeout(n, fired) \in NodeRecords
  BY <1>1, SendPrecommitType DEF OnPrevoteTimeout
<1>4. OnPrecommitTimeout(n, fired) \in NodeRecords
  BY <1>1, ZenonT(30) DEF OnPrecommitTimeout, NodeRecords
<1> QED
  BY <1>2, <1>3, <1>4 DEF HandleEvent, Stages, fired

LEMMA NoVotesType == NoVotes \in [Validators -> Blocks \cup {Nil, NoVote}]
  BY DEF NoVotes

LEMMA RunRoundType ==
  ASSUME NEW s \in NodeRecords, NEW n \in Validators, NEW r \in Nat
  PROVE  RunRound(n, s, r) \in NodeRecords
<1> DEFINE t == [s EXCEPT !.currentRound = r, !.roundActive = TRUE,
                          !.prevoteSent = FALSE, !.precommitSent = FALSE,
                          !.prevoteByVoter = NoVotes, !.precommitByVoter = NoVotes,
                          !.timers = {}]
           opened   == ScheduleStageTimeout(t, "proposal")
           proposal == Msg("Proposal", n, opened, SelectProposalBlock(opened))
<1>1. t \in NodeRecords
  BY NoVotesType DEF NodeRecords
<1> HIDE DEF t
<1>2. opened \in NodeRecords
  BY <1>1, ScheduleType DEF Stages
<1> HIDE DEF opened
<1>3. proposal \in VoteMessages
  BY <1>2, BlockType, MsgType
<1> HIDE DEF proposal
<1>4. Broadcast(opened, proposal) \in NodeRecords
  BY <1>2, <1>3, BroadcastType DEF Messages
<1>5. HandleProposal(n, Broadcast(opened, proposal), proposal) \in NodeRecords
  BY <1>3, <1>4, HandleProposalType
<1> QED
  BY <1>2, <1>5 DEF RunRound, proposal, opened, t

LEMMA NextRoundType ==
  ASSUME NEW s \in NodeRecords, NEW n \in Validators
  PROVE  NextRound(n, s) \in NodeRecords
<1> DEFINE cap == IF EscalatesAfter(s.currentRound - StartRound + 1)
                  THEN EscalatedCap(s.timeoutMultiplierCap) ELSE s.timeoutMultiplierCap
<1>1. cap \in Nat
  BY DEF EscalatedCap, NodeRecords
<1> HIDE DEF cap
<1>2. [s EXCEPT !.timeoutMultiplierCap = cap] \in NodeRecords
  BY <1>1 DEF NodeRecords
<1>3. s.currentRound + 1 \in Nat
  BY DEF NodeRecords
<1>4. RunRound(n, [s EXCEPT !.timeoutMultiplierCap = cap], s.currentRound + 1) \in NodeRecords
  BY <1>2, <1>3, RunRoundType
<1> QED
  BY <1>4 DEF NextRound, cap

\* StartConsensus leaves the first record when the validator is jailed, and opens
\* the first round with the second otherwise.
Begun(n, s, h) ==
  LET jailed == s.jailed \/ n \in s.jailedPeers
  IN  [s EXCEPT !.active = ~jailed, !.jailed = jailed,
                !.currentHeight = h, !.currentRound = StartRound,
                !.roundActive = TRUE, !.prevoteSent = FALSE,
                !.precommitSent = FALSE, !.committed = FALSE, !.committedBlock = Nil]

Ready(n, s, h) ==
  LET begun    == Begun(n, s, h)
      unlocked == IF s.lockedHeight = h THEN begun
                  ELSE [begun EXCEPT !.lockedBlock = Nil, !.lockedRound = 0,
                                     !.lockedHeight = h]
      cleared  == IF s.validHeight = h THEN unlocked
                  ELSE [unlocked EXCEPT !.validBlock = Nil, !.validRound = 0,
                                        !.validHeight = h]
  IN  [cleared EXCEPT !.pendingMessages = <<>>, !.aborted = FALSE]

LEMMA StartSplits ==
  \A n, s, h : StartConsensus(n, s, h) =
    IF s.jailed \/ n \in s.jailedPeers THEN Begun(n, s, h)
    ELSE RunRound(n, Ready(n, s, h), StartRound)
  BY DEF StartConsensus, Begun, Ready

LEMMA BegunShape ==
  ASSUME NEW s \in NodeRecords, NEW n \in Validators, NEW h \in Nat
  PROVE  LET t == Begun(n, s, h)
         IN  /\ t \in NodeRecords
             /\ t.active <=> ~(s.jailed \/ n \in s.jailedPeers)
             /\ t.currentHeight = h /\ t.currentRound = StartRound
             /\ ~t.prevoteSent /\ ~t.precommitSent /\ t.roundActive
             /\ ~t.committed /\ t.committedBlock = Nil
             /\ t.lockedBlock = s.lockedBlock /\ t.lockedRound = s.lockedRound
             /\ t.lockedHeight = s.lockedHeight /\ t.validBlock = s.validBlock
             /\ t.validRound = s.validRound /\ t.validHeight = s.validHeight
             /\ t.jailedPeers = s.jailedPeers /\ t.out = s.out
             /\ t.pendingMessages = s.pendingMessages
             /\ t.jailed => s.jailed \/ n \in s.jailedPeers
<1> DEFINE jailed == s.jailed \/ n \in s.jailedPeers
           runs   == ~jailed
           t      == [s EXCEPT !.active = runs, !.jailed = jailed,
                               !.currentHeight = h, !.currentRound = StartRound,
                               !.roundActive = TRUE, !.prevoteSent = FALSE,
                               !.precommitSent = FALSE, !.committed = FALSE,
                               !.committedBlock = Nil]
<1>1. jailed \in BOOLEAN /\ runs \in BOOLEAN /\ (runs <=> ~jailed)
  OBVIOUS
<1>2. Begun(n, s, h) = t
  BY DEF Begun
<1>3. StartRound \in Nat
  BY TimeoutAssumption
<1> HIDE DEF jailed, runs
<1>4. /\ t \in NodeRecords
      /\ t.active = runs /\ t.currentHeight = h /\ t.currentRound = StartRound
      /\ ~t.prevoteSent /\ ~t.precommitSent /\ t.roundActive
      /\ ~t.committed /\ t.committedBlock = Nil
      /\ t.jailed = jailed
  <2>1. t \in NodeRecords
    BY <1>1, <1>3 DEF NodeRecords
  <2>2. /\ t.active = runs /\ t.currentHeight = h /\ t.currentRound = StartRound
        /\ ~t.prevoteSent /\ ~t.precommitSent /\ t.roundActive
        /\ ~t.committed /\ t.committedBlock = Nil
    BY <1>1 DEF NodeRecords
  <2>3. t.jailed = jailed
    BY <1>1 DEF NodeRecords
  <2> QED
    BY <2>1, <2>2, <2>3
<1>5. /\ t.lockedBlock = s.lockedBlock /\ t.lockedRound = s.lockedRound
      /\ t.lockedHeight = s.lockedHeight /\ t.validBlock = s.validBlock
      /\ t.validRound = s.validRound /\ t.validHeight = s.validHeight
      /\ t.jailedPeers = s.jailedPeers /\ t.out = s.out
      /\ t.pendingMessages = s.pendingMessages
  BY DEF NodeRecords
<1> HIDE DEF t
<1> QED
  BY <1>1, <1>2, <1>4, <1>5 DEF jailed

LEMMA ReadyShape ==
  ASSUME NEW s \in NodeRecords, NEW n \in Validators, NEW h \in Nat
  PROVE  LET t == Ready(n, s, h)
         IN  /\ t \in NodeRecords
             /\ t.active <=> ~(s.jailed \/ n \in s.jailedPeers)
             /\ t.currentHeight = h /\ ~t.committed /\ ~t.aborted
             /\ t.lockedHeight = h
             /\ \/ s.lockedHeight = h /\ t.lockedBlock = s.lockedBlock
                   /\ t.lockedRound = s.lockedRound
                \/ t.lockedBlock = Nil
             /\ t.validHeight = h
             /\ \/ s.validHeight = h /\ t.validBlock = s.validBlock
                   /\ t.validRound = s.validRound
                \/ t.validBlock = Nil
             /\ t.jailedPeers = s.jailedPeers /\ t.out = s.out /\ t.pendingMessages = <<>>
             /\ t.jailed => s.jailed \/ n \in s.jailedPeers
<1> DEFINE begun    == Begun(n, s, h)
           open     == [begun EXCEPT !.lockedBlock = Nil, !.lockedRound = 0,
                                     !.lockedHeight = h]
           unlocked == IF s.lockedHeight = h THEN begun ELSE open
           fresh    == [unlocked EXCEPT !.validBlock = Nil, !.validRound = 0,
                                        !.validHeight = h]
           cleared  == IF s.validHeight = h THEN unlocked ELSE fresh
           ready    == [cleared EXCEPT !.pendingMessages = <<>>, !.aborted = FALSE]
           Like(t)  == /\ t \in NodeRecords /\ t.active = begun.active
                       /\ t.currentHeight = h /\ ~t.committed
                       /\ t.jailedPeers = s.jailedPeers /\ t.out = s.out
                       /\ t.jailed => s.jailed \/ n \in s.jailedPeers
           Lock(t)  == /\ t.lockedHeight = h
                       /\ \/ s.lockedHeight = h /\ t.lockedBlock = s.lockedBlock
                             /\ t.lockedRound = s.lockedRound
                          \/ t.lockedBlock = Nil
           Valid(t) == /\ t.validHeight = h
                       /\ \/ s.validHeight = h /\ t.validBlock = s.validBlock
                             /\ t.validRound = s.validRound
                          \/ t.validBlock = Nil
<1>1. /\ Like(begun)
      /\ begun.lockedBlock = s.lockedBlock /\ begun.lockedRound = s.lockedRound
      /\ begun.lockedHeight = s.lockedHeight /\ begun.validBlock = s.validBlock
      /\ begun.validRound = s.validRound /\ begun.validHeight = s.validHeight
      /\ begun.active <=> ~(s.jailed \/ n \in s.jailedPeers)
  BY BegunShape
<1> HIDE DEF begun
<1>2. /\ Like(open) /\ Lock(open)
      /\ open.validBlock = begun.validBlock /\ open.validRound = begun.validRound
      /\ open.validHeight = begun.validHeight
  BY <1>1 DEF NodeRecords
<1> HIDE DEF open
<1>3. /\ Like(unlocked) /\ Lock(unlocked)
      /\ unlocked.validBlock = s.validBlock /\ unlocked.validRound = s.validRound
      /\ unlocked.validHeight = s.validHeight
  BY <1>1, <1>2
<1> HIDE DEF unlocked
<1>4. Like(fresh) /\ Valid(fresh) /\ Lock(fresh)
  <2>1. Like(fresh) /\ Valid(fresh)
    BY <1>3 DEF NodeRecords
  <2>2. /\ fresh.lockedHeight = unlocked.lockedHeight
        /\ fresh.lockedBlock = unlocked.lockedBlock
        /\ fresh.lockedRound = unlocked.lockedRound
    BY <1>3 DEF NodeRecords
  <2> QED
    BY <1>3, <2>1, <2>2
<1> HIDE DEF fresh
<1>5. Like(cleared) /\ Valid(cleared) /\ Lock(cleared)
  BY <1>3, <1>4
<1> HIDE DEF cleared
<1>6. <<>> \in Seq(Messages)
  OBVIOUS
<1>7. /\ ready \in NodeRecords /\ ready.active = cleared.active
      /\ ready.currentHeight = cleared.currentHeight /\ ready.committed = cleared.committed
      /\ ~ready.aborted /\ ready.jailedPeers = cleared.jailedPeers
      /\ ready.jailed = cleared.jailed
      /\ ready.out = cleared.out /\ ready.pendingMessages = <<>>
  BY <1>5, <1>6 DEF NodeRecords
<1>8. /\ ready.lockedHeight = cleared.lockedHeight /\ ready.lockedBlock = cleared.lockedBlock
      /\ ready.lockedRound = cleared.lockedRound /\ ready.validHeight = cleared.validHeight
      /\ ready.validBlock = cleared.validBlock /\ ready.validRound = cleared.validRound
  BY <1>5 DEF NodeRecords
<1>9. Ready(n, s, h) = ready
  BY DEF Ready, begun, open, unlocked, fresh, cleared
<1> HIDE DEF ready
<1> QED
  BY <1>1, <1>5, <1>7, <1>8, <1>9

LEMMA StartConsensusType ==
  ASSUME NEW s \in NodeRecords, NEW n \in Validators, NEW h \in Nat
  PROVE  StartConsensus(n, s, h) \in NodeRecords
<1>1. Begun(n, s, h) \in NodeRecords /\ Ready(n, s, h) \in NodeRecords
  BY BegunShape, ReadyShape
<1>2. StartRound \in Nat
  BY TimeoutAssumption
<1> QED
  BY <1>1, <1>2, StartSplits, RunRoundType

LEMMA ReturnedType ==
  ASSUME NEW s \in NodeRecords
  PROVE  Returned(s) \in NodeRecords
<1>1. <<>> \in Seq(Messages)
  OBVIOUS
<1>2. [s EXCEPT !.active = FALSE, !.timers = {}, !.pendingMessages = <<>>,
                !.prevoteByVoter = NoVotes, !.precommitByVoter = NoVotes] \in NodeRecords
  BY <1>1, NoVotesType DEF NodeRecords
<1> QED
  BY <1>2 DEF Returned

LEMMA NewNodeType == NewNode \in NodeRecords /\ NewNode.out = {}
  BY NoVotesType DEF NewNode, NodeRecords, DefaultCap
-----------------------------------------------------------------------------

LEMMA SettledType ==
  ASSUME NEW s \in NodeRecords
  PROVE  Settled(s) \in NodeRecords
<1> DEFINE over == (IF s.prevoteSent THEN {"proposal"} ELSE {})
                     \cup (IF s.precommitSent THEN {"prevote"} ELSE {})
<1>1. s.timers \ over \in SUBSET Stages
  BY DEF NodeRecords
<1> HIDE DEF over
<1>2. [s EXCEPT !.timers = s.timers \ over] \in NodeRecords
  BY <1>1 DEF NodeRecords
<1> QED
  BY <1>2 DEF Settled, over

\* What the end of a handler leaves of its record.
LEMMA DoneType ==
  ASSUME NEW s \in NodeRecords
  PROVE  /\ Returned(Settled([s EXCEPT !.out = {}])) \in NodeRecords
         /\ Returned(Settled([s EXCEPT !.out = {}])).out = {}
<1> DEFINE sent0 == [s EXCEPT !.out = {}]
<1>1. sent0 \in NodeRecords /\ sent0.out = {}
  BY DEF NodeRecords
<1> HIDE DEF sent0
<1>2. Settled(sent0) \in NodeRecords /\ Settled(sent0).out = {}
  <2>1. Settled(sent0).out = sent0.out
    BY <1>1 DEF Settled, NodeRecords
  <2> QED
    BY <1>1, <2>1, SettledType
<1>3. Returned(Settled(sent0)).out = Settled(sent0).out
  BY <1>2 DEF Returned, NodeRecords
<1> QED
  BY <1>2, <1>3, ReturnedType DEF sent0

LEMMA FinishType ==
  ASSUME TypeOK, NEW n \in Validators, NEW s \in NodeRecords, NEW consumed,
         Finish(n, s, consumed)
  PROVE  TypeOK'
<1> DEFINE done == Returned(Settled([s EXCEPT !.out = {}]))
<1>1. done \in NodeRecords /\ done.out = {}
  BY DoneType
<1> HIDE DEF done
<1>2. node' = [node EXCEPT ![n] = done]
  BY DEF Finish, done
<1>3. node' \in [Validators -> NodeRecords] /\ \A v \in Validators : node'[v].out = {}
  BY <1>1, <1>2 DEF TypeOK
<1>4. s.out \subseteq Messages
  BY DEF NodeRecords
<1>5. sent' \subseteq Messages /\ height' \in Nat
  BY <1>4 DEF Finish, TypeOK
<1>6. inbox' \in [Validators -> SUBSET Messages]
  BY <1>4 DEF Finish, TypeOK, Pertinent
<1>7. strikes' \in [Validators -> 0 .. MaxStrikes]
  BY BoundsAssumption DEF Finish, TypeOK
<1> QED
  BY <1>3, <1>5, <1>6, <1>7 DEF TypeOK

LEMMA PendingType ==
  ASSUME NEW s \in NodeRecords, NEW q \in Seq(Messages)
  PROVE  [s EXCEPT !.pendingMessages = q] \in NodeRecords
  BY DEF NodeRecords

LEMMA InitType == Init => TypeOK
  BY NewNodeType, BoundsAssumption DEF Init, TypeOK

LEMMA NextType == TypeOK /\ [Next]_vars => TypeOK'
<1> SUFFICES ASSUME TypeOK, [Next]_vars PROVE TypeOK'
  OBVIOUS
<1>1. ASSUME NEW n \in Validators PROVE node[n] \in NodeRecords /\ inbox[n] \subseteq Messages
  BY DEF TypeOK
<1>2. ASSUME NEW n \in Validators, Start(n) PROVE TypeOK'
  <2>1. StartConsensus(n, node[n], height) \in NodeRecords
    BY <1>1, StartConsensusType DEF TypeOK
  <2> QED
    BY <1>2, <2>1, FinishType DEF Start
<1>3. ASSUME NEW n \in Validators, StartNextRound(n) PROVE TypeOK'
  <2>1. NextRound(n, node[n]) \in NodeRecords
    BY <1>1, NextRoundType
  <2> QED
    BY <1>3, <2>1, FinishType DEF StartNextRound
<1>4. ASSUME NEW n \in Validators, HandlePending(n) PROVE TypeOK'
  <2> DEFINE q == node[n].pendingMessages
             s == [node[n] EXCEPT !.pendingMessages = Tail(q)]
  <2>1. q \in Seq(Messages) /\ q # <<>>
    BY <1>1, <1>4 DEF HandlePending, NodeRecords
  <2>2. Head(q) \in Messages /\ Tail(q) \in Seq(Messages)
    BY <2>1
  <2>3. s \in NodeRecords
    BY <1>1, <2>2, PendingType
  <2> HIDE DEF s
  <2>4. HandleMessage(n, s, Head(q)) \in NodeRecords
    BY <2>2, <2>3, HandleMessageType
  <2>5. Finish(n, HandleMessage(n, s, Head(q)), {})
    BY <1>4 DEF HandlePending, s
  <2> QED
    BY <2>4, <2>5, FinishType
<1>5. ASSUME NEW n \in Validators, Receive(n) PROVE TypeOK'
  <2>1. PICK m \in inbox[n] : Finish(n, HandleMessage(n, node[n], m), {m})
    BY <1>5 DEF Receive
  <2>2. HandleMessage(n, node[n], m) \in NodeRecords
    BY <1>1, HandleMessageType
  <2> QED
    BY <2>1, <2>2, FinishType
<1>6. ASSUME NEW n \in Validators, NEW stage \in Stages, Timeout(n, stage) PROVE TypeOK'
  <2>1. HandleEvent(n, node[n], stage) \in NodeRecords
    BY <1>1, HandleEventType
  <2> QED
    BY <1>6, <2>1, FinishType DEF Timeout
<1>7. ASSUME NEW n \in Validators, Lose(n) PROVE TypeOK'
  <2>1. PICK m \in inbox[n] : /\ inbox' = [inbox EXCEPT ![n] = @ \ {m}]
                              /\ UNCHANGED <<height, node, strikes, sent>>
    BY <1>7 DEF Lose
  <2> QED
    BY <2>1 DEF TypeOK
<1>8. CASE NextHeight
  BY <1>8 DEF NextHeight, TypeOK
<1>9. CASE UNCHANGED vars
  BY <1>9 DEF vars, TypeOK
<1> QED
  BY <1>2, <1>3, <1>4, <1>5, <1>6, <1>7, <1>8, <1>9 DEF Next, Proceed

\* Type correctness: the node records, the messages in flight and the strikes
\* keep their types, and every handler sends all that it has to send.
THEOREM TypeCorrect == Spec => []TypeOK
<1>1. TypeOK /\ [Next]_vars => TypeOK'
  BY NextType
<1> QED
  BY <1>1, InitType, PTL DEF Spec
-----------------------------------------------------------------------------
\* The round of s can still be moved on by a timer.
Live(s) == s.roundActive /\ ~s.committed /\ ~s.jailed /\ ~s.aborted

\* The timer of every stage that s still waits for.
Timed(s) ==
  /\ ~s.prevoteSent => "proposal" \in s.timers
  /\ s.prevoteSent /\ ~s.precommitSent => "prevote" \in s.timers
  /\ s.precommitSent => "precommit" \in s.timers

\* Handlers of a round start the timer of a stage when they cast the vote before it,
\* and no other.
Grows(s, t) ==
  /\ t.active = s.active
  /\ t.currentHeight = s.currentHeight /\ t.currentRound = s.currentRound
  /\ s.timers \subseteq t.timers
  /\ s.prevoteSent => t.prevoteSent
  /\ s.precommitSent => t.precommitSent
  /\ \A stage \in t.timers \ s.timers :
       \/ stage = "prevote" /\ ~s.prevoteSent /\ t.prevoteSent
       \/ stage = "precommit" /\ ~s.precommitSent /\ t.precommitSent
  /\ Live(t) => /\ Live(s)
                /\ t.prevoteSent /\ ~s.prevoteSent => "prevote" \in t.timers
                /\ t.precommitSent /\ ~s.precommitSent => "precommit" \in t.timers

LEMMA GrowsOn ==
  ASSUME NEW r, NEW s, NEW t, Grows(r, s), Grows(s, t)
  PROVE  Grows(r, t)
  BY DEF Grows

LEMMA GrowsTimed ==
  ASSUME NEW s, NEW t, Grows(s, t), Live(s) => Timed(s)
  PROVE  Live(t) => Timed(t)
  BY DEF Grows, Timed

LEMMA ScheduleGrows ==
  ASSUME NEW s \in NodeRecords, NEW stage \in Stages
  PROVE  LET t == ScheduleStageTimeout(s, stage)
         IN  /\ t.active = s.active
             /\ t.currentHeight = s.currentHeight /\ t.currentRound = s.currentRound
             /\ s.timers \subseteq t.timers /\ t.timers \subseteq s.timers \cup {stage}
             /\ t.prevoteSent = s.prevoteSent /\ t.precommitSent = s.precommitSent
             /\ Live(t) => Live(s) /\ stage \in t.timers
  BY DEF ScheduleStageTimeout, Live, NodeRecords

LEMMA SmallStepsGrow ==
  ASSUME NEW s \in NodeRecords, NEW n \in Validators
  PROVE  /\ Grows(s, s)
         /\ \A m \in Messages : Grows(s, Broadcast(s, m))
         /\ \A v \in Validators : Grows(s, Jail(n, s, v))
         /\ \A m \in VoteMessages : Grows(s, RecordPrevote(n, s, m))
         /\ \A m \in VoteMessages : Grows(s, RecordPrecommit(n, s, m))
<1>1. ASSUME NEW r \in NodeRecords
      PROVE  /\ Grows(r, r)
             /\ \A m \in Messages : Grows(r, Broadcast(r, m))
             /\ \A v \in Validators : Grows(r, Jail(n, r, v))
  BY DEF Grows, Live, Broadcast, Jail, NodeRecords
<1>2. ASSUME NEW v \in Validators PROVE Grows(s, ReportEvidence(n, s, v))
  <2> DEFINE e == [type |-> "Evidence", from |-> n, height |-> s.currentHeight,
                   round |-> s.currentRound, offender |-> v]
  <2>1. e \in Messages
    BY DEF Messages, EvidenceMessages, NodeRecords
  <2> HIDE DEF e
  <2>2. Broadcast(s, e) \in NodeRecords
    BY <2>1, BroadcastType
  <2>3. Grows(s, Broadcast(s, e)) /\ Grows(Broadcast(s, e), Jail(n, Broadcast(s, e), v))
    BY <1>1, <2>1, <2>2
  <2> QED
    BY <2>3, GrowsOn DEF ReportEvidence, e
<1>3. ASSUME NEW m \in VoteMessages
      PROVE  Grows(s, RecordPrevote(n, s, m)) /\ Grows(s, RecordPrecommit(n, s, m))
  <2>1. m.from \in Validators
    BY DEF VoteMessages
  <2>2. /\ Grows(s, [s EXCEPT !.prevoteByVoter[m.from] = m.block])
        /\ Grows(s, [s EXCEPT !.precommitByVoter[m.from] = m.block])
    BY DEF Grows, Live, NodeRecords
  <2> QED
    BY <1>1, <1>2, <2>1, <2>2 DEF RecordPrevote, RecordPrecommit
<1> QED
  BY <1>1, <1>3

LEMMA CheckPrecommitGrows ==
  ASSUME NEW s \in NodeRecords, NEW n \in Validators, NEW b \in Blocks \cup {Nil}
  PROVE  Grows(s, CheckPrecommitQuorum(n, s, b))
<1> DEFINE c == [s EXCEPT !.committed = TRUE, !.roundActive = FALSE, !.committedBlock = b]
           d == [s EXCEPT !.roundActive = FALSE]
           m == Msg("Commit", n, s, b)
<1>1. c \in NodeRecords
  BY DEF NodeRecords
<1>4. Grows(s, c)
  BY DEF Grows, Live, NodeRecords
<1>5. Grows(s, d)
  BY DEF Grows, Live, NodeRecords
<1>6. Grows(s, s)
  BY SmallStepsGrow
<1>2. m \in Messages
  BY MsgType DEF Messages
<1> HIDE DEF c, d, m
<1>3. Grows(s, Broadcast(c, m))
  BY <1>1, <1>2, <1>4, SmallStepsGrow, GrowsOn
<1> QED
  BY <1>3, <1>5, <1>6 DEF CheckPrecommitQuorum, c, d, m

LEMMA SendPrecommitGrows ==
  ASSUME NEW s \in NodeRecords, NEW n \in Validators, NEW b \in Blocks \cup {Nil}
  PROVE  LET t == SendPrecommit(n, s, b)
         IN  Grows(s, t) /\ (Live(t) => t.precommitSent)
<1> DEFINE t        == [s EXCEPT !.precommitSent = TRUE]
           vote     == IF "ForceNilPrecommit" \in Behavior[n] THEN Nil ELSE b
           m        == Msg("Precommit", n, s, vote)
           recorded == RecordPrecommit(n, t, m)
           said     == Broadcast(recorded, m)
           checked  == CheckPrecommitQuorum(n, said, vote)
           conflict == Msg("Precommit", n, s, ConflictingVote(n, s, vote))
           final    == IF "EquivocatePrecommit" \in Behavior[n]
                       THEN Broadcast(checked, conflict) ELSE checked
<1>1. CASE s.precommitSent \/ s.jailed
  BY <1>1, SmallStepsGrow DEF SendPrecommit, Live
<1>2. CASE ~s.precommitSent /\ ~s.jailed
  <2>1. /\ t \in NodeRecords /\ t.active = s.active /\ t.timers = s.timers
        /\ t.currentHeight = s.currentHeight /\ t.currentRound = s.currentRound
        /\ t.prevoteSent = s.prevoteSent /\ t.precommitSent
        /\ Live(t) => Live(s)
    BY DEF NodeRecords, Live
  <2>2. vote \in Blocks \cup {Nil}
    OBVIOUS
  <2>3. ConflictingVote(n, s, vote) \in Blocks \cup {Nil}
    BY <2>2, BlockType
  <2> HIDE DEF vote, t
  <2>4. m \in VoteMessages /\ conflict \in VoteMessages
    BY <2>2, <2>3, MsgType
  <2> HIDE DEF m, conflict
  <2>5. recorded \in NodeRecords /\ Grows(t, recorded)
    BY <2>1, <2>4, RecordType, SmallStepsGrow
  <2> HIDE DEF recorded
  <2>6. said \in NodeRecords /\ Grows(recorded, said)
    BY <2>4, <2>5, BroadcastType, SmallStepsGrow DEF Messages
  <2> HIDE DEF said
  <2>7. checked \in NodeRecords /\ Grows(said, checked)
    BY <2>2, <2>6, CheckPrecommitType, CheckPrecommitGrows
  <2> HIDE DEF checked
  <2>8. final \in NodeRecords /\ Grows(checked, final)
    BY <2>4, <2>7, BroadcastType, SmallStepsGrow DEF Messages
  <2>9. Grows(t, final)
    BY <2>5, <2>6, <2>7, <2>8, GrowsOn
  <2> HIDE DEF final
  <2>10. ASSUME NEW r \in NodeRecords, Grows(t, r)
         PROVE  LET u == ScheduleStageTimeout(r, "precommit")
                IN  Grows(s, u) /\ (Live(u) => u.precommitSent)
    <3>1. "precommit" \in Stages
      BY DEF Stages
    <3> QED
      BY <1>2, <2>1, <2>10, <3>1, ScheduleGrows DEF Grows
  <2>11. Grows(t, t)
    BY <2>1, SmallStepsGrow
  <2> QED
    BY <1>2, <2>1, <2>8, <2>9, <2>10, <2>11
       DEF SendPrecommit, final, checked, said, recorded, conflict, m, vote, t
<1> QED
  BY <1>1, <1>2

LEMMA CheckPrevoteGrows ==
  ASSUME NEW s \in NodeRecords, NEW n \in Validators, NEW b \in Blocks \cup {Nil}
  PROVE  Grows(s, CheckPrevoteQuorum(n, s, b))
<1> DEFINE l == [s EXCEPT !.lockedBlock = b, !.lockedRound = s.currentRound,
                          !.lockedHeight = s.currentHeight,
                          !.validBlock = b, !.validRound = s.currentRound,
                          !.validHeight = s.currentHeight]
<1>1. l \in NodeRecords /\ Grows(s, l)
  BY ZenonT(30) DEF Grows, Live, NodeRecords
<1>2. Unlocked(s) \in NodeRecords /\ Grows(s, Unlocked(s))
  BY ZenonT(30) DEF Unlocked, Grows, Live, NodeRecords
<1> HIDE DEF l
<1>3. /\ Grows(l, SendPrecommit(n, l, b))
      /\ Grows(Unlocked(s), SendPrecommit(n, Unlocked(s), Nil))
      /\ Grows(s, SendPrecommit(n, s, Nil))
  BY <1>1, <1>2, SendPrecommitGrows
<1>4. Grows(s, s) /\ Grows(s, SendPrecommit(n, l, b))
      /\ Grows(s, SendPrecommit(n, Unlocked(s), Nil))
  BY <1>1, <1>2, <1>3, GrowsOn, SmallStepsGrow
<1> QED
  BY <1>3, <1>4 DEF CheckPrevoteQuorum, l

LEMMA SendPrevoteGrows ==
  ASSUME NEW s \in NodeRecords, NEW n \in Validators, NEW b \in Blocks \cup {Nil}
  PROVE  LET t == SendPrevote(n, s, b)
         IN  Grows(s, t) /\ (Live(t) => t.prevoteSent)
<1> DEFINE t        == [s EXCEPT !.prevoteSent = TRUE]
           vote     == IF "ForceNilPrevote" \in Behavior[n] THEN Nil ELSE b
           m        == Msg("Prevote", n, s, vote)
           recorded == RecordPrevote(n, t, m)
           said     == Broadcast(recorded, m)
           checked  == CheckPrevoteQuorum(n, said, vote)
           conflict == Msg("Prevote", n, s, ConflictingVote(n, s, vote))
           final    == IF "EquivocatePrevote" \in Behavior[n]
                       THEN Broadcast(checked, conflict) ELSE checked
<1>1. CASE s.prevoteSent \/ s.jailed
  BY <1>1, SmallStepsGrow DEF SendPrevote, Live
<1>2. CASE ~s.prevoteSent /\ ~s.jailed
  <2>1. /\ t \in NodeRecords /\ t.active = s.active /\ t.timers = s.timers
        /\ t.currentHeight = s.currentHeight /\ t.currentRound = s.currentRound
        /\ t.precommitSent = s.precommitSent /\ t.prevoteSent
        /\ Live(t) => Live(s)
    BY DEF NodeRecords, Live
  <2>2. vote \in Blocks \cup {Nil}
    OBVIOUS
  <2>3. ConflictingVote(n, s, vote) \in Blocks \cup {Nil}
    BY <2>2, BlockType
  <2> HIDE DEF vote, t
  <2>4. m \in VoteMessages /\ conflict \in VoteMessages
    BY <2>2, <2>3, MsgType
  <2> HIDE DEF m, conflict
  <2>5. recorded \in NodeRecords /\ Grows(t, recorded)
    BY <2>1, <2>4, RecordType, SmallStepsGrow
  <2> HIDE DEF recorded
  <2>6. said \in NodeRecords /\ Grows(recorded, said)
    BY <2>4, <2>5, BroadcastType, SmallStepsGrow DEF Messages
  <2> HIDE DEF said
  <2>7. checked \in NodeRecords /\ Grows(said, checked)
    BY <2>2, <2>6, CheckPrevoteType, CheckPrevoteGrows
  <2> HIDE DEF checked
  <2>8. final \in NodeRecords /\ Grows(checked, final)
    BY <2>4, <2>7, BroadcastType, SmallStepsGrow DEF Messages
  <2>9. Grows(t, final)
    BY <2>5, <2>6, <2>7, <2>8, GrowsOn
  <2> HIDE DEF final
  <2>10. ASSUME NEW r \in NodeRecords, Grows(t, r)
         PROVE  LET u == ScheduleStageTimeout(r, "prevote")
                IN  Grows(s, u) /\ (Live(u) => u.prevoteSent)
    <3>1. "prevote" \in Stages
      BY DEF Stages
    <3> QED
      BY <1>2, <2>1, <2>10, <3>1, ScheduleGrows DEF Grows
  <2>11. Grows(t, t)
    BY <2>1, SmallStepsGrow
  <2> QED
    BY <1>2, <2>1, <2>8, <2>9, <2>10, <2>11
       DEF SendPrevote, final, checked, said, recorded, conflict, m, vote, t
<1> QED
  BY <1>1, <1>2

LEMMA HandleProposalGrows ==
  ASSUME NEW s \in NodeRecords, NEW n \in Validators, NEW m \in VoteMessages
  PROVE  Grows(s, HandleProposal(n, s, m))
<1>1. m.block \in Blocks \cup {Nil}
  BY DEF VoteMessages
<1>2. Grows(s, SendPrevote(n, s, m.block)) /\ Grows(s, SendPrevote(n, s, Nil))
  BY <1>1, SendPrevoteGrows
<1> QED
  BY <1>2, SmallStepsGrow DEF HandleProposal

LEMMA HandleMessageGrows ==
  ASSUME NEW s \in NodeRecords, NEW n \in Validators, NEW m \in Messages
  PROVE  Grows(s, HandleMessage(n, s, m))
<1> DEFINE later == [s EXCEPT !.pendingMessages = Append(s.pendingMessages, m),
                              !.roundActive = FALSE]
<1>1. Grows(s, s) /\ Grows(s, later)
  BY DEF Grows, Live, NodeRecords
<1> HIDE DEF later
<1>2. CASE m \in VoteMessages
  <2>1. m.type \in {"Proposal", "Prevote", "Precommit", "Commit"}
        /\ m.block \in Blocks \cup {Nil}
    BY <1>2 DEF VoteMessages
  <2>2. Grows(s, HandleProposal(n, s, m))
    BY <1>2, HandleProposalGrows
  <2>3. Grows(s, HandlePrevote(n, s, m))
    BY <1>1, <1>2, <2>1, RecordType, SmallStepsGrow, CheckPrevoteGrows, GrowsOn
       DEF HandlePrevote
  <2>4. Grows(s, HandlePrecommit(n, s, m))
    BY <1>1, <1>2, <2>1, RecordType, SmallStepsGrow, CheckPrecommitGrows, GrowsOn
       DEF HandlePrecommit
  <2>5. Grows(s, HandleCommit(n, s, m))
    BY DEF HandleCommit, Grows, Live, NodeRecords
  <2> QED
    BY <1>1, <2>1, <2>2, <2>3, <2>4, <2>5 DEF HandleMessage, later
<1>3. CASE m \in EvidenceMessages
  <2>1. m.type = "Evidence" /\ m.offender \in Validators
    BY <1>3 DEF EvidenceMessages
  <2>2. Grows(s, HandleEvidence(n, s, m))
    BY <2>1, SmallStepsGrow DEF HandleEvidence
  <2> QED
    BY <1>1, <2>1, <2>2 DEF HandleMessage, later
<1> QED
  BY <1>2, <1>3 DEF Messages

\* What becomes of the record at the end of a handler.
Waits(s) == s.active => ~s.aborted /\ (Live(s) => Timed(s))

LEMMA HandleEventTimed ==
  ASSUME NEW s \in NodeRecords, NEW n \in Validators, NEW stage \in Stages,
         Live(s) => Timed(s)
  PROVE  LET t == HandleEvent(n, s, stage) IN Live(t) => Timed(t)
<1> DEFINE fired == [s EXCEPT !.timers = s.timers \ {stage}]
           over  == [fired EXCEPT !.roundActive = FALSE]
<1>1. /\ fired \in NodeRecords /\ fired.timers = s.timers \ {stage}
      /\ fired.prevoteSent = s.prevoteSent /\ fired.precommitSent = s.precommitSent
      /\ Live(fired) => Live(s)
  BY DEF NodeRecords, Live
<1>2. ~Live(over) /\ (fired.committed => ~Live(fired))
  BY <1>1 DEF NodeRecords, Live
<1> HIDE DEF fired, over
<1>3. CASE stage = "proposal"
  <2> DEFINE t == SendPrevote(n, fired, Nil)
  <2>1. Grows(fired, t) /\ (Live(t) => t.prevoteSent)
    BY <1>1, SendPrevoteGrows
  <2>2. HandleEvent(n, s, stage) = IF fired.committed \/ fired.prevoteSent THEN fired ELSE t
    BY <1>3 DEF HandleEvent, OnProposalTimeout, fired
  <2> HIDE DEF t
  <2>3. fired.prevoteSent /\ Live(fired) => Timed(fired)
    BY <1>1, <1>3 DEF Timed
  <2>4. ~fired.prevoteSent /\ Live(t) => Timed(t)
    BY <1>1, <1>3, <2>1 DEF Timed, Grows
  <2> QED
    BY <1>2, <2>2, <2>3, <2>4
<1>4. CASE stage = "prevote"
  <2> DEFINE t == SendPrecommit(n, fired, Nil)
  <2>1. Grows(fired, t) /\ (Live(t) => t.precommitSent)
    BY <1>1, SendPrecommitGrows
  <2>2. HandleEvent(n, s, stage) = IF fired.committed \/ fired.precommitSent THEN fired ELSE t
    BY <1>4 DEF HandleEvent, OnPrevoteTimeout, fired
  <2> HIDE DEF t
  <2>3. fired.precommitSent /\ Live(fired) => Timed(fired)
    BY <1>1, <1>4 DEF Timed
  <2>4. ~fired.precommitSent /\ Live(t) => Timed(t)
    BY <1>1, <1>4, <2>1 DEF Timed, Grows
  <2> QED
    BY <1>2, <2>2, <2>3, <2>4
<1>5. CASE stage = "precommit"
  <2>1. HandleEvent(n, s, stage) = IF fired.committed THEN fired ELSE over
    BY <1>5 DEF HandleEvent, OnPrecommitTimeout, fired, over
  <2> QED
    BY <1>2, <2>1
<1> QED
  BY <1>3, <1>4, <1>5 DEF Stages

LEMMA RunRoundTimed ==
  ASSUME NEW s \in NodeRecords, NEW n \in Validators, NEW r \in Nat
  PROVE  LET t == RunRound(n, s, r) IN Live(t) => Timed(t)
<1> DEFINE t == [s EXCEPT !.currentRound = r, !.roundActive = TRUE,
                          !.prevoteSent = FALSE, !.precommitSent = FALSE,
                          !.prevoteByVoter = NoVotes, !.precommitByVoter = NoVotes,
                          !.timers = {}]
           opened   == ScheduleStageTimeout(t, "proposal")
           proposal == Msg("Proposal", n, opened, SelectProposalBlock(opened))
           told     == Broadcast(opened, proposal)
<1>1. t \in NodeRecords /\ ~t.prevoteSent /\ ~t.precommitSent
  BY NoVotesType DEF NodeRecords
<1> HIDE DEF t
<1>2. /\ opened \in NodeRecords /\ ~opened.prevoteSent /\ ~opened.precommitSent
      /\ Live(opened) => "proposal" \in opened.timers
  BY <1>1, ScheduleType, ScheduleGrows DEF Stages
<1> HIDE DEF opened
<1>3. Live(opened) => Timed(opened)
  BY <1>2 DEF Timed
<1>4. proposal \in VoteMessages /\ proposal \in Messages
  BY <1>2, BlockType, MsgType DEF Messages
<1> HIDE DEF proposal
<1>5. told \in NodeRecords /\ Grows(opened, told)
  BY <1>2, <1>4, BroadcastType, SmallStepsGrow
<1> HIDE DEF told
<1>6. Grows(opened, HandleProposal(n, told, proposal))
  BY <1>4, <1>5, HandleProposalGrows, GrowsOn
<1>7. Live(HandleProposal(n, told, proposal)) => Timed(HandleProposal(n, told, proposal))
  BY <1>3, <1>6, GrowsTimed
<1> QED
  BY <1>3, <1>7 DEF RunRound, told, proposal, opened, t

LEMMA NextRoundTimed ==
  ASSUME NEW s \in NodeRecords, NEW n \in Validators
  PROVE  LET t == NextRound(n, s) IN Live(t) => Timed(t)
<1> DEFINE cap == IF EscalatesAfter(s.currentRound - StartRound + 1)
                  THEN EscalatedCap(s.timeoutMultiplierCap) ELSE s.timeoutMultiplierCap
<1>1. cap \in Nat
  BY DEF EscalatedCap, NodeRecords
<1> HIDE DEF cap
<1>2. [s EXCEPT !.timeoutMultiplierCap = cap] \in NodeRecords
  BY <1>1 DEF NodeRecords
<1>3. s.currentRound + 1 \in Nat
  BY DEF NodeRecords
<1>4. NextRound(n, s) = RunRound(n, [s EXCEPT !.timeoutMultiplierCap = cap], s.currentRound + 1)
  BY DEF NextRound, cap
<1> QED
  BY <1>2, <1>3, <1>4, RunRoundTimed

LEMMA StartConsensusTimed ==
  ASSUME NEW s \in NodeRecords, NEW n \in Validators, NEW h \in Nat
  PROVE  LET t == StartConsensus(n, s, h) IN t.active => (Live(t) => Timed(t))
<1>1. CASE s.jailed \/ n \in s.jailedPeers
  BY <1>1, StartSplits, BegunShape
<1>2. CASE ~(s.jailed \/ n \in s.jailedPeers)
  <2>1. Ready(n, s, h) \in NodeRecords /\ StartRound \in Nat
    BY ReadyShape, TimeoutAssumption
  <2> QED
    BY <1>2, <2>1, StartSplits, RunRoundTimed
<1> QED
  BY <1>1, <1>2

LEMMA DoneWaits ==
  ASSUME NEW s \in NodeRecords, s.active => (Live(s) => Timed(s))
  PROVE  Waits(Returned(Settled([s EXCEPT !.out = {}])))
<1> DEFINE said == [s EXCEPT !.out = {}]
           over == (IF said.prevoteSent THEN {"proposal"} ELSE {})
                     \cup (IF said.precommitSent THEN {"prevote"} ELSE {})
           left == [said EXCEPT !.timers = said.timers \ over]
           back == Returned(left)
<1>1. /\ said \in NodeRecords /\ said.active = s.active /\ said.timers = s.timers
      /\ said.prevoteSent = s.prevoteSent /\ said.precommitSent = s.precommitSent
      /\ Live(said) = Live(s)
  BY DEF NodeRecords, Live
<1> HIDE DEF said
<1>2. /\ left.active = s.active /\ left.timers = s.timers \ over
      /\ left.prevoteSent = s.prevoteSent /\ left.precommitSent = s.precommitSent
      /\ Live(left) = Live(s)
  BY <1>1 DEF NodeRecords, Live
<1>3. left \in NodeRecords
  BY <1>1, SettledType DEF Settled
<1>4. left.active /\ Live(left) => Timed(left)
  BY <1>1, <1>2 DEF Timed
<1> HIDE DEF left
<1>5. back.active => back = left /\ ~left.aborted
  BY <1>3 DEF Returned, NodeRecords
<1> QED
  BY <1>4, <1>5 DEF Waits, Settled, back, left, over, said

LEMMA FinishWaits ==
  ASSUME TypeOK, \A v \in Validators : Waits(node[v]),
         NEW n \in Validators, NEW s \in NodeRecords, NEW consumed,
         s.active => (Live(s) => Timed(s)), Finish(n, s, consumed)
  PROVE  \A v \in Validators : Waits(node'[v])
<1> DEFINE done == Returned(Settled([s EXCEPT !.out = {}]))
<1>1. Waits(done)
  BY DoneWaits
<1>2. node' = [node EXCEPT ![n] = done]
  BY DEF Finish
<1> HIDE DEF done
<1> QED
  BY <1>1, <1>2 DEF TypeOK

LEMMA WaitsNext ==
  ASSUME TypeOK, \A v \in Validators : Waits(node[v]), [Next]_vars
  PROVE  \A v \in Validators : Waits(node'[v])
<1>1. ASSUME NEW n \in Validators PROVE node[n] \in NodeRecords /\ inbox[n] \subseteq Messages
  BY DEF TypeOK
<1>2. ASSUME NEW n \in Validators, Looping(node[n])
      PROVE  Live(node[n]) => Timed(node[n])
  BY <1>2 DEF Looping, Waits
<1>3. ASSUME NEW n \in Validators, Start(n) PROVE \A v \in Validators : Waits(node'[v])
  <2> DEFINE t == StartConsensus(n, node[n], height)
  <2>1. t \in NodeRecords /\ (t.active => (Live(t) => Timed(t)))
    BY <1>1, StartConsensusType, StartConsensusTimed DEF TypeOK
  <2>2. Finish(n, t, {})
    BY <1>3 DEF Start
  <2> QED
    BY <2>1, <2>2, FinishWaits
<1>4. ASSUME NEW n \in Validators, StartNextRound(n) PROVE \A v \in Validators : Waits(node'[v])
  <2> DEFINE t == NextRound(n, node[n])
  <2>1. t \in NodeRecords /\ (Live(t) => Timed(t))
    BY <1>1, NextRoundType, NextRoundTimed
  <2>2. Finish(n, t, {})
    BY <1>4 DEF StartNextRound
  <2> QED
    BY <2>1, <2>2, FinishWaits
<1>5. ASSUME NEW n \in Validators, HandlePending(n) PROVE \A v \in Validators : Waits(node'[v])
  <2> DEFINE q == node[n].pendingMessages
             s == [node[n] EXCEPT !.pendingMessages = Tail(q)]
             t == HandleMessage(n, s, Head(q))
  <2>1. Head(q) \in Messages /\ Tail(q) \in Seq(Messages)
    <3>1. q \in Seq(Messages) /\ q # <<>>
      BY <1>1, <1>5 DEF HandlePending, NodeRecords
    <3> QED
      BY <3>1
  <2>2. Live(node[n]) => Timed(node[n])
    BY <1>2, <1>5 DEF HandlePending
  <2>3. s \in NodeRecords /\ (Live(s) => Timed(s))
    <3>1. s \in NodeRecords
      BY <1>1, <2>1, PendingType
    <3>2. Grows(node[n], s)
      BY <1>1 DEF Grows, Live, NodeRecords
    <3> QED
      BY <2>2, <3>1, <3>2, GrowsTimed
  <2> HIDE DEF s
  <2>4. t \in NodeRecords /\ (Live(t) => Timed(t))
    BY <2>1, <2>3, HandleMessageType, HandleMessageGrows, GrowsTimed
  <2>5. Finish(n, t, {})
    BY <1>5 DEF HandlePending, s
  <2> HIDE DEF t
  <2> QED
    BY <2>4, <2>5, FinishWaits
<1>6. ASSUME NEW n \in Validators, Receive(n) PROVE \A v \in Validators : Waits(node'[v])
  <2>1. PICK m \in inbox[n] : Finish(n, HandleMessage(n, node[n], m), {m})
    BY <1>6 DEF Receive
  <2> DEFINE t == HandleMessage(n, node[n], m)
  <2>2. Live(node[n]) => Timed(node[n])
    BY <1>2, <1>6 DEF Receive
  <2>3. m \in Messages
    BY <1>1
  <2>4. t \in NodeRecords /\ (Live(t) => Timed(t))
    BY <1>1, <2>2, <2>3, HandleMessageType, HandleMessageGrows, GrowsTimed
  <2>5. Finish(n, t, {m})
    BY <2>1
  <2> HIDE DEF t
  <2> QED
    BY <2>4, <2>5, FinishWaits
<1>7. ASSUME NEW n \in Validators, NEW stage \in Stages, Timeout(n, stage)
      PROVE  \A v \in Validators : Waits(node'[v])
  <2> DEFINE t == HandleEvent(n, node[n], stage)
  <2>1. Live(node[n]) => Timed(node[n])
    BY <1>2, <1>7 DEF Timeout
  <2>2. t \in NodeRecords /\ (Live(t) => Timed(t))
    BY <1>1, <2>1, HandleEventType, HandleEventTimed
  <2>3. Finish(n, t, {})
    BY <1>7 DEF Timeout
  <2> HIDE DEF t
  <2> QED
    BY <2>2, <2>3, FinishWaits
<1>8. CASE NextHeight \/ UNCHANGED vars \/ \E n \in Validators : Lose(n)
  BY <1>8 DEF NextHeight, vars, Lose
<1> QED
  BY <1>3, <1>4, <1>5, <1>6, <1>7, <1>8 DEF Next, Proceed

\* Whatever is lost or late, a validator that is not jailed never waits in the
\* message loop for a stage whose timer is not running (scheduleStageTimeout in
\* runRound, sendPrevote and sendPrecommit).
THEOREM NobodyStranded == Spec => []NeverStranded
<1> DEFINE Inv == TypeOK /\ \A v \in Validators : Waits(node[v])
<1>1. Init => Inv
  BY InitType DEF Init, NewNode, Waits
<1>2. Inv /\ [Next]_vars => Inv'
  BY NextType, WaitsNext
<1>3. Inv => NeverStranded
  <2> SUFFICES ASSUME Inv, NEW v \in Validators, Looping(node[v]), ~node[v].jailed
               PROVE  Timed(node[v])
    BY DEF NeverStranded, Timed
  <2> QED
    BY DEF Looping, Waits, Live
<1> QED
  BY <1>1, <1>2, <1>3, PTL DEF Spec
-----------------------------------------------------------------------------
(***************************************************************************)
(* A vote is counted only where it was cast, honest validators vote once a *)
(* round, and evidence names double-signers only.  The three hold because  *)
(* of each other: a voter is jailed on two different votes of one round,   *)
(* which must both have been cast.                                         *)
(*                                                                         *)
(* The invariant is stated for a node record s of n in the middle of a     *)
(* handler, when the messages K are known to have been sent: those sent    *)
(* before the handler began and those in s.out.                            *)
(***************************************************************************)

Votes == {"Prevote", "Precommit"}

OneVote(K) ==
  \A type \in Votes : \A a, b \in {m \in K : m.type = type} :
    a.from = b.from /\ a.from \notin Equivocators /\ a.height = b.height /\ a.round = b.round
    => a = b

TrueEvidence(K) == \A m \in K : m.type = "Evidence" => m.offender \in Equivocators

\* The votes n cast are of earlier rounds, or of this one and remembered.
NotAhead(n, s, K) ==
  \A m \in K : m.from = n /\ m.type \in Votes =>
    \/ Past(s, m)
    \/ /\ Current(s, m)
       /\ m.type = "Prevote" => s.prevoteSent
       /\ m.type = "Precommit" => s.precommitSent

VoteIn(K, type, v, s, block) ==
  \E m \in K : m.type = type /\ m.from = v /\ Current(s, m) /\ m.block = block

Counted(s, K) ==
  \A v \in Validators :
    /\ s.prevoteByVoter[v] # NoVote => VoteIn(K, "Prevote", v, s, s.prevoteByVoter[v])
    /\ s.precommitByVoter[v] # NoVote => VoteIn(K, "Precommit", v, s, s.precommitByVoter[v])

Holds(n, s, K) ==
  /\ OneVote(K)
  /\ TrueEvidence(K)
  /\ NotAhead(n, s, K)
  /\ Counted(s, K)
  /\ s.jailedPeers \subseteq Equivocators
  /\ s.jailed => n \in s.jailedPeers
  /\ s.pendingMessages \in Seq(K)

Sound(n, s, S) ==
  /\ s \in NodeRecords
  /\ S \subseteq Messages
  /\ \A m \in s.out : m.from = n
  /\ Holds(n, s, S \cup s.out)

VotesInv ==
  /\ TypeOK
  /\ \A n \in Validators : Sound(n, node[n], sent) /\ inbox[n] \subseteq sent
-----------------------------------------------------------------------------
\* Records that agree on what the invariant is about.
Alike(s, t) ==
  /\ t.currentHeight = s.currentHeight /\ t.currentRound = s.currentRound
  /\ t.prevoteByVoter = s.prevoteByVoter /\ t.precommitByVoter = s.precommitByVoter
  /\ t.prevoteSent = s.prevoteSent /\ t.precommitSent = s.precommitSent
  /\ t.jailedPeers = s.jailedPeers /\ t.pendingMessages = s.pendingMessages
  /\ t.jailed = s.jailed
  /\ t.out = s.out

LEMMA AlikeSound ==
  ASSUME NEW n \in Validators, NEW S, NEW s, Sound(n, s, S),
         NEW t \in NodeRecords, Alike(s, t)
  PROVE  Sound(n, t, S)
<1> DEFINE K == S \cup s.out
<1>1. Holds(n, s, K) /\ S \cup t.out = K
  BY DEF Sound, Alike
<1> HIDE DEF K
<1>2. NotAhead(n, t, K)
  BY <1>1 DEF Holds, NotAhead, Past, Current, Alike
<1>3. Counted(t, K)
  BY <1>1 DEF Holds, Counted, VoteIn, Current, Alike
<1>4. Holds(n, t, K)
  BY <1>1, <1>2, <1>3 DEF Holds, Alike
<1> QED
  BY <1>1, <1>4 DEF Sound, Alike

\* Saying what was already counted among the known messages.
LEMMA SaidSound ==
  ASSUME NEW n \in Validators, NEW S, S \subseteq Messages,
         NEW m \in Messages, m.from = n,
         NEW s, Sound(n, s, S \cup {m})
  PROVE  Sound(n, Broadcast(s, m), S)
<1> DEFINE t == Broadcast(s, m)
<1>1. s \in NodeRecords /\ t \in NodeRecords
  BY BroadcastType DEF Sound
<1>2. t.out = s.out \cup {m}
  BY <1>1 DEF Broadcast, NodeRecords
<1>3. /\ t.currentHeight = s.currentHeight /\ t.currentRound = s.currentRound
      /\ t.prevoteByVoter = s.prevoteByVoter /\ t.precommitByVoter = s.precommitByVoter
      /\ t.prevoteSent = s.prevoteSent /\ t.precommitSent = s.precommitSent
      /\ t.jailedPeers = s.jailedPeers /\ t.pendingMessages = s.pendingMessages
      /\ t.jailed = s.jailed
  BY <1>1 DEF Broadcast, NodeRecords
<1> HIDE DEF t
<1> DEFINE K == S \cup {m} \cup s.out
<1>4. Holds(n, s, K) /\ S \cup t.out = K
  BY <1>2 DEF Sound
<1> HIDE DEF K
<1>5. NotAhead(n, t, K) /\ Counted(t, K)
  BY <1>3, <1>4 DEF Holds, NotAhead, Past, Current, Counted, VoteIn
<1>6. Holds(n, t, K)
  BY <1>3, <1>4, <1>5 DEF Holds
<1> QED
  BY <1>1, <1>2, <1>4, <1>6 DEF Sound, t

\* A message becomes known that is consistent with those that were.
LEMMA KnownSound ==
  ASSUME NEW n \in Validators, NEW S, NEW s, Sound(n, s, S), NEW m \in Messages,
         OneVote(S \cup {m} \cup s.out), TrueEvidence(S \cup {m} \cup s.out),
         NotAhead(n, s, S \cup {m} \cup s.out)
  PROVE  Sound(n, s, S \cup {m})
<1> DEFINE K == S \cup s.out
           L == S \cup {m} \cup s.out
<1>1. K \subseteq L /\ Holds(n, s, K)
  BY DEF Sound
<1>2. OneVote(L) /\ TrueEvidence(L) /\ NotAhead(n, s, L)
  OBVIOUS
<1> HIDE DEF K, L
<1>3. Counted(s, L)
  BY <1>1 DEF Holds, Counted, VoteIn
<1>4. s.pendingMessages \in Seq(L)
  BY <1>1 DEF Holds
<1>5. Holds(n, s, L)
  BY <1>1, <1>2, <1>3, <1>4 DEF Holds
<1> QED
  BY <1>5 DEF Sound, L

\* Proposals and commits.
LEMMA SaySound ==
  ASSUME NEW n \in Validators, NEW S, NEW s, Sound(n, s, S),
         NEW m \in Messages, m.from = n, m.type \in {"Proposal", "Commit"}
  PROVE  Sound(n, Broadcast(s, m), S)
<1> DEFINE L == S \cup {m} \cup s.out
<1>1. L = S \cup s.out \cup {m} /\ Holds(n, s, S \cup s.out)
  BY DEF Sound
<1>2. OneVote(L) /\ TrueEvidence(L) /\ NotAhead(n, s, L)
  BY <1>1 DEF Holds, OneVote, TrueEvidence, NotAhead, Votes
<1>3. Sound(n, s, S \cup {m})
  BY <1>2, KnownSound
<1> QED
  BY <1>3, SaidSound DEF Sound

\* The first vote of its type in the round.
LEMMA FirstVoteSound ==
  ASSUME NEW n \in Validators, NEW S, NEW s, Sound(n, s, S), NEW t \in NodeRecords,
         NEW m \in Messages, m.from = n, m.type \in Votes, Current(s, m),
         \/ m.type = "Prevote" /\ ~s.prevoteSent /\ t = [s EXCEPT !.prevoteSent = TRUE]
         \/ m.type = "Precommit" /\ ~s.precommitSent /\ t = [s EXCEPT !.precommitSent = TRUE]
  PROVE  Sound(n, t, S \cup {m}) /\ Current(t, m)
<1> DEFINE K == S \cup s.out
           L == S \cup {m} \cup s.out
<1>1. L = K \cup {m} /\ Holds(n, s, K) /\ s \in NodeRecords
  BY DEF Sound
<1>2. /\ t.currentHeight = s.currentHeight /\ t.currentRound = s.currentRound
      /\ t.prevoteByVoter = s.prevoteByVoter /\ t.precommitByVoter = s.precommitByVoter
      /\ s.prevoteSent => t.prevoteSent
      /\ s.precommitSent => t.precommitSent
      /\ m.type = "Prevote" => t.prevoteSent
      /\ m.type = "Precommit" => t.precommitSent
      /\ t.jailedPeers = s.jailedPeers /\ t.pendingMessages = s.pendingMessages
      /\ t.jailed = s.jailed
      /\ t.out = s.out
  BY <1>1, SMTT(20) DEF NodeRecords
<1>3. \A a \in K : a.type = m.type /\ a.from = n => Past(s, a)
  BY <1>1 DEF Holds, NotAhead, Votes
<1>4. \A a \in K : Past(s, a) => ~(a.height = m.height /\ a.round = m.round)
  BY <1>1, SMTT(20) DEF Past, Current, NodeRecords
<1> HIDE DEF K, L
<1>5. OneVote(L)
  BY <1>1, <1>3, <1>4 DEF Holds, OneVote
<1>6. TrueEvidence(L)
  BY <1>1 DEF Holds, TrueEvidence, Votes
<1>7. NotAhead(n, t, K) /\ Counted(t, K)
  BY <1>1, <1>2 DEF Holds, NotAhead, Past, Current, Counted, VoteIn
<1>8. NotAhead(n, t, L)
  BY <1>1, <1>2, <1>7 DEF NotAhead, Current
<1>9. Sound(n, t, S)
  BY <1>1, <1>2, <1>7 DEF Sound, Holds, K
<1>10. Sound(n, t, S \cup {m})
  BY <1>2, <1>5, <1>6, <1>8, <1>9, KnownSound DEF L
<1> QED
  BY <1>2, <1>10 DEF Current

\* A double-signer votes again.
LEMMA SecondVoteSound ==
  ASSUME NEW n \in Equivocators, NEW S, NEW s, Sound(n, s, S),
         NEW m \in Messages, m.from = n, m.type \in Votes, Current(s, m),
         m.type = "Prevote" => s.prevoteSent, m.type = "Precommit" => s.precommitSent
  PROVE  Sound(n, Broadcast(s, m), S)
<1> DEFINE L == S \cup {m} \cup s.out
<1>1. L = S \cup s.out \cup {m} /\ Holds(n, s, S \cup s.out) /\ n \in Validators
  BY DEF Sound, Equivocators
<1>2. OneVote(L) /\ TrueEvidence(L) /\ NotAhead(n, s, L)
  BY <1>1 DEF Holds, OneVote, TrueEvidence, NotAhead, Votes
<1>3. Sound(n, s, S \cup {m})
  BY <1>1, <1>2, KnownSound
<1> QED
  BY <1>1, <1>3, SaidSound DEF Sound

LEMMA JailSound ==
  ASSUME NEW n \in Validators, NEW S, NEW s, Sound(n, s, S), NEW v \in Equivocators
  PROVE  Sound(n, Jail(n, s, v), S)
<1> DEFINE t == Jail(n, s, v)
           K == S \cup s.out
<1>1. s \in NodeRecords /\ v \in Validators /\ Holds(n, s, K)
  BY DEF Sound, Equivocators
<1>2. t \in NodeRecords
  BY <1>1, JailType
<1>3. /\ t.currentHeight = s.currentHeight /\ t.currentRound = s.currentRound
      /\ t.prevoteByVoter = s.prevoteByVoter /\ t.precommitByVoter = s.precommitByVoter
      /\ t.prevoteSent = s.prevoteSent /\ t.precommitSent = s.precommitSent
      /\ t.pendingMessages = s.pendingMessages /\ t.out = s.out
      /\ t.jailedPeers = s.jailedPeers \cup {v}
  BY <1>1 DEF Jail, NodeRecords
<1>4. t.jailed => n \in t.jailedPeers
  <2>1. t.jailed => s.jailed \/ v = n
    BY <1>1 DEF Jail, NodeRecords
  <2> QED
    BY <1>1, <1>3, <2>1 DEF Holds
<1> HIDE DEF t, K
<1>5. NotAhead(n, t, K) /\ Counted(t, K)
  BY <1>1, <1>3 DEF Holds, NotAhead, Past, Current, Counted, VoteIn
<1>6. Holds(n, t, K)
  BY <1>1, <1>3, <1>4, <1>5 DEF Holds
<1> QED
  BY <1>2, <1>3, <1>6 DEF Sound, t, K

LEMMA ReportSound ==
  ASSUME NEW n \in Validators, NEW S, NEW s, Sound(n, s, S), NEW v \in Equivocators
  PROVE  Sound(n, ReportEvidence(n, s, v), S)
<1> DEFINE e == [type |-> "Evidence", from |-> n, height |-> s.currentHeight,
                 round |-> s.currentRound, offender |-> v]
           L == S \cup {e} \cup s.out
<1>1. s \in NodeRecords /\ v \in Validators /\ L = S \cup s.out \cup {e}
      /\ Holds(n, s, S \cup s.out) /\ S \subseteq Messages
  BY DEF Sound, Equivocators
<1>2. e \in Messages
  BY <1>1 DEF Messages, EvidenceMessages, NodeRecords
<1>3. e.from = n /\ e.type = "Evidence" /\ e.offender = v
  OBVIOUS
<1> HIDE DEF e
<1>4. OneVote(L) /\ TrueEvidence(L) /\ NotAhead(n, s, L)
  BY <1>1, <1>3 DEF Holds, OneVote, TrueEvidence, NotAhead, Votes
<1>5. Sound(n, s, S \cup {e})
  BY <1>2, <1>4, KnownSound
<1>6. Sound(n, Broadcast(s, e), S)
  BY <1>1, <1>2, <1>3, <1>5, SaidSound
<1> QED
  BY <1>6, JailSound DEF ReportEvidence, e

\* A known vote of the current round is recorded, or is evidence.
LEMMA RecordPrevoteSound ==
  ASSUME NEW n \in Validators, NEW S, NEW s, Sound(n, s, S),
         NEW m \in VoteMessages, m \in S \cup s.out, m.type = "Prevote", Current(s, m)
  PROVE  Sound(n, RecordPrevote(n, s, m), S)
<1> DEFINE t == [s EXCEPT !.prevoteByVoter[m.from] = m.block]
           K == S \cup s.out
<1>1. s \in NodeRecords /\ m.from \in Validators /\ m.block \in Blocks \cup {Nil}
      /\ Holds(n, s, K) /\ m \in K
  BY DEF Sound, VoteMessages
<1>2. Sound(n, t, S)
  <2>1. t \in NodeRecords
    BY <1>1 DEF NodeRecords
  <2>2. /\ t.currentHeight = s.currentHeight /\ t.currentRound = s.currentRound
        /\ t.prevoteByVoter = [s.prevoteByVoter EXCEPT ![m.from] = m.block]
        /\ t.precommitByVoter = s.precommitByVoter
        /\ t.prevoteSent = s.prevoteSent /\ t.precommitSent = s.precommitSent
        /\ t.pendingMessages = s.pendingMessages /\ t.out = s.out
        /\ t.jailedPeers = s.jailedPeers
        /\ t.jailed = s.jailed
    BY <1>1 DEF NodeRecords
  <2>3. s.prevoteByVoter \in [Validators -> Blocks \cup {Nil, NoVote}]
    BY <1>1 DEF NodeRecords
  <2> HIDE DEF t, K
  <2>4. NotAhead(n, t, K)
    BY <1>1, <2>2 DEF Holds, NotAhead, Past, Current
  <2>5. VoteIn(K, "Prevote", m.from, t, m.block)
    BY <1>1, <2>2 DEF VoteIn, Current
  <2>6. Counted(t, K)
    <3> SUFFICES ASSUME NEW v \in Validators
                 PROVE  /\ t.prevoteByVoter[v] # NoVote =>
                             VoteIn(K, "Prevote", v, t, t.prevoteByVoter[v])
                        /\ t.precommitByVoter[v] # NoVote =>
                             VoteIn(K, "Precommit", v, t, t.precommitByVoter[v])
      BY DEF Counted
    <3>1. \A type, b : VoteIn(K, type, v, s, b) <=> VoteIn(K, type, v, t, b)
      BY <2>2 DEF VoteIn, Current
    <3>2. v # m.from => t.prevoteByVoter[v] = s.prevoteByVoter[v]
      BY <2>2, <2>3
    <3>3. v = m.from => t.prevoteByVoter[v] = m.block
      BY <2>2, <2>3
    <3> QED
      BY <1>1, <2>2, <2>5, <3>1, <3>2, <3>3 DEF Holds, Counted
  <2>7. Holds(n, t, K)
    BY <1>1, <2>2, <2>4, <2>6 DEF Holds
  <2> QED
    BY <2>1, <2>2, <2>7 DEF Sound, K
<1>3. ASSUME Conflicting(s, s.prevoteByVoter, m) PROVE m.from \in Equivocators
  <2>1. s.prevoteByVoter[m.from] # NoVote /\ s.prevoteByVoter[m.from] # m.block
    BY <1>3 DEF Conflicting
  <2>2. PICK a \in K : a.type = "Prevote" /\ a.from = m.from /\ Current(s, a)
                       /\ a.block = s.prevoteByVoter[m.from]
    BY <1>1, <2>1 DEF Holds, Counted, VoteIn
  <2>3. a # m /\ a.height = m.height /\ a.round = m.round
    BY <2>1, <2>2 DEF Current
  <2> QED
    BY <1>1, <2>2, <2>3 DEF Holds, OneVote, Votes
<1> QED
  BY <1>2, <1>3, ReportSound DEF RecordPrevote

LEMMA RecordPrecommitSound ==
  ASSUME NEW n \in Validators, NEW S, NEW s, Sound(n, s, S),
         NEW m \in VoteMessages, m \in S \cup s.out, m.type = "Precommit", Current(s, m)
  PROVE  Sound(n, RecordPrecommit(n, s, m), S)
<1> DEFINE t == [s EXCEPT !.precommitByVoter[m.from] = m.block]
           K == S \cup s.out
<1>1. s \in NodeRecords /\ m.from \in Validators /\ m.block \in Blocks \cup {Nil}
      /\ Holds(n, s, K) /\ m \in K
  BY DEF Sound, VoteMessages
<1>2. Sound(n, t, S)
  <2>1. t \in NodeRecords
    BY <1>1 DEF NodeRecords
  <2>2. /\ t.currentHeight = s.currentHeight /\ t.currentRound = s.currentRound
        /\ t.precommitByVoter = [s.precommitByVoter EXCEPT ![m.from] = m.block]
        /\ t.prevoteByVoter = s.prevoteByVoter
        /\ t.prevoteSent = s.prevoteSent /\ t.precommitSent = s.precommitSent
        /\ t.pendingMessages = s.pendingMessages /\ t.out = s.out
        /\ t.jailedPeers = s.jailedPeers
        /\ t.jailed = s.jailed
    BY <1>1 DEF NodeRecords
  <2>3. s.precommitByVoter \in [Validators -> Blocks \cup {Nil, NoVote}]
    BY <1>1 DEF NodeRecords
  <2> HIDE DEF t, K
  <2>4. NotAhead(n, t, K)
    BY <1>1, <2>2 DEF Holds, NotAhead, Past, Current
  <2>5. VoteIn(K, "Precommit", m.from, t, m.block)
    BY <1>1, <2>2 DEF VoteIn, Current
  <2>6. Counted(t, K)
    <3> SUFFICES ASSUME NEW v \in Validators
                 PROVE  /\ t.prevoteByVoter[v] # NoVote =>
                             VoteIn(K, "Prevote", v, t, t.prevoteByVoter[v])
                        /\ t.precommitByVoter[v] # NoVote =>
                             VoteIn(K, "Precommit", v, t, t.precommitByVoter[v])
      BY DEF Counted
    <3>1. \A type, b : VoteIn(K, type, v, s, b) <=> VoteIn(K, type, v, t, b)
      BY <2>2 DEF VoteIn, Current
    <3>2. v # m.from => t.precommitByVoter[v] = s.precommitByVoter[v]
      BY <2>2, <2>3
    <3>3. v = m.from => t.precommitByVoter[v] = m.block
      BY <2>2, <2>3
    <3> QED
      BY <1>1, <2>2, <2>5, <3>1, <3>2, <3>3 DEF Holds, Counted
  <2>7. Holds(n, t, K)
    BY <1>1, <2>2, <2>4, <2>6 DEF Holds
  <2> QED
    BY <2>1, <2>2, <2>7 DEF Sound, K
<1>3. ASSUME Conflicting(s, s.precommitByVoter, m) PROVE m.from \in Equivocators
  <2>1. s.precommitByVoter[m.from] # NoVote /\ s.precommitByVoter[m.from] # m.block
    BY <1>3 DEF Conflicting
  <2>2. PICK a \in K : a.type = "Precommit" /\ a.from = m.from /\ Current(s, a)
                       /\ a.block = s.precommitByVoter[m.from]
    BY <1>1, <2>1 DEF Holds, Counted, VoteIn
  <2>3. a # m /\ a.height = m.height /\ a.round = m.round
    BY <2>1, <2>2 DEF Current
  <2> QED
    BY <1>1, <2>2, <2>3 DEF Holds, OneVote, Votes
<1> QED
  BY <1>2, <1>3, ReportSound DEF RecordPrecommit
-----------------------------------------------------------------------------
\* What handlers of a round leave alone: the round, and the votes cast in it.
Frame(s, t) ==
  /\ t.currentHeight = s.currentHeight /\ t.currentRound = s.currentRound
  /\ s.prevoteSent => t.prevoteSent
  /\ s.precommitSent => t.precommitSent

Keeps(n, s, t, S) == Sound(n, t, S) /\ Frame(s, t)

LEMMA FrameSteps ==
  ASSUME NEW n \in Validators, NEW s \in NodeRecords
  PROVE  /\ \A m : Frame(s, Broadcast(s, m))
         /\ \A v : Frame(s, Jail(n, s, v))
         /\ \A m \in VoteMessages : Frame(s, RecordPrevote(n, s, m))
         /\ \A m \in VoteMessages : Frame(s, RecordPrecommit(n, s, m))
<1>1. ASSUME NEW r \in NodeRecords PROVE /\ \A m : Frame(r, Broadcast(r, m))
                                       /\ \A v : Frame(r, Jail(n, r, v))
  BY DEF Frame, Broadcast, Jail, NodeRecords
<1>2. ASSUME NEW v \in Validators PROVE Frame(s, ReportEvidence(n, s, v))
  <2> DEFINE e == [type |-> "Evidence", from |-> n, height |-> s.currentHeight,
                   round |-> s.currentRound, offender |-> v]
  <2>1. e \in Messages
    BY DEF Messages, EvidenceMessages, NodeRecords
  <2> HIDE DEF e
  <2>2. Broadcast(s, e) \in NodeRecords
    BY <2>1, BroadcastType
  <2>3. Frame(s, Broadcast(s, e)) /\ Frame(Broadcast(s, e), Jail(n, Broadcast(s, e), v))
    BY <1>1, <2>2
  <2> QED
    BY <2>3 DEF Frame, ReportEvidence, e
<1>3. ASSUME NEW m \in VoteMessages
      PROVE  Frame(s, RecordPrevote(n, s, m)) /\ Frame(s, RecordPrecommit(n, s, m))
  <2>1. m.from \in Validators
    BY DEF VoteMessages
  <2>2. /\ Frame(s, s)
        /\ Frame(s, [s EXCEPT !.prevoteByVoter[m.from] = m.block])
        /\ Frame(s, [s EXCEPT !.precommitByVoter[m.from] = m.block])
    BY DEF Frame, NodeRecords
  <2> QED
    BY <1>2, <2>1, <2>2 DEF RecordPrevote, RecordPrecommit
<1> QED
  BY <1>1, <1>3

LEMMA ScheduleKeeps ==
  ASSUME NEW n \in Validators, NEW S, NEW s, Sound(n, s, S), NEW stage \in Stages
  PROVE  Keeps(n, s, ScheduleStageTimeout(s, stage), S)
<1>1. s \in NodeRecords
  BY DEF Sound
<1>2. ScheduleStageTimeout(s, stage) \in NodeRecords
  BY <1>1, ScheduleType
<1>3. Alike(s, ScheduleStageTimeout(s, stage))
  BY <1>1 DEF ScheduleStageTimeout, Alike, NodeRecords
<1> QED
  BY <1>2, <1>3, AlikeSound DEF Keeps, Frame, Alike

LEMMA CheckPrecommitKeeps ==
  ASSUME NEW n \in Validators, NEW S, NEW s, Sound(n, s, S), NEW b \in Blocks \cup {Nil}
  PROVE  Keeps(n, s, CheckPrecommitQuorum(n, s, b), S)
<1> DEFINE c == [s EXCEPT !.committed = TRUE, !.roundActive = FALSE, !.committedBlock = b]
           d == [s EXCEPT !.roundActive = FALSE]
           m == Msg("Commit", n, s, b)
<1>1. s \in NodeRecords
  BY DEF Sound
<1>2. c \in NodeRecords /\ d \in NodeRecords /\ Alike(s, c) /\ Alike(s, d) /\ Alike(s, s)
  BY <1>1, ZenonT(30) DEF Alike, NodeRecords
<1>3. m \in Messages /\ m.from = n /\ m.type = "Commit"
  BY <1>1, MsgType DEF Messages, Msg
<1> HIDE DEF c, d, m
<1>4. Keeps(n, s, s, S) /\ Keeps(n, s, c, S) /\ Keeps(n, s, d, S)
  BY <1>1, <1>2, AlikeSound DEF Keeps, Frame, Alike
<1>5. Keeps(n, s, Broadcast(c, m), S)
  BY <1>2, <1>3, <1>4, SaySound, FrameSteps DEF Keeps, Frame
<1> QED
  BY <1>4, <1>5 DEF CheckPrecommitQuorum, c, d, m

\* Withholding a vote: it counts as sent.
LEMMA WeakenSound ==
  ASSUME NEW n \in Validators, NEW S, NEW s, Sound(n, s, S)
  PROVE  /\ Sound(n, [s EXCEPT !.prevoteSent = TRUE], S)
         /\ Sound(n, [s EXCEPT !.precommitSent = TRUE], S)
<1>1. ASSUME NEW t \in NodeRecords,
             t = [s EXCEPT !.prevoteSent = TRUE] \/ t = [s EXCEPT !.precommitSent = TRUE]
      PROVE  Sound(n, t, S)
  <2> DEFINE K == S \cup s.out
  <2>1. s \in NodeRecords /\ Holds(n, s, K)
    BY DEF Sound
  <2>2. /\ t.currentHeight = s.currentHeight /\ t.currentRound = s.currentRound
        /\ t.prevoteByVoter = s.prevoteByVoter /\ t.precommitByVoter = s.precommitByVoter
        /\ s.prevoteSent => t.prevoteSent
        /\ s.precommitSent => t.precommitSent
        /\ t.jailedPeers = s.jailedPeers /\ t.pendingMessages = s.pendingMessages
        /\ t.jailed = s.jailed
        /\ t.out = s.out
    BY <1>1, <2>1 DEF NodeRecords
  <2> HIDE DEF K
  <2>3. NotAhead(n, t, K) /\ Counted(t, K)
    BY <2>1, <2>2 DEF Holds, NotAhead, Past, Current, Counted, VoteIn
  <2>4. Holds(n, t, K)
    BY <2>1, <2>2, <2>3 DEF Holds
  <2> QED
    BY <2>2, <2>4 DEF Sound, K
<1>2. /\ [s EXCEPT !.prevoteSent = TRUE] \in NodeRecords
      /\ [s EXCEPT !.precommitSent = TRUE] \in NodeRecords
  BY DEF Sound, NodeRecords
<1> QED
  BY <1>1, <1>2

LEMMA CastPrecommitSound ==
  ASSUME NEW n \in Validators, NEW S, NEW s, Sound(n, s, S), ~s.precommitSent,
         NEW vote \in Blocks \cup {Nil}
  PROVE  LET m    == Msg("Precommit", n, s, vote)
             said == Broadcast(RecordPrecommit(n, [s EXCEPT !.precommitSent = TRUE], m), m)
         IN  Sound(n, said, S) /\ Frame(s, said) /\ said.precommitSent
<1> DEFINE t        == [s EXCEPT !.precommitSent = TRUE]
           m        == Msg("Precommit", n, s, vote)
           recorded == RecordPrecommit(n, t, m)
           said     == Broadcast(recorded, m)
<1>1. s \in NodeRecords /\ S \subseteq Messages
  BY DEF Sound
<1>2. t \in NodeRecords /\ Frame(s, t) /\ t.precommitSent
  BY <1>1 DEF NodeRecords, Frame
<1>3. /\ m \in VoteMessages /\ m \in Messages
      /\ m.from = n /\ m.type = "Precommit" /\ Current(s, m)
  BY <1>1, MsgType DEF Messages, Msg, Current
<1> HIDE DEF m
<1>4. Sound(n, t, S \cup {m}) /\ Current(t, m)
  BY <1>2, <1>3, FirstVoteSound DEF Votes
<1> HIDE DEF t
<1>5. Sound(n, recorded, S \cup {m}) /\ Frame(t, recorded)
  BY <1>2, <1>3, <1>4, RecordPrecommitSound, FrameSteps
<1> HIDE DEF recorded
<1>6. Sound(n, said, S) /\ Frame(recorded, said)
  <2>1. recorded \in NodeRecords
    BY <1>5 DEF Sound
  <2> QED
    BY <1>1, <1>3, <1>5, <2>1, SaidSound, FrameSteps
<1>7. Frame(s, said) /\ said.precommitSent
  BY <1>2, <1>5, <1>6 DEF Frame
<1> QED
  BY <1>6, <1>7 DEF said, recorded, m, t

LEMMA SendPrecommitKeeps ==
  ASSUME NEW n \in Validators, NEW S, NEW s, Sound(n, s, S), NEW b \in Blocks \cup {Nil}
  PROVE  Keeps(n, s, SendPrecommit(n, s, b), S)
<1> DEFINE t        == [s EXCEPT !.precommitSent = TRUE]
           vote     == IF "ForceNilPrecommit" \in Behavior[n] THEN Nil ELSE b
           m        == Msg("Precommit", n, s, vote)
           recorded == RecordPrecommit(n, t, m)
           said     == Broadcast(recorded, m)
           checked  == CheckPrecommitQuorum(n, said, vote)
           conflict == Msg("Precommit", n, s, ConflictingVote(n, s, vote))
           final    == IF "EquivocatePrecommit" \in Behavior[n]
                       THEN Broadcast(checked, conflict) ELSE checked
<1>1. s \in NodeRecords /\ S \subseteq Messages /\ Keeps(n, s, s, S)
  BY DEF Sound, Keeps, Frame
<1>2. t \in NodeRecords /\ Frame(s, t) /\ t.precommitSent
  BY <1>1 DEF NodeRecords, Frame
<1>3. CASE s.precommitSent \/ s.jailed
  BY <1>1, <1>3 DEF SendPrecommit
<1>4. CASE ~s.precommitSent /\ ~s.jailed
  <2>1. vote \in Blocks \cup {Nil} /\ ConflictingVote(n, s, vote) \in Blocks \cup {Nil}
    <3>1. vote \in Blocks \cup {Nil}
      OBVIOUS
    <3> QED
      BY <1>1, <3>1, BlockType
  <2> HIDE DEF vote
  <2>2. /\ conflict \in Messages
        /\ conflict.from = n /\ conflict.type = "Precommit" /\ Current(s, conflict)
    BY <1>1, <2>1, MsgType DEF Messages, Msg, Current
  <2> HIDE DEF conflict
  <2>3. Sound(n, said, S) /\ Frame(s, said) /\ said.precommitSent
    BY <1>4, <2>1, CastPrecommitSound DEF m
  <2> HIDE DEF m
  <2>4. Sound(n, t, S)
    <3>1. Sound(n, [s EXCEPT !.precommitSent = TRUE], S)
      BY <1>1, WeakenSound
    <3> QED
      BY <3>1
  <2> HIDE DEF t, recorded, said
  <2>5. Sound(n, checked, S) /\ Frame(said, checked)
    BY <2>1, <2>3, CheckPrecommitKeeps DEF Keeps
  <2> HIDE DEF checked
  <2>6. Frame(s, checked) /\ checked.precommitSent /\ Current(checked, conflict)
    BY <2>2, <2>3, <2>5 DEF Frame, Current
  <2>7. Keeps(n, s, final, S)
    <3>1. CASE "EquivocatePrecommit" \in Behavior[n]
      <4>1. n \in Equivocators
        BY <3>1 DEF Equivocators
      <4>2. Sound(n, Broadcast(checked, conflict), S)
        BY <2>2, <2>5, <2>6, <4>1, SecondVoteSound DEF Votes
      <4>3. Frame(checked, Broadcast(checked, conflict))
        BY <2>5, FrameSteps DEF Sound
      <4> QED
        BY <2>6, <3>1, <4>2, <4>3 DEF Keeps, Frame
    <3>2. CASE "EquivocatePrecommit" \notin Behavior[n]
      BY <2>5, <2>6, <3>2 DEF Keeps
    <3> QED
      BY <3>1, <3>2
  <2> HIDE DEF final
  <2>8. /\ Keeps(n, final, ScheduleStageTimeout(final, "precommit"), S)
         /\ Keeps(n, t, ScheduleStageTimeout(t, "precommit"), S)
    BY <2>4, <2>7, ScheduleKeeps DEF Keeps, Stages
  <2>9. /\ Keeps(n, s, ScheduleStageTimeout(final, "precommit"), S)
         /\ Keeps(n, s, ScheduleStageTimeout(t, "precommit"), S)
    BY <1>2, <2>7, <2>8 DEF Keeps, Frame
  <2> QED
    BY <1>4, <2>9 DEF SendPrecommit, final, checked, said, recorded, conflict, m, vote, t
<1> QED
  BY <1>3, <1>4

LEMMA CheckPrevoteKeeps ==
  ASSUME NEW n \in Validators, NEW S, NEW s, Sound(n, s, S), NEW b \in Blocks \cup {Nil}
  PROVE  Keeps(n, s, CheckPrevoteQuorum(n, s, b), S)
<1> DEFINE l == [s EXCEPT !.lockedBlock = b, !.lockedRound = s.currentRound,
                          !.lockedHeight = s.currentHeight,
                          !.validBlock = b, !.validRound = s.currentRound,
                          !.validHeight = s.currentHeight]
           u == Unlocked(s)
<1>1. s \in NodeRecords /\ Alike(s, s)
  BY DEF Sound, Alike
<1>2. l \in NodeRecords /\ Alike(s, l) /\ u \in NodeRecords /\ Alike(s, u)
  BY <1>1 DEF Unlocked, Alike, NodeRecords
<1> HIDE DEF l, u
<1>3. /\ Keeps(n, l, SendPrecommit(n, l, b), S)
      /\ Keeps(n, u, SendPrecommit(n, u, Nil), S)
      /\ Keeps(n, s, SendPrecommit(n, s, Nil), S)
  BY <1>1, <1>2, AlikeSound, SendPrecommitKeeps
<1>4. /\ Keeps(n, s, SendPrecommit(n, l, b), S)
      /\ Keeps(n, s, SendPrecommit(n, u, Nil), S)
      /\ Keeps(n, s, s, S)
  BY <1>2, <1>3 DEF Keeps, Frame, Alike
<1> QED
  BY <1>3, <1>4 DEF CheckPrevoteQuorum, l, u

LEMMA CastPrevoteSound ==
  ASSUME NEW n \in Validators, NEW S, NEW s, Sound(n, s, S), ~s.prevoteSent,
         NEW vote \in Blocks \cup {Nil}
  PROVE  LET m    == Msg("Prevote", n, s, vote)
             said == Broadcast(RecordPrevote(n, [s EXCEPT !.prevoteSent = TRUE], m), m)
         IN  Sound(n, said, S) /\ Frame(s, said) /\ said.prevoteSent
<1> DEFINE t        == [s EXCEPT !.prevoteSent = TRUE]
           m        == Msg("Prevote", n, s, vote)
           recorded == RecordPrevote(n, t, m)
           said     == Broadcast(recorded, m)
<1>1. s \in NodeRecords /\ S \subseteq Messages
  BY DEF Sound
<1>2. t \in NodeRecords /\ Frame(s, t) /\ t.prevoteSent
  BY <1>1 DEF NodeRecords, Frame
<1>3. /\ m \in VoteMessages /\ m \in Messages
      /\ m.from = n /\ m.type = "Prevote" /\ Current(s, m)
  BY <1>1, MsgType DEF Messages, Msg, Current
<1> HIDE DEF m
<1>4. Sound(n, t, S \cup {m}) /\ Current(t, m)
  BY <1>2, <1>3, FirstVoteSound DEF Votes
<1> HIDE DEF t
<1>5. Sound(n, recorded, S \cup {m}) /\ Frame(t, recorded)
  BY <1>2, <1>3, <1>4, RecordPrevoteSound, FrameSteps
<1> HIDE DEF recorded
<1>6. Sound(n, said, S) /\ Frame(recorded, said)
  <2>1. recorded \in NodeRecords
    BY <1>5 DEF Sound
  <2> QED
    BY <1>1, <1>3, <1>5, <2>1, SaidSound, FrameSteps
<1>7. Frame(s, said) /\ said.prevoteSent
  BY <1>2, <1>5, <1>6 DEF Frame
<1> QED
  BY <1>6, <1>7 DEF said, recorded, m, t

LEMMA SendPrevoteKeeps ==
  ASSUME NEW n \in Validators, NEW S, NEW s, Sound(n, s, S), NEW b \in Blocks \cup {Nil}
  PROVE  Keeps(n, s, SendPrevote(n, s, b), S)
<1> DEFINE t        == [s EXCEPT !.prevoteSent = TRUE]
           vote     == IF "ForceNilPrevote" \in Behavior[n] THEN Nil ELSE b
           m        == Msg("Prevote", n, s, vote)
           recorded == RecordPrevote(n, t, m)
           said     == Broadcast(recorded, m)
           checked  == CheckPrevoteQuorum(n, said, vote)
           conflict == Msg("Prevote", n, s, ConflictingVote(n, s, vote))
           final    == IF "EquivocatePrevote" \in Behavior[n]
                       THEN Broadcast(checked, conflict) ELSE checked
<1>1. s \in NodeRecords /\ S \subseteq Messages /\ Keeps(n, s, s, S)
  BY DEF Sound, Keeps, Frame
<1>2. t \in NodeRecords /\ Frame(s, t) /\ t.prevoteSent
  BY <1>1 DEF NodeRecords, Frame
<1>3. CASE s.prevoteSent \/ s.jailed
  BY <1>1, <1>3 DEF SendPrevote
<1>4. CASE ~s.prevoteSent /\ ~s.jailed
  <2>1. vote \in Blocks \cup {Nil} /\ ConflictingVote(n, s, vote) \in Blocks \cup {Nil}
    <3>1. vote \in Blocks \cup {Nil}
      OBVIOUS
    <3> QED
      BY <1>1, <3>1, BlockType
  <2> HIDE DEF vote
  <2>2. /\ conflict \in Messages
        /\ conflict.from = n /\ conflict.type = "Prevote" /\ Current(s, conflict)
    BY <1>1, <2>1, MsgType DEF Messages, Msg, Current
  <2> HIDE DEF conflict
  <2>3. Sound(n, said, S) /\ Frame(s, said) /\ said.prevoteSent
    BY <1>4, <2>1, CastPrevoteSound DEF m
  <2> HIDE DEF m
  <2>4. Sound(n, t, S)
    <3>1. Sound(n, [s EXCEPT !.prevoteSent = TRUE], S)
      BY <1>1, WeakenSound
    <3> QED
      BY <3>1
  <2> HIDE DEF t, recorded, said
  <2>5. Sound(n, checked, S) /\ Frame(said, checked)
    BY <2>1, <2>3, CheckPrevoteKeeps DEF Keeps
  <2> HIDE DEF checked
  <2>6. Frame(s, checked) /\ checked.prevoteSent /\ Current(checked, conflict)
    BY <2>2, <2>3, <2>5 DEF Frame, Current
  <2>7. Keeps(n, s, final, S)
    <3>1. CASE "EquivocatePrevote" \in Behavior[n]
      <4>1. n \in Equivocators
        BY <3>1 DEF Equivocators
      <4>2. Sound(n, Broadcast(checked, conflict), S)
        BY <2>2, <2>5, <2>6, <4>1, SecondVoteSound DEF Votes
      <4>3. Frame(checked, Broadcast(checked, conflict))
        BY <2>5, FrameSteps DEF Sound
      <4> QED
        BY <2>6, <3>1, <4>2, <4>3 DEF Keeps, Frame
    <3>2. CASE "EquivocatePrevote" \notin Behavior[n]
      BY <2>5, <2>6, <3>2 DEF Keeps
    <3> QED
      BY <3>1, <3>2
  <2> HIDE DEF final
  <2>8. /\ Keeps(n, final, ScheduleStageTimeout(final, "prevote"), S)
         /\ Keeps(n, t, ScheduleStageTimeout(t, "prevote"), S)
    BY <2>4, <2>7, ScheduleKeeps DEF Keeps, Stages
  <2>9. /\ Keeps(n, s, ScheduleStageTimeout(final, "prevote"), S)
         /\ Keeps(n, s, ScheduleStageTimeout(t, "prevote"), S)
    BY <1>2, <2>7, <2>8 DEF Keeps, Frame
  <2> QED
    BY <1>4, <2>9 DEF SendPrevote, final, checked, said, recorded, conflict, m, vote, t
<1> QED
  BY <1>3, <1>4
-----------------------------------------------------------------------------
LEMMA HandleProposalSound ==
  ASSUME NEW n \in Validators, NEW S, NEW s, Sound(n, s, S), NEW m \in VoteMessages
  PROVE  Sound(n, HandleProposal(n, s, m), S)
<1>1. m.block \in Blocks \cup {Nil}
  BY DEF VoteMessages
<1>2. Sound(n, SendPrevote(n, s, m.block), S) /\ Sound(n, SendPrevote(n, s, Nil), S)
  BY <1>1, SendPrevoteKeeps DEF Keeps
<1> QED
  BY <1>2 DEF HandleProposal

LEMMA HandleVoteSound ==
  ASSUME NEW n \in Validators, NEW S, NEW s, Sound(n, s, S),
         NEW m \in VoteMessages, m \in S \cup s.out
  PROVE  /\ m.type = "Prevote" => Sound(n, HandlePrevote(n, s, m), S)
         /\ m.type = "Precommit" => Sound(n, HandlePrecommit(n, s, m), S)
         /\ Sound(n, HandleCommit(n, s, m), S)
<1>1. m.block \in Blocks \cup {Nil} /\ s \in NodeRecords
  BY DEF VoteMessages, Sound
<1>2. m.type = "Prevote" /\ Current(s, m) => Sound(n, RecordPrevote(n, s, m), S)
  BY RecordPrevoteSound
<1>3. m.type = "Precommit" /\ Current(s, m) => Sound(n, RecordPrecommit(n, s, m), S)
  BY RecordPrecommitSound
<1>4. m.type = "Prevote" => Sound(n, HandlePrevote(n, s, m), S)
  BY <1>1, <1>2, CheckPrevoteKeeps DEF HandlePrevote, Keeps
<1>5. m.type = "Precommit" => Sound(n, HandlePrecommit(n, s, m), S)
  BY <1>1, <1>3, CheckPrecommitKeeps DEF HandlePrecommit, Keeps
<1>6. HandleCommit(n, s, m) \in NodeRecords /\ Alike(s, HandleCommit(n, s, m))
  BY <1>1 DEF HandleCommit, Alike, NodeRecords
<1> QED
  BY <1>4, <1>5, <1>6, AlikeSound

LEMMA PendingSound ==
  ASSUME NEW n \in Validators, NEW S, NEW s, Sound(n, s, S),
         NEW q \in Seq(Messages), q \in Seq(S \cup s.out)
  PROVE  Sound(n, [s EXCEPT !.pendingMessages = q], S)
<1> DEFINE t == [s EXCEPT !.pendingMessages = q]
           K == S \cup s.out
<1>1. s \in NodeRecords /\ Holds(n, s, K) /\ q \in Seq(K)
  BY DEF Sound
<1>2. t \in NodeRecords
  BY <1>1, PendingType
<1>3. /\ t.currentHeight = s.currentHeight /\ t.currentRound = s.currentRound
      /\ t.prevoteByVoter = s.prevoteByVoter /\ t.precommitByVoter = s.precommitByVoter
      /\ t.prevoteSent = s.prevoteSent /\ t.precommitSent = s.precommitSent
      /\ t.jailedPeers = s.jailedPeers /\ t.pendingMessages = q /\ t.out = s.out
      /\ t.jailed = s.jailed
  BY <1>1 DEF NodeRecords
<1> HIDE DEF t, K
<1>4. NotAhead(n, t, K) /\ Counted(t, K)
  BY <1>1, <1>3 DEF Holds, NotAhead, Past, Current, Counted, VoteIn
<1>5. Holds(n, t, K)
  BY <1>1, <1>3, <1>4 DEF Holds
<1> QED
  BY <1>2, <1>3, <1>5 DEF Sound, t, K

LEMMA PostponeSound ==
  ASSUME NEW n \in Validators, NEW S, NEW s, Sound(n, s, S),
         NEW m \in Messages, m \in S \cup s.out
  PROVE  Sound(n, [s EXCEPT !.pendingMessages = Append(s.pendingMessages, m),
                            !.roundActive = FALSE], S)
<1> DEFINE q == Append(s.pendingMessages, m)
           r == [s EXCEPT !.roundActive = FALSE]
<1>1. s \in NodeRecords /\ Holds(n, s, S \cup s.out)
  BY DEF Sound
<1>2. q \in Seq(Messages) /\ q \in Seq(S \cup s.out)
  <2>1. s.pendingMessages \in Seq(Messages) /\ s.pendingMessages \in Seq(S \cup s.out)
    BY <1>1 DEF Holds, NodeRecords
  <2> QED
    BY <2>1
<1>3. r \in NodeRecords /\ Alike(s, r)
  BY <1>1 DEF Alike, NodeRecords
<1> HIDE DEF q
<1>4. Sound(n, r, S)
  BY <1>3, AlikeSound
<1>5. Sound(n, [r EXCEPT !.pendingMessages = q], S)
  BY <1>2, <1>3, <1>4, PendingSound DEF Alike
<1> QED
  BY <1>1, <1>5 DEF q, NodeRecords

LEMMA HandleMessageSound ==
  ASSUME NEW n \in Validators, NEW S, NEW s, Sound(n, s, S),
         NEW m \in Messages, m \in S \cup s.out
  PROVE  Sound(n, HandleMessage(n, s, m), S)
<1>1. Sound(n, [s EXCEPT !.pendingMessages = Append(s.pendingMessages, m),
                         !.roundActive = FALSE], S)
  BY PostponeSound
<1>2. CASE m \in VoteMessages
  <2>1. m.type \in {"Proposal", "Prevote", "Precommit", "Commit"}
    BY <1>2 DEF VoteMessages
  <2>2. Sound(n, HandleProposal(n, s, m), S)
    BY <1>2, HandleProposalSound
  <2>3. /\ m.type = "Prevote" => Sound(n, HandlePrevote(n, s, m), S)
        /\ m.type = "Precommit" => Sound(n, HandlePrecommit(n, s, m), S)
        /\ Sound(n, HandleCommit(n, s, m), S)
    BY <1>2, HandleVoteSound
  <2> QED
    BY <1>1, <2>1, <2>2, <2>3 DEF HandleMessage
<1>3. CASE m \in EvidenceMessages
  <2>1. m.type = "Evidence"
    BY <1>3 DEF EvidenceMessages
  <2>2. m.offender \in Equivocators
    BY <2>1 DEF Sound, Holds, TrueEvidence
  <2>3. Sound(n, HandleEvidence(n, s, m), S)
    BY <2>2, JailSound DEF HandleEvidence
  <2> QED
    BY <1>1, <2>1, <2>3 DEF HandleMessage
<1> QED
  BY <1>2, <1>3 DEF Messages

LEMMA HandleEventSound ==
  ASSUME NEW n \in Validators, NEW S, NEW s, Sound(n, s, S), NEW stage \in Stages
  PROVE  Sound(n, HandleEvent(n, s, stage), S)
<1> DEFINE fired == [s EXCEPT !.timers = s.timers \ {stage}]
           over  == [fired EXCEPT !.roundActive = FALSE]
<1>1. s \in NodeRecords
  BY DEF Sound
<1>2. fired \in NodeRecords /\ Alike(s, fired)
  BY <1>1 DEF Alike, NodeRecords
<1>3. over \in NodeRecords /\ Alike(s, over)
  BY <1>1 DEF Alike, NodeRecords
<1>4. Sound(n, fired, S) /\ Sound(n, over, S)
  BY <1>2, <1>3, AlikeSound
<1> HIDE DEF fired
<1>5. \/ OnProposalTimeout(n, fired) = fired
      \/ OnProposalTimeout(n, fired) = SendPrevote(n, fired, Nil)
  BY DEF OnProposalTimeout
<1>6. \/ OnPrevoteTimeout(n, fired) = fired
      \/ OnPrevoteTimeout(n, fired) = SendPrecommit(n, fired, Nil)
  BY DEF OnPrevoteTimeout
<1>7. OnPrecommitTimeout(n, fired) = fired \/ OnPrecommitTimeout(n, fired) = over
  BY DEF OnPrecommitTimeout
<1> HIDE DEF over
<1>8. Sound(n, SendPrevote(n, fired, Nil), S) /\ Sound(n, SendPrecommit(n, fired, Nil), S)
  BY <1>4, SendPrevoteKeeps, SendPrecommitKeeps DEF Keeps
<1> QED
  BY <1>4, <1>5, <1>6, <1>7, <1>8 DEF HandleEvent, Stages, fired
-----------------------------------------------------------------------------
\* n may open round r: it has not voted there yet.
MayOpen(n, s, r, S) ==
  /\ s \in NodeRecords
  /\ S \subseteq Messages
  /\ \A m \in s.out : m.from = n
  /\ OneVote(S \cup s.out)
  /\ TrueEvidence(S \cup s.out)
  /\ \A m \in S \cup s.out : m.from = n /\ m.type \in Votes =>
       m.height < s.currentHeight \/ (m.height = s.currentHeight /\ m.round < r)
  /\ s.jailedPeers \subseteq Equivocators
  /\ s.jailed => n \in s.jailedPeers
  /\ s.pendingMessages \in Seq(S \cup s.out)

\* Round r, opened, before its first timer is started.
Opened(s, r) ==
  [s EXCEPT !.currentRound = r, !.roundActive = TRUE,
            !.prevoteSent = FALSE, !.precommitSent = FALSE,
            !.prevoteByVoter = NoVotes, !.precommitByVoter = NoVotes, !.timers = {}]

LEMMA OpenedShape ==
  ASSUME NEW s \in NodeRecords, NEW r \in Nat
  PROVE  LET t == Opened(s, r)
         IN  /\ t \in NodeRecords /\ t.active = s.active
             /\ t.currentHeight = s.currentHeight /\ t.currentRound = r
             /\ t.roundActive /\ t.timers = {} /\ ~t.prevoteSent /\ ~t.precommitSent
             /\ t.prevoteByVoter = NoVotes /\ t.precommitByVoter = NoVotes
             /\ t.lockedBlock = s.lockedBlock /\ t.lockedRound = s.lockedRound
             /\ t.lockedHeight = s.lockedHeight /\ t.validBlock = s.validBlock
             /\ t.validRound = s.validRound /\ t.validHeight = s.validHeight
             /\ t.committed = s.committed /\ t.committedBlock = s.committedBlock
             /\ t.aborted = s.aborted /\ t.out = s.out
             /\ t.jailedPeers = s.jailedPeers /\ t.pendingMessages = s.pendingMessages
             /\ t.jailed = s.jailed
<1> DEFINE t == Opened(s, r)
<1>1. /\ t \in NodeRecords
      /\ t.roundActive /\ t.timers = {} /\ ~t.prevoteSent /\ ~t.precommitSent
      /\ t.prevoteByVoter = NoVotes /\ t.precommitByVoter = NoVotes
      /\ t.currentRound = r
  BY NoVotesType, ZenonT(30) DEF Opened, NodeRecords
<1>2. /\ t.active = s.active /\ t.currentHeight = s.currentHeight
      /\ t.lockedBlock = s.lockedBlock /\ t.lockedRound = s.lockedRound
      /\ t.lockedHeight = s.lockedHeight /\ t.validBlock = s.validBlock
      /\ t.validRound = s.validRound /\ t.validHeight = s.validHeight
      /\ t.committed = s.committed /\ t.committedBlock = s.committedBlock
      /\ t.aborted = s.aborted /\ t.out = s.out
      /\ t.jailedPeers = s.jailedPeers /\ t.pendingMessages = s.pendingMessages
      /\ t.jailed = s.jailed
  BY DEF Opened, NodeRecords
<1> QED
  BY <1>1, <1>2

LEMMA OpenedSound ==
  ASSUME NEW n \in Validators, NEW S, NEW r \in Nat, NEW s, MayOpen(n, s, r, S)
  PROVE  Sound(n, Opened(s, r), S)
<1> DEFINE t == Opened(s, r)
           K == S \cup s.out
<1>1. /\ t \in NodeRecords /\ t.currentHeight = s.currentHeight /\ t.currentRound = r
      /\ t.prevoteByVoter = NoVotes /\ t.precommitByVoter = NoVotes
      /\ t.jailedPeers = s.jailedPeers /\ t.pendingMessages = s.pendingMessages
      /\ t.jailed = s.jailed
      /\ t.out = s.out
  BY OpenedShape DEF MayOpen
<1> HIDE DEF t
<1>2. NotAhead(n, t, K)
  BY <1>1 DEF MayOpen, NotAhead, Past
<1>3. Counted(t, K)
  BY <1>1 DEF Counted, NoVotes
<1> QED
  BY <1>1, <1>2, <1>3 DEF MayOpen, Sound, Holds, t

LEMMA RunRoundSound ==
  ASSUME NEW n \in Validators, NEW S, NEW r \in Nat, NEW s, MayOpen(n, s, r, S)
  PROVE  Sound(n, RunRound(n, s, r), S)
<1> DEFINE opened   == ScheduleStageTimeout(Opened(s, r), "proposal")
           proposal == Msg("Proposal", n, opened, SelectProposalBlock(opened))
<1>1. Sound(n, opened, S)
  BY OpenedSound, ScheduleKeeps DEF Keeps, Stages
<1> HIDE DEF opened
<1>2. opened \in NodeRecords
  BY <1>1 DEF Sound
<1>3. /\ proposal \in VoteMessages /\ proposal \in Messages
      /\ proposal.from = n /\ proposal.type = "Proposal"
  BY <1>2, BlockType, MsgType DEF Messages, Msg
<1> HIDE DEF proposal
<1>4. Sound(n, Broadcast(opened, proposal), S)
  BY <1>1, <1>3, SaySound
<1>5. Sound(n, HandleProposal(n, Broadcast(opened, proposal), proposal), S)
  BY <1>3, <1>4, HandleProposalSound
<1> QED
  BY <1>1, <1>5 DEF RunRound, Opened, proposal, opened

\* The record that the next round is opened from: only the timeouts are longer.
Escalated(s) ==
  [s EXCEPT !.timeoutMultiplierCap =
     IF EscalatesAfter(s.currentRound - StartRound + 1) THEN EscalatedCap(@) ELSE @]

LEMMA NextSplits ==
  \A n, s : NextRound(n, s) = RunRound(n, Escalated(s), s.currentRound + 1)
  BY DEF NextRound, Escalated

LEMMA EscalatedSound ==
  ASSUME NEW n \in Validators, NEW S, NEW s, Sound(n, s, S)
  PROVE  /\ MayOpen(n, Escalated(s), s.currentRound + 1, S)
         /\ Sound(n, Escalated(s), S)
         /\ s.currentRound \in Nat
<1> DEFINE cap == IF EscalatesAfter(s.currentRound - StartRound + 1)
                  THEN EscalatedCap(s.timeoutMultiplierCap) ELSE s.timeoutMultiplierCap
           t == [s EXCEPT !.timeoutMultiplierCap = cap]
<1>1. s \in NodeRecords /\ s.currentRound \in Nat /\ s.currentHeight \in Nat
  BY DEF Sound, NodeRecords
<1>2. cap \in Nat
  BY <1>1 DEF EscalatedCap, NodeRecords
<1> HIDE DEF cap
<1>3. t \in NodeRecords /\ Alike(s, t)
  BY <1>1, <1>2 DEF Alike, NodeRecords
<1>4. Sound(n, t, S) /\ t.currentRound = s.currentRound
  BY <1>3, AlikeSound DEF Alike
<1> HIDE DEF t
<1>5. t.currentHeight \in Nat /\ t.currentRound \in Nat
  BY <1>3 DEF NodeRecords
<1>6. \A m \in Messages : m.height \in Nat /\ m.round \in Nat
  BY DEF Messages, VoteMessages, EvidenceMessages
<1>7. S \cup t.out \subseteq Messages
  BY <1>3, <1>4 DEF Sound, NodeRecords
<1>8. \A m \in S \cup t.out : m.from = n /\ m.type \in Votes =>
        \/ m.height < t.currentHeight
        \/ m.height = t.currentHeight /\ m.round < t.currentRound + 1
  <2>1. \A m \in S \cup t.out : m.from = n /\ m.type \in Votes => Past(t, m) \/ Current(t, m)
    BY <1>4 DEF Sound, Holds, NotAhead
  <2> QED
    BY <1>5, <1>6, <1>7, <2>1 DEF Past, Current
<1>9. MayOpen(n, t, s.currentRound + 1, S)
  BY <1>4, <1>8 DEF MayOpen, Sound, Holds
<1> QED
  BY <1>1, <1>4, <1>9 DEF Escalated, t, cap

LEMMA NextRoundSound ==
  ASSUME NEW n \in Validators, NEW S, NEW s, Sound(n, s, S)
  PROVE  Sound(n, NextRound(n, s), S)
  BY EscalatedSound, NextSplits, RunRoundSound

\* The record a handler ends with.  StartConsensus of a jailed validator leaves
\* the votes of another height, which nobody counts.
Ended(n, s, S) ==
  /\ s \in NodeRecords
  /\ S \subseteq Messages
  /\ \A m \in s.out : m.from = n
  /\ OneVote(S \cup s.out)
  /\ TrueEvidence(S \cup s.out)
  /\ NotAhead(n, s, S \cup s.out)
  /\ s.active => Counted(s, S \cup s.out)
  /\ s.jailedPeers \subseteq Equivocators
  /\ s.jailed => n \in s.jailedPeers
  /\ s.pendingMessages \in Seq(S \cup s.out)

\* The votes of n are of earlier heights, so that it may open the first round.
LEMMA ReadySound ==
  ASSUME NEW n \in Validators, NEW S, NEW s, Sound(n, s, S),
         NEW h \in Nat, s.currentHeight < h
  PROVE  /\ MayOpen(n, Ready(n, s, h), StartRound, S)
         /\ \A m \in S \cup s.out : m.from = n /\ m.type \in Votes => m.height < h
<1> DEFINE K == S \cup s.out
           t == Ready(n, s, h)
<1>1. s \in NodeRecords /\ S \subseteq Messages /\ Holds(n, s, K)
  BY DEF Sound
<1>2. K \subseteq Messages /\ \A m \in Messages : m.height \in Nat /\ m.round \in Nat
  BY <1>1 DEF NodeRecords, Messages, VoteMessages, EvidenceMessages
<1>3. \A m \in K : m.from = n /\ m.type \in Votes => m.height < h
  <2>1. \A m \in K : m.from = n /\ m.type \in Votes => Past(s, m) \/ Current(s, m)
    BY <1>1 DEF Holds, NotAhead
  <2>2. s.currentHeight \in Nat
    BY <1>1 DEF NodeRecords
  <2> QED
    BY <1>2, <2>1, <2>2 DEF Past, Current
<1>4. /\ t \in NodeRecords /\ t.currentHeight = h /\ t.out = s.out
      /\ t.jailedPeers = s.jailedPeers /\ t.pendingMessages = <<>>
      /\ t.jailed => s.jailed \/ n \in s.jailedPeers
  BY <1>1, ReadyShape
<1>5. <<>> \in Seq(K)
  OBVIOUS
<1> HIDE DEF t
<1>6. MayOpen(n, t, StartRound, S)
  BY <1>1, <1>3, <1>4, <1>5 DEF MayOpen, Holds, Sound
<1> QED
  BY <1>3, <1>6 DEF t

LEMMA StartSound ==
  ASSUME NEW n \in Validators, NEW S, NEW s, Sound(n, s, S),
         NEW h \in Nat, s.currentHeight < h
  PROVE  Ended(n, StartConsensus(n, s, h), S)
<1> DEFINE K == S \cup s.out
           t == Begun(n, s, h)
<1>1. CASE s.jailed \/ n \in s.jailedPeers
  <2>1. s \in NodeRecords /\ S \subseteq Messages /\ Holds(n, s, K)
    BY DEF Sound
  <2>2. /\ t \in NodeRecords /\ ~t.active /\ t.currentHeight = h /\ t.out = s.out
        /\ t.jailedPeers = s.jailedPeers /\ t.pendingMessages = s.pendingMessages
        /\ t.jailed => s.jailed \/ n \in s.jailedPeers
    BY <1>1, <2>1, BegunShape
  <2> HIDE DEF t
  <2>3. NotAhead(n, t, K)
    BY <2>2, ReadySound DEF NotAhead, Past
  <2>4. Ended(n, t, S)
    BY <2>1, <2>2, <2>3 DEF Ended, Holds, Sound
  <2> QED
    BY <1>1, <2>4, StartSplits DEF t
<1>2. CASE ~(s.jailed \/ n \in s.jailedPeers)
  <2>1. Sound(n, RunRound(n, Ready(n, s, h), StartRound), S)
    BY ReadySound, RunRoundSound, TimeoutAssumption
  <2> QED
    BY <1>2, <2>1, StartSplits DEF Sound, Holds, Ended
<1> QED
  BY <1>1, <1>2

\* Its broadcasts sent, timers that are over dropped, and the call ended.
LEMMA DoneSound ==
  ASSUME NEW n \in Validators, NEW S, NEW s, Ended(n, s, S)
  PROVE  Sound(n, Returned(Settled([s EXCEPT !.out = {}])), S \cup s.out)
<1> DEFINE said    == [s EXCEPT !.out = {}]
           settled == Settled(said)
           K       == S \cup s.out
           back    == [settled EXCEPT !.active = FALSE, !.timers = {},
                          !.pendingMessages = <<>>,
                          !.prevoteByVoter = NoVotes, !.precommitByVoter = NoVotes]
           Like(t) == /\ t.currentHeight = s.currentHeight /\ t.currentRound = s.currentRound
                      /\ t.prevoteSent = s.prevoteSent /\ t.precommitSent = s.precommitSent
                      /\ t.jailedPeers = s.jailedPeers /\ t.out = {}
                      /\ t.jailed = s.jailed
<1>1. s \in NodeRecords /\ K \subseteq Messages
  BY DEF Ended, NodeRecords
<1>2. said \in NodeRecords /\ Like(said) /\ said.active = s.active
      /\ said.prevoteByVoter = s.prevoteByVoter /\ said.precommitByVoter = s.precommitByVoter
      /\ said.pendingMessages = s.pendingMessages
  BY <1>1 DEF NodeRecords
<1> HIDE DEF said
<1>3. settled \in NodeRecords
  BY <1>2, SettledType
<1>4. Like(settled) /\ settled.active = s.active
      /\ settled.prevoteByVoter = s.prevoteByVoter
      /\ settled.precommitByVoter = s.precommitByVoter
      /\ settled.pendingMessages = s.pendingMessages
  BY <1>2 DEF Settled, NodeRecords
<1> HIDE DEF settled
<1>5. Like(back) /\ back.prevoteByVoter = NoVotes /\ back.precommitByVoter = NoVotes
      /\ back.pendingMessages = <<>>
  BY <1>3, <1>4 DEF NodeRecords
<1>6. back \in NodeRecords
  <2>1. <<>> \in Seq(Messages)
    OBVIOUS
  <2> QED
    BY <1>3, <2>1, NoVotesType DEF NodeRecords
<1> HIDE DEF back
<1>7. ASSUME NEW t, Like(t) PROVE NotAhead(n, t, K)
  BY <1>7 DEF Ended, NotAhead, Past, Current
<1>8. K \cup {} = K
  OBVIOUS
<1>9. ASSUME s.active PROVE Sound(n, settled, K)
  <2>1. Counted(settled, K)
    BY <1>4, <1>9 DEF Ended, Counted, VoteIn, Current
  <2> QED
    BY <1>1, <1>3, <1>4, <1>7, <1>8, <2>1 DEF Ended, Sound, Holds
<1>10. Sound(n, back, K)
  <2>1. Counted(back, K)
    BY <1>5 DEF Counted, NoVotes
  <2>2. <<>> \in Seq(K)
    OBVIOUS
  <2> QED
    BY <1>1, <1>5, <1>6, <1>7, <1>8, <2>1, <2>2 DEF Ended, Sound, Holds
<1>11. Returned(settled) = back \/ (s.active /\ Returned(settled) = settled)
  BY <1>4 DEF Returned, back
<1> QED
  BY <1>9, <1>10, <1>11 DEF settled, said
-----------------------------------------------------------------------------
LEMMA MoreSound ==
  ASSUME NEW n \in Validators, NEW S, NEW s, Sound(n, s, S), s.out = {},
         NEW T, S \subseteq T, T \subseteq Messages, OneVote(T), TrueEvidence(T),
         \A m \in T \ S : m.from # n
  PROVE  Sound(n, s, T)
<1>1. Holds(n, s, S) /\ T \cup s.out = T
  <2>1. S \cup s.out = S
    OBVIOUS
  <2> QED
    BY <2>1 DEF Sound
<1>2. NotAhead(n, s, T)
  BY <1>1 DEF Holds, NotAhead
<1>3. Counted(s, T)
  BY <1>1 DEF Holds, Counted, VoteIn
<1>4. s.pendingMessages \in Seq(T)
  BY <1>1 DEF Holds
<1>5. Holds(n, s, T)
  BY <1>1, <1>2, <1>3, <1>4 DEF Holds
<1> QED
  BY <1>1, <1>5 DEF Sound

LEMMA FinishSound ==
  ASSUME VotesInv, NEW n \in Validators, NEW s, Ended(n, s, sent), NEW consumed,
         Finish(n, s, consumed)
  PROVE  VotesInv'
<1> DEFINE done == Returned(Settled([s EXCEPT !.out = {}]))
           T    == sent \cup s.out
<1>1. s \in NodeRecords /\ TypeOK /\ \A m \in s.out : m.from = n
  BY DEF Ended, VotesInv
<1>2. TypeOK'
  BY <1>1, FinishType
<1>3. T \subseteq Messages /\ OneVote(T) /\ TrueEvidence(T) /\ sent' = T
  BY <1>1 DEF Ended, Finish, NodeRecords
<1>4. node' = [node EXCEPT ![n] = done]
  BY DEF Finish
<1>5. Sound(n, done, T)
  BY DoneSound
<1> HIDE DEF done
<1>6. ASSUME NEW v \in Validators PROVE Sound(v, node'[v], T)
  <2>1. CASE v = n
    BY <1>1, <1>4, <1>5, <2>1 DEF TypeOK
  <2>2. CASE v # n
    <3>1. node'[v] = node[v] /\ node[v].out = {} /\ Sound(v, node[v], sent)
      BY <1>1, <1>4, <2>2 DEF TypeOK, VotesInv
    <3>2. \A m \in T \ sent : m.from # v
      BY <1>1, <2>2
    <3>3. Sound(v, node[v], T)
      BY <1>3, <3>1, <3>2, MoreSound
    <3> QED
      BY <3>1, <3>3
  <2> QED
    BY <2>1, <2>2
<1>7. ASSUME NEW v \in Validators PROVE inbox'[v] \subseteq T
  <2>1. inbox[v] \subseteq sent
    BY DEF VotesInv
  <2> QED
    BY <2>1 DEF Finish, Pertinent
<1> HIDE DEF T
<1> QED
  BY <1>2, <1>3, <1>6, <1>7 DEF VotesInv

LEMMA SoundEnds ==
  ASSUME NEW n \in Validators, NEW S, NEW s, Sound(n, s, S)
  PROVE  Ended(n, s, S)
  BY DEF Sound, Holds, Ended

LEMMA VotesInit == Init => VotesInv
<1> SUFFICES ASSUME Init PROVE VotesInv
  OBVIOUS
<1>1. NewNode \in NodeRecords /\ NewNode.out = {} /\ NewNode.jailedPeers = {}
      /\ ~NewNode.jailed
      /\ NewNode.pendingMessages = <<>>
      /\ NewNode.prevoteByVoter = NoVotes /\ NewNode.precommitByVoter = NoVotes
  BY NewNodeType DEF NewNode
<1>2. ASSUME NEW n \in Validators PROVE Sound(n, NewNode, {})
  <2>1. OneVote({}) /\ TrueEvidence({}) /\ NotAhead(n, NewNode, {}) /\ {} \cup {} = {}
    BY DEF OneVote, TrueEvidence, NotAhead
  <2>2. Counted(NewNode, {})
    BY <1>1 DEF Counted, NoVotes
  <2>3. <<>> \in Seq({})
    OBVIOUS
  <2>4. Holds(n, NewNode, {})
    BY <1>1, <2>1, <2>2, <2>3 DEF Holds
  <2> QED
    BY <1>1, <2>1, <2>4 DEF Sound
<1>3. \A n \in Validators : node[n] = NewNode /\ inbox[n] = {}
  BY DEF Init
<1>4. sent = {} /\ TypeOK
  BY InitType DEF Init
<1> QED
  BY <1>2, <1>3, <1>4 DEF VotesInv

LEMMA VotesNext == VotesInv /\ [Next]_vars => VotesInv'
<1> SUFFICES ASSUME VotesInv, [Next]_vars PROVE VotesInv'
  OBVIOUS
<1>1. ASSUME NEW n \in Validators
      PROVE  /\ Sound(n, node[n], sent) /\ node[n] \in NodeRecords
             /\ inbox[n] \subseteq sent /\ inbox[n] \subseteq Messages
  BY DEF VotesInv, TypeOK
<1>2. ASSUME NEW n \in Validators, Start(n) PROVE VotesInv'
  <2>1. Ended(n, StartConsensus(n, node[n], height), sent)
    BY <1>1, <1>2, StartSound DEF Start, VotesInv, TypeOK
  <2> QED
    BY <1>2, <2>1, FinishSound DEF Start
<1>3. ASSUME NEW n \in Validators, StartNextRound(n) PROVE VotesInv'
  <2>1. Ended(n, NextRound(n, node[n]), sent)
    BY <1>1, NextRoundSound, SoundEnds
  <2> QED
    BY <1>3, <2>1, FinishSound DEF StartNextRound
<1>4. ASSUME NEW n \in Validators, HandlePending(n) PROVE VotesInv'
  <2> DEFINE q == node[n].pendingMessages
             s == [node[n] EXCEPT !.pendingMessages = Tail(q)]
  <2>1. q \in Seq(Messages) /\ q \in Seq(sent \cup node[n].out) /\ q # <<>>
    BY <1>1, <1>4 DEF HandlePending, NodeRecords, Sound, Holds
  <2>2. /\ Head(q) \in Messages /\ Tail(q) \in Seq(Messages)
        /\ Head(q) \in sent \cup node[n].out /\ Tail(q) \in Seq(sent \cup node[n].out)
    BY <2>1
  <2>3. Sound(n, s, sent)
    BY <1>1, <2>2, PendingSound
  <2>4. s.out = node[n].out
    BY <1>1 DEF NodeRecords
  <2> HIDE DEF s
  <2>5. Ended(n, HandleMessage(n, s, Head(q)), sent)
    BY <2>2, <2>3, <2>4, HandleMessageSound, SoundEnds
  <2>6. Finish(n, HandleMessage(n, s, Head(q)), {})
    BY <1>4 DEF HandlePending, s
  <2> QED
    BY <2>5, <2>6, FinishSound
<1>5. ASSUME NEW n \in Validators, Receive(n) PROVE VotesInv'
  <2>1. PICK m \in inbox[n] : Finish(n, HandleMessage(n, node[n], m), {m})
    BY <1>5 DEF Receive
  <2>2. m \in Messages /\ m \in sent \cup node[n].out
    BY <1>1
  <2>3. Ended(n, HandleMessage(n, node[n], m), sent)
    BY <1>1, <2>2, HandleMessageSound, SoundEnds
  <2> QED
    BY <2>1, <2>3, FinishSound
<1>6. ASSUME NEW n \in Validators, NEW stage \in Stages, Timeout(n, stage) PROVE VotesInv'
  <2>1. Ended(n, HandleEvent(n, node[n], stage), sent)
    BY <1>1, HandleEventSound, SoundEnds
  <2> QED
    BY <1>6, <2>1, FinishSound DEF Timeout
<1>7. TypeOK'
  BY NextType DEF VotesInv
<1>8. ASSUME NEW n \in Validators, Lose(n) PROVE VotesInv'
  <2>1. PICK m \in inbox[n] : /\ inbox' = [inbox EXCEPT ![n] = @ \ {m}]
                              /\ UNCHANGED <<height, node, strikes, sent>>
    BY <1>8 DEF Lose
  <2>2. \A v \in Validators : inbox'[v] \subseteq inbox[v]
    BY <2>1 DEF VotesInv, TypeOK
  <2> QED
    BY <1>1, <1>7, <2>1, <2>2 DEF VotesInv
<1>9. CASE NextHeight \/ UNCHANGED vars
  BY <1>1, <1>7, <1>9 DEF NextHeight, vars, VotesInv
<1> QED
  BY <1>2, <1>3, <1>4, <1>5, <1>6, <1>8, <1>9 DEF Next, Proceed

LEMMA VotesHold == VotesInv => CountedVotesWereCast /\ OneVotePerRound /\ NoHonestJailed
<1> SUFFICES ASSUME VotesInv PROVE CountedVotesWereCast /\ OneVotePerRound /\ NoHonestJailed
  OBVIOUS
<1>1. ASSUME NEW n \in Validators PROVE Holds(n, node[n], sent)
  <2>1. sent \cup node[n].out = sent
    BY DEF VotesInv, TypeOK
  <2> QED
    BY <2>1 DEF VotesInv, Sound
<1>2. CountedVotesWereCast
  BY <1>1 DEF Holds, Counted, VoteIn, Current, CountedVotesWereCast, Voters, Sent
<1>3. OneVotePerRound
  BY <1>1, ValidatorsAssumption DEF Holds, OneVote, OneVotePerRound, Sent, Votes
<1>4. NoHonestJailed
  BY <1>1 DEF Holds, NoHonestJailed
<1> QED
  BY <1>2, <1>3, <1>4

\* A validator counts a vote only in the round it was cast in, by the voter it
\* counts it for: handleMessage, recordPrevote and recordPrecommit never mix up
\* rounds, heights and postponed messages.
THEOREM VotesCountedWhereCast == Spec => []CountedVotesWereCast
<1>1. VotesInv /\ [Next]_vars => VotesInv'
  BY VotesNext
<1>2. VotesInv => CountedVotesWereCast
  BY VotesHold
<1> QED
  BY <1>1, <1>2, VotesInit, PTL DEF Spec

\* No path through handlers, timers and nested quorum checks makes an honest
\* validator vote twice in a round (sendPrevote, sendPrecommit).
THEOREM HonestVoteOnce == Spec => []OneVotePerRound
<1>1. VotesInv /\ [Next]_vars => VotesInv'
  BY VotesNext
<1>2. VotesInv => OneVotePerRound
  BY VotesHold
<1> QED
  BY <1>1, <1>2, VotesInit, PTL DEF Spec

\* Whatever the order of messages, and whoever double-signs, no validator jails
\* one that does not (reportEvidence, handleEvidence).
THEOREM HonestStayFree == Spec => []NoHonestJailed
<1>1. VotesInv /\ [Next]_vars => VotesInv'
  BY VotesNext
<1>2. VotesInv => NoHonestJailed
  BY VotesHold
<1> QED
  BY <1>1, <1>2, VotesInit, PTL DEF Spec
-----------------------------------------------------------------------------
(***************************************************************************)
(* What is locked, precommitted and committed has a quorum behind it, a    *)
(* lock holds until a later quorum, and rounds follow precommits.          *)
(*                                                                         *)
(* A handler is taken apart into the steps by which its record changes:    *)
(* Step(n, S, s, t), from the record s of n to t when the messages S were  *)
(* sent before the handler.  A set of records that is Closed under Step is *)
(* not left by any handler, whichever calls it makes on its way; each      *)
(* invariant is then shown of the steps alone.                             *)
(***************************************************************************)
Total == PowerOf(Validators)

\* Voters and Polka of Consensus, for the messages K.
VotersIn(K, type, h, r, block) ==
  {v \in Validators : \E m \in {k \in K : k.type = type} :
     m.from = v /\ m.height = h /\ m.round = r /\ m.block = block}

PolkaIn(K, type, h, r, block) == PowerOf(VotersIn(K, type, h, r, block)) >= QuorumOf(Total)

\* The quorum of a validator that jailed some double-signers is still one of the
\* whole voting power.  It is so when nobody double-signs, and when the power of
\* double-signers is lost in rounding.  (recomputeQuorum lowers the quorum with the
\* active power, so that it does not hold in general.)
QuorumKept ==
  \A n \in Validators, J \in SUBSET Equivocators :
    QuorumPower(n, J) >= QuorumOf(Total)

LEMMA PowersHeld == \A S : PowerOf(S) = Held(Power, S)
  BY DEF PowerOf, UnitsOf, Held, Units

\* Two thirds, rounded up and never below 1, are more than half.
LEMMA MoreThanHalf ==
  ASSUME NEW t \in Nat
  PROVE  QuorumOf(t) \in Nat /\ QuorumOf(t) >= 1 /\ 2 * QuorumOf(t) > t
  BY DEF QuorumOf

LEMMA PowerGrows ==
  ASSUME NEW Q \in SUBSET Validators, NEW P \in SUBSET Q
  PROVE  PowerOf(P) \in Nat /\ PowerOf(Q) \in Nat /\ PowerOf(P) <= PowerOf(Q)
  BY PowersHeld, HeldGrows, ValidatorsAssumption, PowerAssumption

LEMMA QuorumType == Total \in Nat /\ QuorumOf(Total) \in Nat /\ QuorumOf(Total) >= 1
<1>1. Total \in Nat
  BY PowerGrows DEF Total
<1> QED
  BY <1>1, MoreThanHalf

\* Quorums have a validator in common.
LEMMA QuorumsShare ==
  ASSUME NEW P \in SUBSET Validators, NEW Q \in SUBSET Validators,
         PowerOf(P) >= QuorumOf(Total), PowerOf(Q) >= QuorumOf(Total)
  PROVE  P \cap Q # {}
<1> SUFFICES ASSUME P \cap Q = {} PROVE FALSE
  OBVIOUS
<1>1. Held(Power, P) + Held(Power, Q) - Held(Power, P \cap Q) <= Held(Power, Validators)
  BY HeldShared, ValidatorsAssumption, PowerAssumption
<1>2. Held(Power, P \cap Q) = 0
  <2>1. Held(Power, {}) = 0
    BY FS_EmptySet DEF Held, Units
  <2> QED
    BY <2>1
<1>3. PowerOf(P) + PowerOf(Q) <= Total
  <2>1. Held(Power, P) \in Nat /\ Held(Power, Q) \in Nat /\ Held(Power, Validators) \in Nat
    BY PowersHeld, PowerGrows
  <2> QED
    BY <1>1, <1>2, <2>1, PowersHeld DEF Total
<1>4. 2 * QuorumOf(Total) > Total
  BY QuorumType, MoreThanHalf
<1> QED
  BY <1>3, <1>4, QuorumType, PowerGrows

\* As nobody is jailed, the active validators hold the whole power.
LEMMA HonestKeepQuorum ==
  ASSUME Equivocators = {}
  PROVE  QuorumKept
<1> SUFFICES ASSUME NEW n \in Validators PROVE QuorumPower(n, {}) >= QuorumOf(Total)
  BY DEF QuorumKept
<1> DEFINE active == {v \in Validators : Power[v] > 0}
<1>1. ActiveValidators({}) = active
  BY DEF ActiveValidators
<1>2. PowerOf(active) = Total
  <2>1. \A v \in Validators \ active : {v} \X (1 .. Power[v]) = {}
    BY PowerAssumption
  <2>2. UNION {UnitsOf(v) : v \in Validators} = UNION {UnitsOf(v) : v \in active}
    BY <2>1 DEF UnitsOf
  <2> QED
    BY <2>2 DEF PowerOf, Total
<1>3. ActivePower(n, {}) = IF Total <= 0 THEN Power[n] ELSE Total
  BY <1>1, <1>2 DEF ActivePower
<1>4. Power[n] \in Nat /\ Total \in Nat
  BY QuorumType, PowerAssumption
<1>5. QuorumOf(Power[n]) >= 1 /\ QuorumOf(0) = 1
  BY <1>4, MoreThanHalf DEF QuorumOf
<1> HIDE DEF Total
<1>6. CASE Total = 0
  BY <1>3, <1>4, <1>5, <1>6, MoreThanHalf DEF QuorumPower
<1>7. CASE Total # 0
  BY <1>3, <1>4, <1>7, QuorumType DEF QuorumPower
<1> QED
  BY <1>6, <1>7

LEMMA PolkaGrows ==
  ASSUME NEW L, NEW K \in SUBSET L, NEW type, NEW h, NEW r, NEW b, PolkaIn(K, type, h, r, b)
  PROVE  PolkaIn(L, type, h, r, b)
<1>1. /\ VotersIn(K, type, h, r, b) \subseteq VotersIn(L, type, h, r, b)
      /\ VotersIn(L, type, h, r, b) \subseteq Validators
  BY DEF VotersIn
<1> DEFINE P == VotersIn(K, type, h, r, b)
           Q == VotersIn(L, type, h, r, b)
<1> HIDE DEF P, Q
<1>2. PowerOf(P) \in Nat /\ PowerOf(Q) \in Nat /\ PowerOf(P) <= PowerOf(Q)
  BY <1>1, PowerGrows DEF P, Q
<1>3. PowerOf(P) >= QuorumOf(Total)
  BY DEF PolkaIn, P
<1>4. PowerOf(Q) >= QuorumOf(Total)
  BY <1>2, <1>3, QuorumType
<1> QED
  BY <1>4 DEF PolkaIn, Q

LEMMA PolkaVoter ==
  ASSUME NEW K, NEW type, NEW h, NEW r, NEW b, PolkaIn(K, type, h, r, b)
  PROVE  \E m \in K : m.type = type /\ m.height = h /\ m.round = r /\ m.block = b
<1>1. PowerOf({}) = 0
  BY PowersHeld, FS_EmptySet DEF Held, Units
<1>2. VotersIn(K, type, h, r, b) # {}
  BY <1>1, QuorumType DEF PolkaIn
<1> QED
  BY <1>2 DEF VotersIn

\* A quorum counted by a record is one of messages known to have been sent.
LEMMA CountedPolka ==
  ASSUME QuorumKept, NEW n \in Validators, NEW S, NEW s, Sound(n, s, S),
         NEW b \in Blocks \cup {Nil}
  PROVE  /\ PowerFor(s.prevoteByVoter, b) >= QuorumPower(n, s.jailedPeers) =>
              /\ PowerFor(s.prevoteByVoter, b) >= QuorumOf(Total)
              /\ PolkaIn(S \cup s.out, "Prevote", s.currentHeight, s.currentRound, b)
         /\ PowerFor(s.precommitByVoter, b) >= QuorumPower(n, s.jailedPeers) =>
              PolkaIn(S \cup s.out, "Precommit", s.currentHeight, s.currentRound, b)
<1> DEFINE K == S \cup s.out
           h == s.currentHeight
           r == s.currentRound
           P == {v \in Validators : s.prevoteByVoter[v] = b}
           Q == {v \in Validators : s.precommitByVoter[v] = b}
           A == VotersIn(K, "Prevote", h, r, b)
           B == VotersIn(K, "Precommit", h, r, b)
<1>1. Counted(s, K) /\ s.jailedPeers \subseteq Equivocators
  BY DEF Sound, Holds
<1>2. QuorumPower(n, s.jailedPeers) >= QuorumOf(Total)
  BY <1>1 DEF QuorumKept
<1>3. QuorumPower(n, s.jailedPeers) \in Nat
  <2>1. ActivePower(n, s.jailedPeers) \in Nat
    BY PowerGrows, PowerAssumption DEF ActivePower, ActiveValidators
  <2> QED
    BY <2>1, MoreThanHalf DEF QuorumPower
<1>4. b # NoVote
  BY NilAssumption
<1>5. P \subseteq A /\ Q \subseteq B
  BY <1>1, <1>4 DEF Counted, VoteIn, VotersIn, Current
<1>6. A \in SUBSET Validators /\ B \in SUBSET Validators
  BY DEF VotersIn
<1> HIDE DEF A, B, P, Q
<1>7. /\ PowerOf(P) \in Nat /\ PowerOf(A) \in Nat /\ PowerOf(P) <= PowerOf(A)
      /\ PowerOf(Q) \in Nat /\ PowerOf(B) \in Nat /\ PowerOf(Q) <= PowerOf(B)
  BY <1>5, <1>6, PowerGrows
<1>8. /\ PowerOf(P) >= QuorumPower(n, s.jailedPeers) =>
           PowerOf(P) >= QuorumOf(Total) /\ PowerOf(A) >= QuorumOf(Total)
      /\ PowerOf(Q) >= QuorumPower(n, s.jailedPeers) => PowerOf(B) >= QuorumOf(Total)
  BY <1>2, <1>3, <1>7, QuorumType
<1> QED
  BY <1>8 DEF PowerFor, PolkaIn, A, B, P, Q

LEMMA OneQuorum ==
  ASSUME NEW votes, NEW a, NEW b,
         PowerFor(votes, a) >= QuorumOf(Total), PowerFor(votes, b) >= QuorumOf(Total)
  PROVE  a = b
<1> DEFINE P == {v \in Validators : votes[v] = a}
           Q == {v \in Validators : votes[v] = b}
<1>1. P \cap Q # {}
  <2>1. P \in SUBSET Validators /\ Q \in SUBSET Validators
    OBVIOUS
  <2>2. PowerOf(P) >= QuorumOf(Total) /\ PowerOf(Q) >= QuorumOf(Total)
    BY DEF PowerFor
  <2> HIDE DEF P, Q
  <2> QED
    BY <2>1, <2>2, QuorumsShare
<1> QED
  BY <1>1

\* Votes are only added.
More(votes, more) == \A v \in Validators : votes[v] # NoVote => more[v] = votes[v]

LEMMA QuorumStays ==
  ASSUME NEW votes, NEW more, More(votes, more), NEW b \in Blocks \cup {Nil},
         PowerFor(votes, b) >= QuorumOf(Total)
  PROVE  PowerFor(more, b) >= QuorumOf(Total)
<1> DEFINE P == {v \in Validators : votes[v] = b}
           Q == {v \in Validators : more[v] = b}
<1>1. P \subseteq Q /\ Q \in SUBSET Validators
  BY NilAssumption DEF More
<1> HIDE DEF P, Q
<1>2. PowerOf(P) \in Nat /\ PowerOf(Q) \in Nat /\ PowerOf(P) <= PowerOf(Q)
  BY <1>1, PowerGrows
<1>3. PowerOf(P) >= QuorumOf(Total)
  BY DEF PowerFor, P
<1>4. PowerOf(Q) >= QuorumOf(Total)
  BY <1>2, <1>3, QuorumType
<1> QED
  BY <1>4 DEF PowerFor, Q
-----------------------------------------------------------------------------
SameLocks(s, t) ==
  /\ t.lockedBlock = s.lockedBlock /\ t.lockedRound = s.lockedRound
  /\ t.lockedHeight = s.lockedHeight /\ t.validBlock = s.validBlock
  /\ t.validRound = s.validRound /\ t.validHeight = s.validHeight

Reached(n, s, votes, block) == PowerFor(votes, block) >= QuorumPower(n, s.jailedPeers)

\* n is the proposer of the round in the view of somebody who jailed some double-signers.
MayPropose(n, h, r) == \E J \in SUBSET Equivocators : n = ProposerFor(n, J, h, r)

\* Why n broadcasts m from the record s, when the messages K were sent.
Warranted(n, s, K, m) ==
  /\ m.type = "Proposal" => /\ m.block = SelectProposalBlock(s)
                            /\ MayPropose(n, s.currentHeight, s.currentRound)
  /\ m.type = "Prevote" /\ n \notin Equivocators /\ m.block # Nil =>
       /\ ~s.prevoteSent
       /\ s.lockedBlock \in {Nil, m.block}
       /\ \E p \in K : p.type = "Proposal" /\ Current(s, p) /\ p.block = m.block
  /\ m.type = "Precommit" /\ n \notin Equivocators /\ m.block # Nil =>
       /\ s.lockedBlock = m.block
       /\ s.lockedHeight = s.currentHeight /\ s.lockedRound = s.currentRound
  /\ m.type = "Commit" => m.block # Nil /\ Reached(n, s, s.precommitByVoter, m.block)

\* Why t is committed.
CommitWarranted(n, s, K, t) ==
  \/ s.committed /\ t.committedBlock = s.committedBlock
  \/ t.committedBlock # Nil /\ Reached(n, s, s.precommitByVoter, t.committedBlock)
  \/ \E m \in K : m.type = "Commit" /\ Current(s, m) /\ m.block = t.committedBlock

\* Why the round of t has ended.
EndWarranted(n, s, K, t) ==
  \/ ~s.roundActive \/ t.aborted \/ t.committed \/ "precommit" \in s.timers
  \/ \E m \in K : Future(s, m)
  \/ Reached(n, s, s.precommitByVoter, Nil)

\* A step that leaves the locks alone.
Onward(n, S, s, t) ==
  LET K == S \cup s.out
  IN  /\ SameLocks(s, t) /\ t.active = s.active /\ Frame(s, t)
      /\ More(s.prevoteByVoter, t.prevoteByVoter)
      /\ s.out \subseteq t.out
      /\ \A m \in t.out \ s.out : Current(s, m) /\ Warranted(n, s, K, m)
      /\ s.committed => t.committed
      /\ t.committed => CommitWarranted(n, s, K, t)
      /\ s.aborted => t.aborted
      /\ ~t.roundActive => EndWarranted(n, s, K, t)
      /\ t.precommitSent => \/ s.precommitSent \/ "SilentPrecommit" \in Behavior[n]
                            \/ \E m \in t.out : m.type = "Precommit" /\ Current(s, m)
      /\ "precommit" \in t.timers => "precommit" \in s.timers \/ t.precommitSent

LockedOn(s, b) ==
  [s EXCEPT !.lockedBlock = b, !.lockedRound = s.currentRound,
            !.lockedHeight = s.currentHeight,
            !.validBlock = b, !.validRound = s.currentRound,
            !.validHeight = s.currentHeight]

Locks(n, s, t) ==
  \E b \in Blocks : Reached(n, s, s.prevoteByVoter, b) /\ t = LockedOn(s, b)

Unlocks(n, s, t) ==
  /\ Reached(n, s, s.prevoteByVoter, Nil)
  /\ s.currentRound >= s.lockedRound /\ s.currentHeight >= s.lockedHeight
  /\ t = Unlocked(s)

Step(n, S, s, t) == Onward(n, S, s, t) \/ Locks(n, s, t) \/ Unlocks(n, s, t)

Closed(n, S, G) ==
  \A s \in G, t \in NodeRecords :
    Sound(n, s, S) /\ Sound(n, t, S) /\ Step(n, S, s, t) => t \in G

\* The record s of a handler that has not left G.
Within(n, S, G, s) == Closed(n, S, G) /\ s \in G /\ Sound(n, s, S)

LEMMA PowerForType == \A votes, b : PowerFor(votes, b) \in Nat
<1> SUFFICES ASSUME NEW votes, NEW b PROVE PowerFor(votes, b) \in Nat
  OBVIOUS
<1>1. {v \in Validators : votes[v] = b} \in SUBSET Validators
  OBVIOUS
<1> QED
  BY <1>1, PowerGrows DEF PowerFor

LEMMA QuorumPowerType == \A n \in Validators : \A J : QuorumPower(n, J) \in Nat
<1>1. \A n \in Validators : \A J : ActivePower(n, J) \in Nat
  BY PowerGrows, PowerAssumption DEF ActivePower, ActiveValidators
<1> QED
  BY <1>1, MoreThanHalf DEF QuorumPower

LEMMA OnwardWithin ==
  ASSUME NEW n, NEW S, NEW G, NEW s, Within(n, S, G, s),
         NEW t, Sound(n, t, S), Onward(n, S, s, t)
  PROVE  Within(n, S, G, t)
<1>1. t \in NodeRecords
  BY DEF Sound
<1> QED
  BY <1>1 DEF Within, Closed, Step

LEMMA ScheduleWithin ==
  ASSUME NEW n \in Validators, NEW S, NEW G, NEW s, Within(n, S, G, s),
         NEW stage \in Stages, stage = "precommit" => s.precommitSent
  PROVE  Within(n, S, G, ScheduleStageTimeout(s, stage))
<1>1. s \in NodeRecords /\ Sound(n, s, S)
  BY DEF Sound, Within
<1>2. Onward(n, S, s, ScheduleStageTimeout(s, stage))
  BY <1>1 DEF ScheduleStageTimeout, Onward, SameLocks, Frame, More, CommitWarranted,
              EndWarranted, NodeRecords
<1>3. Sound(n, ScheduleStageTimeout(s, stage), S)
  BY <1>1, ScheduleKeeps DEF Keeps
<1> QED
  BY <1>2, <1>3, OnwardWithin

\* Recording a vote, or reporting it.
Recorded(s, t) ==
  /\ SameLocks(s, t) /\ t.active = s.active
  /\ t.currentHeight = s.currentHeight /\ t.currentRound = s.currentRound
  /\ t.prevoteSent = s.prevoteSent /\ t.precommitSent = s.precommitSent
  /\ More(s.prevoteByVoter, t.prevoteByVoter)
  /\ s.out \subseteq t.out
  /\ \A m \in t.out \ s.out : Current(s, m) /\ m.type = "Evidence"
  /\ t.committed = s.committed /\ t.committedBlock = s.committedBlock
  /\ t.aborted = s.aborted /\ t.roundActive = s.roundActive /\ t.timers = s.timers

LEMMA RecordRecorded ==
  ASSUME NEW s \in NodeRecords, NEW n \in Validators, NEW m \in VoteMessages
  PROVE  Recorded(s, RecordPrevote(n, s, m)) /\ Recorded(s, RecordPrecommit(n, s, m))
<1>1. m.from \in Validators
  BY DEF VoteMessages
<1>2. Recorded(s, s)
  BY DEF Recorded, SameLocks, More
<1>3. Recorded(s, ReportEvidence(n, s, m.from))
  <2> DEFINE e == [type |-> "Evidence", from |-> n, height |-> s.currentHeight,
                   round |-> s.currentRound, offender |-> m.from]
  <2>1. Current(s, e) /\ e.type = "Evidence" /\ e \in Messages
    BY <1>1 DEF Current, Messages, EvidenceMessages, NodeRecords
  <2> HIDE DEF e
  <2>2. Broadcast(s, e) \in NodeRecords /\ Recorded(s, Broadcast(s, e))
    <3>1. Broadcast(s, e) \in NodeRecords
      BY <2>1, BroadcastType
    <3> QED
      BY <2>1, <3>1 DEF Recorded, SameLocks, More, Broadcast, NodeRecords
  <2>3. ASSUME NEW r \in NodeRecords PROVE Recorded(r, Jail(n, r, m.from))
    BY DEF Recorded, SameLocks, More, Jail, NodeRecords
  <2>4. Recorded(Broadcast(s, e), Jail(n, Broadcast(s, e), m.from))
    BY <2>2, <2>3
  <2>5. Jail(n, Broadcast(s, e), m.from).out = Broadcast(s, e).out
    BY <2>2 DEF Jail, NodeRecords
  <2> QED
    BY <2>2, <2>4, <2>5, SMTT(20) DEF Recorded, SameLocks, More, ReportEvidence, e
<1>4. FreshVote(s, s.prevoteByVoter, m) =>
        Recorded(s, [s EXCEPT !.prevoteByVoter[m.from] = m.block])
  BY <1>1 DEF FreshVote, Recorded, SameLocks, More, NodeRecords
<1>5. Recorded(s, [s EXCEPT !.precommitByVoter[m.from] = m.block])
  BY <1>1 DEF Recorded, SameLocks, More, NodeRecords
<1> QED
  BY <1>2, <1>3, <1>4, <1>5 DEF RecordPrevote, RecordPrecommit

LEMMA RecordedOnward ==
  ASSUME NEW n, NEW S, NEW s \in NodeRecords, NEW t, Recorded(s, t)
  PROVE  Onward(n, S, s, t)
  BY DEF Recorded, Onward, Frame, Warranted, CommitWarranted, EndWarranted

\* A broadcast that needs no more than the record it is sent from.
LEMMA TellWithin ==
  ASSUME NEW n \in Validators, NEW S, NEW G, NEW s, Within(n, S, G, s),
         NEW m \in Messages, Current(s, m), Warranted(n, s, S \cup s.out, m),
         Sound(n, Broadcast(s, m), S)
  PROVE  Within(n, S, G, Broadcast(s, m))
<1>1. s \in NodeRecords
  BY DEF Sound, Within
<1>2. Onward(n, S, s, Broadcast(s, m))
  BY <1>1 DEF Broadcast, Onward, SameLocks, Frame, More, EndWarranted, CommitWarranted, NodeRecords
<1> QED
  BY <1>2, OnwardWithin

\* The second vote of a double-signer.
LEMMA AgainWithin ==
  ASSUME NEW n \in Equivocators, NEW S, NEW G, NEW s, Within(n, S, G, s),
         NEW m \in Messages, m.from = n, m.type \in Votes, Current(s, m),
         m.type = "Prevote" => s.prevoteSent, m.type = "Precommit" => s.precommitSent
  PROVE  Within(n, S, G, Broadcast(s, m)) /\ Broadcast(s, m).precommitSent = s.precommitSent
<1>1. s \in NodeRecords /\ Sound(n, s, S) /\ n \in Validators
  BY DEF Sound, Within, Equivocators
<1>2. Sound(n, Broadcast(s, m), S)
  BY <1>1, SecondVoteSound
<1>3. Warranted(n, s, S \cup s.out, m)
  BY DEF Warranted, Votes
<1> QED
  BY <1>1, <1>2, <1>3, TellWithin DEF Broadcast, NodeRecords

LEMMA CheckPrecommitWithin ==
  ASSUME NEW n \in Validators, NEW S, NEW G, NEW s, Within(n, S, G, s),
         NEW b \in Blocks \cup {Nil}
  PROVE  Within(n, S, G, CheckPrecommitQuorum(n, s, b))
<1> DEFINE c == [s EXCEPT !.committed = TRUE, !.roundActive = FALSE, !.committedBlock = b]
           d == [s EXCEPT !.roundActive = FALSE]
           m == Msg("Commit", n, s, b)
           t == CheckPrecommitQuorum(n, s, b)
<1>1. s \in NodeRecords /\ Sound(n, s, S)
  BY DEF Sound, Within
<1>2. PowerFor(s.precommitByVoter, b) \in Nat /\ QuorumPower(n, s.jailedPeers) \in Nat
  BY QuorumPowerType, PowerForType
<1>3. Sound(n, t, S)
  BY <1>1, CheckPrecommitKeeps DEF Keeps
<1>4. CASE ~Reached(n, s, s.precommitByVoter, b) \/ s.committed
  <2>1. t = s
    BY <1>2, <1>4 DEF CheckPrecommitQuorum, Reached
  <2> QED
    BY <2>1
<1>5. CASE Reached(n, s, s.precommitByVoter, b) /\ ~s.committed /\ b = Nil
  <2>1. t = d
    BY <1>2, <1>5 DEF CheckPrecommitQuorum, Reached
  <2>2. Onward(n, S, s, d)
    BY <1>1, <1>5 DEF Onward, SameLocks, Frame, More, EndWarranted, CommitWarranted, NodeRecords
  <2> QED
    BY <1>3, <2>1, <2>2, OnwardWithin
<1>6. CASE Reached(n, s, s.precommitByVoter, b) /\ ~s.committed /\ b # Nil
  <2>1. t = Broadcast(c, m)
    BY <1>2, <1>6 DEF CheckPrecommitQuorum, Reached
  <2>2. Current(s, m) /\ m.type = "Commit" /\ m.block = b
    BY DEF Current, Msg
  <2> HIDE DEF m
  <2>3. /\ SameLocks(s, Broadcast(c, m)) /\ Frame(s, Broadcast(c, m))
        /\ Broadcast(c, m).active = s.active
        /\ Broadcast(c, m).prevoteByVoter = s.prevoteByVoter
        /\ Broadcast(c, m).out = s.out \cup {m}
        /\ Broadcast(c, m).committed /\ Broadcast(c, m).committedBlock = b
        /\ Broadcast(c, m).aborted = s.aborted /\ Broadcast(c, m).timers = s.timers
        /\ Broadcast(c, m).precommitSent = s.precommitSent
    BY <1>1 DEF Broadcast, SameLocks, Frame, NodeRecords
  <2> HIDE DEF c
  <2>4. Onward(n, S, s, Broadcast(c, m))
    BY <1>6, <2>2, <2>3 DEF Onward, More, Warranted, EndWarranted, CommitWarranted
  <2> QED
    BY <1>3, <2>1, <2>4, OnwardWithin
<1> QED
  BY <1>4, <1>5, <1>6

\* The precommit of n, recorded and broadcast.
LEMMA CastPrecommitWithin ==
  ASSUME NEW n \in Validators, NEW S, NEW G, NEW s, Within(n, S, G, s), ~s.precommitSent,
         NEW vote \in Blocks \cup {Nil},
         vote # Nil => /\ s.lockedBlock = vote
                       /\ s.lockedHeight = s.currentHeight /\ s.lockedRound = s.currentRound
  PROVE  LET m    == Msg("Precommit", n, s, vote)
             said == Broadcast(RecordPrecommit(n, [s EXCEPT !.precommitSent = TRUE], m), m)
         IN  Within(n, S, G, said) /\ Frame(s, said) /\ said.precommitSent
<1> DEFINE t        == [s EXCEPT !.precommitSent = TRUE]
           m        == Msg("Precommit", n, s, vote)
           recorded == RecordPrecommit(n, t, m)
           said     == Broadcast(recorded, m)
<1>1. s \in NodeRecords /\ Sound(n, s, S)
  BY DEF Sound, Within
<1>2. Sound(n, said, S) /\ Frame(s, said) /\ said.precommitSent
  BY <1>1, CastPrecommitSound
<1>3. m \in VoteMessages /\ Current(s, m) /\ m.type = "Precommit" /\ m.block = vote
  BY <1>1, MsgType DEF Msg, Current
<1> HIDE DEF m
<1>4. /\ t \in NodeRecords /\ SameLocks(s, t) /\ t.active = s.active
      /\ t.currentHeight = s.currentHeight /\ t.currentRound = s.currentRound
      /\ t.prevoteByVoter = s.prevoteByVoter /\ t.out = s.out
      /\ t.committed = s.committed /\ t.committedBlock = s.committedBlock
      /\ t.aborted = s.aborted /\ t.roundActive = s.roundActive /\ t.timers = s.timers
  BY <1>1 DEF SameLocks, NodeRecords
<1> HIDE DEF t
<1>5. Recorded(t, recorded) /\ recorded \in NodeRecords
  BY <1>3, <1>4, RecordRecorded, RecordType
<1> HIDE DEF recorded
<1>6. /\ SameLocks(recorded, said) /\ said.active = recorded.active
      /\ said.prevoteByVoter = recorded.prevoteByVoter /\ said.out = recorded.out \cup {m}
      /\ said.committed = recorded.committed /\ said.committedBlock = recorded.committedBlock
      /\ said.aborted = recorded.aborted /\ said.roundActive = recorded.roundActive
      /\ said.timers = recorded.timers
  BY <1>5 DEF Broadcast, SameLocks, NodeRecords
<1> HIDE DEF said
<1>7. SameLocks(s, said) /\ More(s.prevoteByVoter, said.prevoteByVoter)
      /\ said.out \subseteq {e \in said.out : e.type = "Evidence" /\ Current(s, e)}
                            \cup s.out \cup {m}
      /\ s.out \subseteq said.out /\ m \in said.out
  BY <1>4, <1>5, <1>6 DEF Recorded, SameLocks, Current
<1>8. Onward(n, S, s, said)
  BY <1>2, <1>3, <1>4, <1>5, <1>6, <1>7
     DEF Recorded, Onward, Warranted, EndWarranted, CommitWarranted
<1> QED
  BY <1>2, <1>8, OnwardWithin DEF said, recorded, t, m

LEMMA SendPrecommitWithin ==
  ASSUME NEW n \in Validators, NEW S, NEW G, NEW s, Within(n, S, G, s),
         NEW b \in Blocks \cup {Nil},
         b # Nil => /\ s.lockedBlock = b
                    /\ s.lockedHeight = s.currentHeight /\ s.lockedRound = s.currentRound
  PROVE  Within(n, S, G, SendPrecommit(n, s, b))
<1> DEFINE t        == [s EXCEPT !.precommitSent = TRUE]
           vote     == IF "ForceNilPrecommit" \in Behavior[n] THEN Nil ELSE b
           m        == Msg("Precommit", n, s, vote)
           said     == Broadcast(RecordPrecommit(n, t, m), m)
           checked  == CheckPrecommitQuorum(n, said, vote)
           conflict == Msg("Precommit", n, s, ConflictingVote(n, s, vote))
           final    == IF "EquivocatePrecommit" \in Behavior[n]
                       THEN Broadcast(checked, conflict) ELSE checked
<1>1. s \in NodeRecords /\ Sound(n, s, S)
  BY DEF Sound, Within
<1>2. CASE s.precommitSent \/ s.jailed
  BY <1>2 DEF SendPrecommit
<1>3. CASE ~s.precommitSent /\ ~s.jailed /\ "SilentPrecommit" \in Behavior[n]
  <2>1. Sound(n, t, S)
    BY <1>1, WeakenSound
  <2>2. Onward(n, S, s, t) /\ t.precommitSent
    BY <1>1, <1>3 DEF Onward, SameLocks, Frame, More, EndWarranted, CommitWarranted, NodeRecords
  <2>3. Within(n, S, G, t)
    BY <2>1, <2>2, OnwardWithin
  <2> HIDE DEF t
  <2>4. Within(n, S, G, ScheduleStageTimeout(t, "precommit"))
    BY <2>2, <2>3, ScheduleWithin DEF Stages
  <2> QED
    BY <1>3, <2>4 DEF SendPrecommit, t
<1>4. CASE ~s.precommitSent /\ ~s.jailed /\ "SilentPrecommit" \notin Behavior[n]
  <2>1. vote \in Blocks \cup {Nil} /\ (vote # Nil => vote = b)
    OBVIOUS
  <2> HIDE DEF vote
  <2>2. Within(n, S, G, said) /\ Frame(s, said) /\ said.precommitSent
    BY <1>4, <2>1, CastPrecommitWithin
  <2>3. conflict \in Messages /\ conflict.from = n /\ conflict.type = "Precommit"
        /\ Current(s, conflict)
    BY <1>1, <2>1, BlockType, MsgType DEF Messages, Msg, Current
  <2> HIDE DEF conflict, said
  <2>4. Within(n, S, G, checked) /\ Frame(said, checked)
    BY <2>1, <2>2, CheckPrecommitWithin, CheckPrecommitKeeps DEF Keeps, Within
  <2> HIDE DEF checked
  <2>5. checked.precommitSent /\ Current(checked, conflict)
    BY <2>2, <2>3, <2>4 DEF Frame, Current
  <2>6. Within(n, S, G, final) /\ final.precommitSent
    BY <2>3, <2>4, <2>5, AgainWithin DEF Votes, Equivocators
  <2> HIDE DEF final
  <2>7. Within(n, S, G, ScheduleStageTimeout(final, "precommit"))
    BY <2>6, ScheduleWithin DEF Stages
  <2> QED
    BY <1>4, <2>7 DEF SendPrecommit, final, checked, said, conflict, m, vote, t
<1> QED
  BY <1>2, <1>3, <1>4

LEMMA LockWithin ==
  ASSUME NEW n \in Validators, NEW S, NEW G, NEW s, Within(n, S, G, s)
  PROVE  /\ \A b \in Blocks : Reached(n, s, s.prevoteByVoter, b) =>
              LET t == LockedOn(s, b)
              IN  /\ Within(n, S, G, t) /\ t.lockedBlock = b
                  /\ t.lockedHeight = t.currentHeight /\ t.lockedRound = t.currentRound
         /\ Reached(n, s, s.prevoteByVoter, Nil)
              /\ s.currentRound >= s.lockedRound /\ s.currentHeight >= s.lockedHeight =>
              Within(n, S, G, Unlocked(s))
<1>1. s \in NodeRecords /\ Sound(n, s, S)
  BY DEF Sound, Within
<1>2. ASSUME NEW b \in Blocks
      PROVE  /\ LockedOn(s, b) \in NodeRecords /\ Alike(s, LockedOn(s, b))
             /\ LockedOn(s, b).lockedBlock = b
             /\ LockedOn(s, b).lockedHeight = LockedOn(s, b).currentHeight
             /\ LockedOn(s, b).lockedRound = LockedOn(s, b).currentRound
  BY <1>1 DEF LockedOn, Alike, NodeRecords
<1>3. Unlocked(s) \in NodeRecords /\ Alike(s, Unlocked(s))
  BY <1>1 DEF Unlocked, Alike, NodeRecords
<1>4. \A b \in Blocks : Sound(n, LockedOn(s, b), S)
  BY <1>1, <1>2, AlikeSound
<1>5. Sound(n, Unlocked(s), S)
  BY <1>1, <1>3, AlikeSound
<1> QED
  BY <1>1, <1>2, <1>3, <1>4, <1>5 DEF Within, Closed, Step, Locks, Unlocks

LEMMA CheckPrevoteWithin ==
  ASSUME NEW n \in Validators, NEW S, NEW G, NEW s, Within(n, S, G, s),
         NEW b \in Blocks \cup {Nil}
  PROVE  Within(n, S, G, CheckPrevoteQuorum(n, s, b))
<1> DEFINE t == CheckPrevoteQuorum(n, s, b)
<1>1. PowerFor(s.prevoteByVoter, b) \in Nat /\ QuorumPower(n, s.jailedPeers) \in Nat
  BY QuorumPowerType, PowerForType
<1>2. CASE ~Reached(n, s, s.prevoteByVoter, b)
  <2>1. t = s
    BY <1>1, <1>2 DEF CheckPrevoteQuorum, Reached
  <2> QED
    BY <2>1
<1>3. CASE Reached(n, s, s.prevoteByVoter, b) /\ b # Nil
  <2>1. t = SendPrecommit(n, LockedOn(s, b), b)
    BY <1>1, <1>3 DEF CheckPrevoteQuorum, Reached, LockedOn
  <2> QED
    BY <1>3, <2>1, LockWithin, SendPrecommitWithin
<1>4. CASE Reached(n, s, s.prevoteByVoter, b) /\ b = Nil
  <2>1. t = SendPrecommit(n, IF s.currentRound >= s.lockedRound
                                  /\ s.currentHeight >= s.lockedHeight
                             THEN Unlocked(s) ELSE s, Nil)
    BY <1>1, <1>4 DEF CheckPrevoteQuorum, Reached
  <2> QED
    BY <1>4, <2>1, LockWithin, SendPrecommitWithin
<1> QED
  BY <1>2, <1>3, <1>4

\* The prevote of n, recorded and broadcast.
LEMMA CastPrevoteWithin ==
  ASSUME NEW n \in Validators, NEW S, NEW G, NEW s, Within(n, S, G, s), ~s.prevoteSent,
         NEW vote \in Blocks \cup {Nil},
         vote # Nil => /\ s.lockedBlock \in {Nil, vote}
                       /\ \E p \in S \cup s.out :
                            p.type = "Proposal" /\ Current(s, p) /\ p.block = vote
  PROVE  LET m    == Msg("Prevote", n, s, vote)
             said == Broadcast(RecordPrevote(n, [s EXCEPT !.prevoteSent = TRUE], m), m)
         IN  Within(n, S, G, said) /\ Frame(s, said) /\ said.prevoteSent
<1> DEFINE t        == [s EXCEPT !.prevoteSent = TRUE]
           m        == Msg("Prevote", n, s, vote)
           recorded == RecordPrevote(n, t, m)
           said     == Broadcast(recorded, m)
<1>1. s \in NodeRecords /\ Sound(n, s, S)
  BY DEF Sound, Within
<1>2. Sound(n, said, S) /\ Frame(s, said) /\ said.prevoteSent
  BY <1>1, CastPrevoteSound
<1>3. m \in VoteMessages /\ Current(s, m) /\ m.type = "Prevote" /\ m.block = vote
  BY <1>1, MsgType DEF Msg, Current
<1> HIDE DEF m
<1>4. /\ t \in NodeRecords /\ SameLocks(s, t) /\ t.active = s.active
      /\ t.currentHeight = s.currentHeight /\ t.currentRound = s.currentRound
      /\ t.prevoteByVoter = s.prevoteByVoter /\ t.out = s.out
      /\ t.precommitSent = s.precommitSent
      /\ t.committed = s.committed /\ t.committedBlock = s.committedBlock
      /\ t.aborted = s.aborted /\ t.roundActive = s.roundActive /\ t.timers = s.timers
  BY <1>1 DEF SameLocks, NodeRecords
<1> HIDE DEF t
<1>5. Recorded(t, recorded) /\ recorded \in NodeRecords
  BY <1>3, <1>4, RecordRecorded, RecordType
<1> HIDE DEF recorded
<1>6. /\ SameLocks(recorded, said) /\ said.active = recorded.active
      /\ said.prevoteByVoter = recorded.prevoteByVoter /\ said.out = recorded.out \cup {m}
      /\ said.precommitSent = recorded.precommitSent
      /\ said.committed = recorded.committed /\ said.committedBlock = recorded.committedBlock
      /\ said.aborted = recorded.aborted /\ said.roundActive = recorded.roundActive
      /\ said.timers = recorded.timers
  BY <1>5 DEF Broadcast, SameLocks, NodeRecords
<1> HIDE DEF said
<1>7. SameLocks(s, said) /\ More(s.prevoteByVoter, said.prevoteByVoter)
      /\ said.out \subseteq {e \in said.out : e.type = "Evidence" /\ Current(s, e)}
                            \cup s.out \cup {m}
      /\ s.out \subseteq said.out /\ m \in said.out
  BY <1>4, <1>5, <1>6 DEF Recorded, SameLocks, Current
<1>8. Onward(n, S, s, said)
  BY <1>2, <1>3, <1>4, <1>5, <1>6, <1>7
     DEF Recorded, Onward, Warranted, EndWarranted, CommitWarranted
<1> QED
  BY <1>2, <1>8, OnwardWithin DEF said, recorded, t, m

LEMMA SendPrevoteWithin ==
  ASSUME NEW n \in Validators, NEW S, NEW G, NEW s, Within(n, S, G, s),
         NEW b \in Blocks \cup {Nil},
         b # Nil => /\ s.lockedBlock \in {Nil, b}
                    /\ \E p \in S \cup s.out :
                         p.type = "Proposal" /\ Current(s, p) /\ p.block = b
  PROVE  Within(n, S, G, SendPrevote(n, s, b))
<1> DEFINE t        == [s EXCEPT !.prevoteSent = TRUE]
           vote     == IF "ForceNilPrevote" \in Behavior[n] THEN Nil ELSE b
           m        == Msg("Prevote", n, s, vote)
           said     == Broadcast(RecordPrevote(n, t, m), m)
           checked  == CheckPrevoteQuorum(n, said, vote)
           conflict == Msg("Prevote", n, s, ConflictingVote(n, s, vote))
           final    == IF "EquivocatePrevote" \in Behavior[n]
                       THEN Broadcast(checked, conflict) ELSE checked
<1>1. s \in NodeRecords /\ Sound(n, s, S)
  BY DEF Sound, Within
<1>2. CASE s.prevoteSent \/ s.jailed
  BY <1>2 DEF SendPrevote
<1>3. CASE ~s.prevoteSent /\ ~s.jailed /\ "SilentPrevote" \in Behavior[n]
  <2>1. Sound(n, t, S)
    BY <1>1, WeakenSound
  <2>2. Onward(n, S, s, t)
    BY <1>1 DEF Onward, SameLocks, Frame, More, EndWarranted, CommitWarranted, NodeRecords
  <2>3. Within(n, S, G, t)
    BY <2>1, <2>2, OnwardWithin
  <2> HIDE DEF t
  <2>4. Within(n, S, G, ScheduleStageTimeout(t, "prevote"))
    BY <2>3, ScheduleWithin DEF Stages
  <2> QED
    BY <1>3, <2>4 DEF SendPrevote, t
<1>4. CASE ~s.prevoteSent /\ ~s.jailed /\ "SilentPrevote" \notin Behavior[n]
  <2>1. vote \in Blocks \cup {Nil} /\ (vote # Nil => vote = b)
    OBVIOUS
  <2> HIDE DEF vote
  <2>2. Within(n, S, G, said) /\ Frame(s, said) /\ said.prevoteSent
    BY <1>4, <2>1, CastPrevoteWithin
  <2>3. conflict \in Messages /\ conflict.from = n /\ conflict.type = "Prevote"
        /\ Current(s, conflict)
    BY <1>1, <2>1, BlockType, MsgType DEF Messages, Msg, Current
  <2> HIDE DEF conflict, said
  <2>4. Within(n, S, G, checked) /\ Frame(said, checked)
    BY <2>1, <2>2, CheckPrevoteWithin, CheckPrevoteKeeps DEF Keeps, Within
  <2> HIDE DEF checked
  <2>5. checked.prevoteSent /\ Current(checked, conflict)
    BY <2>2, <2>3, <2>4 DEF Frame, Current
  <2>6. Within(n, S, G, final)
    BY <2>3, <2>4, <2>5, AgainWithin DEF Votes, Equivocators
  <2> HIDE DEF final
  <2>7. Within(n, S, G, ScheduleStageTimeout(final, "prevote"))
    BY <2>6, ScheduleWithin DEF Stages
  <2> QED
    BY <1>4, <2>7 DEF SendPrevote, final, checked, said, conflict, m, vote, t
<1> QED
  BY <1>2, <1>3, <1>4
-----------------------------------------------------------------------------
LEMMA HandleProposalWithin ==
  ASSUME NEW n \in Validators, NEW S, NEW G, NEW s, Within(n, S, G, s),
         NEW m \in VoteMessages, m \in S \cup s.out, m.type = "Proposal"
  PROVE  Within(n, S, G, HandleProposal(n, s, m))
<1> DEFINE lockedElsewhere == /\ s.lockedBlock # Nil
                              /\ s.lockedBlock # m.block \/ s.lockedHeight # m.height
<1>1. m.block \in Blocks \cup {Nil}
  BY DEF VoteMessages
<1>2. Within(n, S, G, SendPrevote(n, s, Nil))
  BY SendPrevoteWithin
<1>3. ASSUME ~lockedElsewhere, Current(s, m)
      PROVE  Within(n, S, G, SendPrevote(n, s, m.block))
  BY <1>1, <1>3, SendPrevoteWithin
<1> QED
  BY <1>2, <1>3 DEF HandleProposal

LEMMA HandleVoteWithin ==
  ASSUME NEW n \in Validators, NEW S, NEW G, NEW s, Within(n, S, G, s),
         NEW m \in VoteMessages, m \in S \cup s.out
  PROVE  /\ m.type = "Prevote" => Within(n, S, G, HandlePrevote(n, s, m))
         /\ m.type = "Precommit" => Within(n, S, G, HandlePrecommit(n, s, m))
         /\ m.type = "Commit" /\ Current(s, m) => Within(n, S, G, HandleCommit(n, s, m))
<1>1. m.block \in Blocks \cup {Nil} /\ s \in NodeRecords /\ Sound(n, s, S)
  BY DEF VoteMessages, Sound, Within
<1>2. m.type = "Prevote" /\ Current(s, m) => Within(n, S, G, RecordPrevote(n, s, m))
  BY <1>1, RecordPrevoteSound, RecordRecorded, RecordedOnward, OnwardWithin
<1>3. m.type = "Precommit" /\ Current(s, m) => Within(n, S, G, RecordPrecommit(n, s, m))
  BY <1>1, RecordPrecommitSound, RecordRecorded, RecordedOnward, OnwardWithin
<1>4. m.type = "Prevote" => Within(n, S, G, HandlePrevote(n, s, m))
  BY <1>1, <1>2, CheckPrevoteWithin DEF HandlePrevote
<1>5. m.type = "Precommit" => Within(n, S, G, HandlePrecommit(n, s, m))
  BY <1>1, <1>3, CheckPrecommitWithin DEF HandlePrecommit
<1>6. ASSUME m.type = "Commit", Current(s, m) PROVE Within(n, S, G, HandleCommit(n, s, m))
  <2> DEFINE t == HandleCommit(n, s, m)
  <2>1. Sound(n, t, S)
    BY HandleVoteSound, <1>1
  <2>2. /\ t \in NodeRecords /\ SameLocks(s, t) /\ Frame(s, t) /\ t.active = s.active
        /\ t.prevoteByVoter = s.prevoteByVoter /\ t.out = s.out
        /\ t.committed /\ t.committedBlock = m.block
        /\ t.aborted = s.aborted /\ t.precommitSent = s.precommitSent /\ t.timers = s.timers
    BY <1>1, ZenonT(30) DEF HandleCommit, SameLocks, Frame, NodeRecords
  <2> HIDE DEF t
  <2>3. Onward(n, S, s, t)
    BY <1>6, <2>2 DEF Onward, More, CommitWarranted, EndWarranted
  <2> QED
    BY <2>1, <2>3, OnwardWithin DEF t
<1> QED
  BY <1>4, <1>5, <1>6

LEMMA PendingWithin ==
  ASSUME NEW n \in Validators, NEW S, NEW G, NEW s, Within(n, S, G, s),
         NEW q \in Seq(Messages), q \in Seq(S \cup s.out)
  PROVE  Within(n, S, G, [s EXCEPT !.pendingMessages = q])
<1>1. s \in NodeRecords /\ Sound(n, s, S)
  BY DEF Sound, Within
<1>2. Sound(n, [s EXCEPT !.pendingMessages = q], S)
  BY <1>1, PendingSound
<1>3. Onward(n, S, s, [s EXCEPT !.pendingMessages = q])
  BY <1>1 DEF Onward, SameLocks, Frame, More, EndWarranted, CommitWarranted, NodeRecords
<1> QED
  BY <1>2, <1>3, OnwardWithin

LEMMA HandleMessageWithin ==
  ASSUME NEW n \in Validators, NEW S, NEW G, NEW s, Within(n, S, G, s),
         NEW m \in Messages, m \in S \cup s.out
  PROVE  Within(n, S, G, HandleMessage(n, s, m))
<1> DEFINE later == [s EXCEPT !.pendingMessages = Append(s.pendingMessages, m),
                              !.roundActive = FALSE]
<1>1. s \in NodeRecords /\ Sound(n, s, S)
  BY DEF Sound, Within
<1>2. ASSUME Future(s, m) PROVE Within(n, S, G, later)
  <2>1. Sound(n, later, S)
    BY <1>1, PostponeSound
  <2>2. /\ later.active = s.active /\ SameLocks(s, later) /\ Frame(s, later)
        /\ later.prevoteByVoter = s.prevoteByVoter /\ later.out = s.out
        /\ later.committed = s.committed /\ later.committedBlock = s.committedBlock
        /\ later.aborted = s.aborted /\ later.precommitSent = s.precommitSent
        /\ later.timers = s.timers
    BY <1>1 DEF SameLocks, Frame, NodeRecords
  <2> HIDE DEF later
  <2>3. Onward(n, S, s, later)
    BY <1>2, <2>2 DEF Onward, More, EndWarranted, CommitWarranted
  <2> QED
    BY <2>1, <2>3, OnwardWithin
<1>3. ~Past(s, m) /\ ~Future(s, m) => Current(s, m)
  <2>1. m.height \in Nat /\ m.round \in Nat /\ s.currentHeight \in Nat /\ s.currentRound \in Nat
    BY <1>1 DEF Messages, VoteMessages, EvidenceMessages, NodeRecords
  <2> QED
    BY <2>1 DEF Past, Future, Current
<1>4. CASE m \in VoteMessages
  <2>1. m.type \in {"Proposal", "Prevote", "Precommit", "Commit"}
    BY <1>4 DEF VoteMessages
  <2>2. m.type = "Proposal" => Within(n, S, G, HandleProposal(n, s, m))
    BY <1>4, HandleProposalWithin
  <2>3. /\ m.type = "Prevote" => Within(n, S, G, HandlePrevote(n, s, m))
        /\ m.type = "Precommit" => Within(n, S, G, HandlePrecommit(n, s, m))
        /\ m.type = "Commit" /\ Current(s, m) => Within(n, S, G, HandleCommit(n, s, m))
    BY <1>4, HandleVoteWithin
  <2> QED
    BY <1>2, <1>3, <2>1, <2>2, <2>3 DEF HandleMessage
<1>5. CASE m \in EvidenceMessages
  <2>1. m.type = "Evidence"
    BY <1>5 DEF EvidenceMessages
  <2>2. Sound(n, Jail(n, s, m.offender), S)
    BY <1>1, <2>1, JailSound DEF Sound, Holds, TrueEvidence
  <2>3. Onward(n, S, s, Jail(n, s, m.offender))
    BY <1>1 DEF Jail, Onward, SameLocks, Frame, More, EndWarranted, CommitWarranted, NodeRecords
  <2>4. Within(n, S, G, HandleEvidence(n, s, m))
    BY <2>2, <2>3, OnwardWithin DEF HandleEvidence
  <2> QED
    BY <1>2, <2>1, <2>4 DEF HandleMessage
<1> QED
  BY <1>4, <1>5 DEF Messages

LEMMA HandleEventWithin ==
  ASSUME NEW n \in Validators, NEW S, NEW G, NEW s, Within(n, S, G, s),
         NEW stage \in Stages, stage \in s.timers
  PROVE  Within(n, S, G, HandleEvent(n, s, stage))
<1> DEFINE fired == [s EXCEPT !.timers = s.timers \ {stage}]
           over  == [fired EXCEPT !.roundActive = FALSE]
<1>1. s \in NodeRecords /\ Sound(n, s, S)
  BY DEF Sound, Within
<1>2. /\ fired \in NodeRecords /\ over \in NodeRecords
      /\ fired.committed = s.committed /\ fired.roundActive = s.roundActive
  BY <1>1, ZenonT(30) DEF NodeRecords
<1>3. ASSUME NEW t, t = fired \/ t = over
      PROVE  /\ Alike(s, t) /\ SameLocks(s, t) /\ t.active = s.active /\ Frame(s, t)
             /\ t.prevoteByVoter = s.prevoteByVoter /\ t.out = s.out
             /\ t.committed = s.committed /\ t.committedBlock = s.committedBlock
             /\ t.aborted = s.aborted /\ t.precommitSent = s.precommitSent
             /\ t.timers \subseteq s.timers
  BY <1>1, <1>3, ZenonT(30) DEF Alike, SameLocks, Frame, NodeRecords
<1> HIDE DEF over, fired
<1>4. /\ Onward(n, S, s, fired)
      /\ stage = "precommit" => Onward(n, S, s, over)
  BY <1>2, <1>3 DEF Onward, More, EndWarranted, CommitWarranted
<1>5. Within(n, S, G, fired) /\ (stage = "precommit" => Within(n, S, G, over))
  BY <1>1, <1>2, <1>3, <1>4, AlikeSound, OnwardWithin
<1>6. \/ OnProposalTimeout(n, fired) = fired
      \/ OnProposalTimeout(n, fired) = SendPrevote(n, fired, Nil)
  BY DEF OnProposalTimeout
<1>7. \/ OnPrevoteTimeout(n, fired) = fired
      \/ OnPrevoteTimeout(n, fired) = SendPrecommit(n, fired, Nil)
  BY DEF OnPrevoteTimeout
<1>8. OnPrecommitTimeout(n, fired) = fired \/ OnPrecommitTimeout(n, fired) = over
  BY DEF OnPrecommitTimeout, over
<1>9. Within(n, S, G, SendPrevote(n, fired, Nil)) /\ Within(n, S, G, SendPrecommit(n, fired, Nil))
  BY <1>5, SendPrevoteWithin, SendPrecommitWithin
<1> QED
  BY <1>5, <1>6, <1>7, <1>8, <1>9 DEF HandleEvent, Stages, fired

\* A round, from its opening to the message loop.
LEMMA RunRoundWithin ==
  ASSUME NEW n \in Validators, NEW S, NEW G, NEW r \in Nat, NEW s \in NodeRecords,
         Within(n, S, G, Opened(s, r))
  PROVE  Within(n, S, G, RunRound(n, s, r))
<1> DEFINE opened   == ScheduleStageTimeout(Opened(s, r), "proposal")
           proposal == Msg("Proposal", n, opened, SelectProposalBlock(opened))
           proposer == ProposerFor(n, s.jailedPeers, s.currentHeight, r)
<1>1. Within(n, S, G, opened)
  BY ScheduleWithin DEF Stages
<1>2. /\ opened.jailedPeers = s.jailedPeers
      /\ opened.currentHeight = s.currentHeight /\ opened.currentRound = r
  <2>1. /\ Opened(s, r) \in NodeRecords /\ Opened(s, r).jailedPeers = s.jailedPeers
        /\ Opened(s, r).currentHeight = s.currentHeight /\ Opened(s, r).currentRound = r
    BY OpenedShape
  <2> QED
    BY <2>1 DEF ScheduleStageTimeout, NodeRecords
<1> HIDE DEF opened
<1>3. opened \in NodeRecords /\ Sound(n, opened, S)
  BY <1>1 DEF Sound, Within
<1>4. /\ proposal \in VoteMessages /\ proposal \in Messages
      /\ proposal.from = n /\ proposal.type = "Proposal"
      /\ Current(opened, proposal) /\ proposal.block = SelectProposalBlock(opened)
  BY <1>3, BlockType, MsgType DEF Messages, Msg, Current
<1> HIDE DEF proposal
<1>5. Sound(n, Broadcast(opened, proposal), S)
  BY <1>3, <1>4, SaySound
<1>6. CASE n = proposer
  <2>1. MayPropose(n, opened.currentHeight, opened.currentRound)
    BY <1>2, <1>3, <1>6 DEF MayPropose, Sound, Holds
  <2>2. Within(n, S, G, Broadcast(opened, proposal))
    BY <1>1, <1>4, <1>5, <2>1, TellWithin DEF Warranted
  <2>3. proposal \in S \cup Broadcast(opened, proposal).out
    BY <1>3 DEF Broadcast, NodeRecords
  <2>4. Within(n, S, G, HandleProposal(n, Broadcast(opened, proposal), proposal))
    BY <1>4, <2>2, <2>3, HandleProposalWithin
  <2> QED
    BY <1>1, <1>6, <2>4 DEF RunRound, Opened, proposal, proposer, opened
<1> QED
  BY <1>1, <1>6 DEF RunRound, Opened, proposal, proposer, opened
-----------------------------------------------------------------------------
\* What the locks of s, and its commit, have behind them in the messages K.
Justified(s, K) ==
  /\ s.lockedBlock # Nil => PolkaIn(K, "Prevote", s.lockedHeight, s.lockedRound, s.lockedBlock)
  /\ s.validBlock # Nil => PolkaIn(K, "Prevote", s.validHeight, s.validRound, s.validBlock)

Behind(s, h, r) == h < s.currentHeight \/ (h = s.currentHeight /\ r <= s.currentRound)

LocksBehind(s) ==
  /\ s.lockedBlock # Nil => Behind(s, s.lockedHeight, s.lockedRound)
  /\ s.validBlock # Nil => Behind(s, s.validHeight, s.validRound)

\* A lock of this round has the votes that are still counted behind it: a second
\* quorum, which double-signers could bring about among the messages, cannot be counted.
RoundQuorum(s) ==
  /\ s.lockedBlock # Nil /\ s.lockedHeight = s.currentHeight /\ s.lockedRound = s.currentRound
     => PowerFor(s.prevoteByVoter, s.lockedBlock) >= QuorumOf(Total)
  /\ s.validBlock # Nil /\ s.validHeight = s.currentHeight /\ s.validRound = s.currentRound
     => PowerFor(s.prevoteByVoter, s.validBlock) >= QuorumOf(Total)

StillLocked(n, s, K) ==
  \A m \in K :
    /\ m.type = "Precommit" /\ m.from = n /\ n \notin Equivocators
    /\ m.height = s.currentHeight /\ m.block # Nil
    => \/ /\ s.lockedBlock # Nil /\ s.lockedHeight = s.currentHeight
          /\ s.lockedRound > m.round \/ (s.lockedRound = m.round /\ s.lockedBlock = m.block)
       \/ \E r \in m.round + 1 .. s.currentRound : PolkaIn(K, "Prevote", m.height, r, Nil)

OwnCommit(s, K) ==
  s.committed => /\ s.committedBlock # Nil
                 /\ PolkaIn(K, "Precommit", s.currentHeight, s.currentRound, s.committedBlock)

RecordFacts(n, s, K) ==
  /\ Justified(s, K)
  /\ LocksBehind(s)
  /\ s.active => RoundQuorum(s)
  /\ StillLocked(n, s, K)
  /\ OwnCommit(s, K)

\* p proposes, in the round of m, the block of m.
ProposedAs(p, m) ==
  p.type = "Proposal" /\ p.height = m.height /\ p.round = m.round /\ p.block = m.block

\* What precommits, commits, prevotes and proposals have behind them.
MessageFacts(K) ==
  /\ \A m \in K : m.type = "Precommit" /\ m.from \notin Equivocators /\ m.block # Nil =>
       PolkaIn(K, "Prevote", m.height, m.round, m.block)
  /\ \A m \in K : m.type = "Commit" =>
       m.block # Nil /\ PolkaIn(K, "Precommit", m.height, m.round, m.block)
  /\ \A m \in K : m.type = "Prevote" /\ m.from \notin Equivocators /\ m.block # Nil =>
       \E p \in K : ProposedAs(p, m)
  /\ \A m \in K : m.type = "Proposal" => MayPropose(m.from, m.height, m.round)

\* No precommit among K keeps n from a prevote for b in round r.
FreeIn(K, n, h, r, b) ==
  \A m \in K :
    m.type = "Precommit" /\ m.from = n /\ m.height = h /\ m.block \notin {Nil, b} =>
      \E q \in m.round + 1 .. r, c \in (Blocks \cup {Nil}) \ {m.block} :
        PolkaIn(K, "Prevote", h, q, c)

\* The prevotes cast in the handler of s, which the messages S came before.
NewFree(n, s, S) ==
  \A m \in s.out : m.type = "Prevote" /\ n \notin Equivocators /\ m.block # Nil =>
    FreeIn(S, n, m.height, m.round, m.block)

OutNow(s) == \A m \in s.out : Current(s, m)

LockFacts(n, s, S) ==
  /\ RecordFacts(n, s, S \cup s.out)
  /\ MessageFacts(S \cup s.out)
  /\ NewFree(n, s, S)
  /\ OutNow(s)

\* The valid block of s, as seen from an earlier record o.
Forward(o, s) ==
  o.validBlock # Nil /\ o.validHeight = o.currentHeight /\ s.currentHeight = o.currentHeight =>
    /\ s.validBlock # Nil /\ s.validHeight = o.validHeight
    /\ \/ s.validBlock = o.validBlock /\ s.validRound >= o.validRound
       \/ s.validRound > o.validRound

LEMMA FactsGrow ==
  ASSUME NEW n, NEW L, NEW K \in SUBSET L, NEW s \in NodeRecords, RecordFacts(n, s, K),
         NEW t, SameLocks(s, t),
         t.currentHeight = s.currentHeight, t.currentRound = s.currentRound,
         t.active => s.active /\ More(s.prevoteByVoter, t.prevoteByVoter),
         OwnCommit(t, L),
         \A m \in L \ K : m.type = "Precommit" /\ m.from = n /\ n \notin Equivocators
                            /\ m.block # Nil =>
           /\ s.lockedBlock = m.block
           /\ s.lockedHeight = s.currentHeight /\ s.lockedRound = m.round
  PROVE  RecordFacts(n, t, L)
<1>1. Justified(t, L)
  BY PolkaGrows DEF RecordFacts, Justified, SameLocks
<1>2. LocksBehind(t)
  BY DEF RecordFacts, LocksBehind, Behind, SameLocks
<1>3. t.active => RoundQuorum(t)
  <2>1. s.lockedBlock \in Blocks \cup {Nil} /\ s.validBlock \in Blocks \cup {Nil}
    BY DEF NodeRecords
  <2> QED
    BY <2>1, QuorumStays DEF RecordFacts, RoundQuorum, SameLocks
<1>4. StillLocked(n, t, L)
  <2> SUFFICES ASSUME NEW m \in L, m.type = "Precommit", m.from = n, n \notin Equivocators,
                      m.height = s.currentHeight, m.block # Nil
               PROVE  \/ /\ s.lockedBlock # Nil /\ s.lockedHeight = s.currentHeight
                         /\ \/ s.lockedRound > m.round
                            \/ s.lockedRound = m.round /\ s.lockedBlock = m.block
                      \/ \E r \in m.round + 1 .. s.currentRound :
                           PolkaIn(L, "Prevote", m.height, r, Nil)
    BY DEF StillLocked, SameLocks
  <2>1. CASE m \in K
    BY <2>1, PolkaGrows DEF RecordFacts, StillLocked
  <2>2. CASE m \notin K
    BY <2>2
  <2> QED
    BY <2>1, <2>2
<1> QED
  BY <1>1, <1>2, <1>3, <1>4 DEF RecordFacts

LEMMA MessageFactsGrow ==
  ASSUME NEW L, NEW K \in SUBSET L, MessageFacts(K),
         \A m \in L \ K :
           /\ m.type = "Precommit" /\ m.from \notin Equivocators /\ m.block # Nil =>
                PolkaIn(K, "Prevote", m.height, m.round, m.block)
           /\ m.type = "Commit" =>
                m.block # Nil /\ PolkaIn(K, "Precommit", m.height, m.round, m.block)
           /\ m.type = "Prevote" /\ m.from \notin Equivocators /\ m.block # Nil =>
                \E p \in K : ProposedAs(p, m)
           /\ m.type = "Proposal" => MayPropose(m.from, m.height, m.round)
  PROVE  MessageFacts(L)
<1> USE PolkaGrows DEF MessageFacts
<1>1. \A m \in L : m.type = "Precommit" /\ m.from \notin Equivocators /\ m.block # Nil =>
        PolkaIn(L, "Prevote", m.height, m.round, m.block)
  OBVIOUS
<1>2. \A m \in L : m.type = "Commit" =>
        m.block # Nil /\ PolkaIn(L, "Precommit", m.height, m.round, m.block)
  OBVIOUS
<1>3. \A m \in L : m.type = "Prevote" /\ m.from \notin Equivocators /\ m.block # Nil =>
        \E p \in L : ProposedAs(p, m)
  OBVIOUS
<1>4. \A m \in L : m.type = "Proposal" => MayPropose(m.from, m.height, m.round)
  OBVIOUS
<1> QED
  BY <1>1, <1>2, <1>3, <1>4
-----------------------------------------------------------------------------
\* A prevote for a block is free of the precommits of its voter: the lock that
\* stands behind each has moved on, or was released.
LEMMA FreeToPrevote ==
  ASSUME NEW n \in Validators \ Equivocators, NEW S, NEW s, Sound(n, s, S),
         RecordFacts(n, s, S \cup s.out), OutNow(s), ~s.prevoteSent,
         NEW b \in Blocks, s.lockedBlock \in {Nil, b}
  PROVE  FreeIn(S, n, s.currentHeight, s.currentRound, b)
<1> DEFINE K == S \cup s.out
<1>1. /\ s \in NodeRecords /\ s.currentHeight \in Nat /\ s.currentRound \in Nat
      /\ s.lockedRound \in Nat
  BY DEF Sound, NodeRecords
<1>2. \A m \in s.out : m.type # "Prevote"
  <2> SUFFICES ASSUME NEW m \in s.out, m.type = "Prevote" PROVE FALSE
    OBVIOUS
  <2>1. Current(s, m) /\ m.from = n /\ m \in K
    BY DEF OutNow, Sound
  <2>2. Past(s, m)
    BY <2>1 DEF Sound, Holds, NotAhead, Votes
  <2> QED
    BY <1>1, <2>1, <2>2 DEF Past, Current
<1>3. \A h, r, c : PolkaIn(K, "Prevote", h, r, c) => PolkaIn(S, "Prevote", h, r, c)
  <2>1. \A h, r, c : VotersIn(K, "Prevote", h, r, c) = VotersIn(S, "Prevote", h, r, c)
    BY <1>2 DEF VotersIn
  <2> QED
    BY <2>1 DEF PolkaIn
<1> HIDE DEF K
<1> SUFFICES ASSUME NEW m \in S, m.type = "Precommit", m.from = n,
                    m.height = s.currentHeight, m.block \notin {Nil, b}
             PROVE  \E q \in m.round + 1 .. s.currentRound, c \in (Blocks \cup {Nil}) \ {m.block} :
                      PolkaIn(S, "Prevote", s.currentHeight, q, c)
  BY DEF FreeIn
<1>4. m.round \in Nat
  BY DEF Sound, Messages, VoteMessages, EvidenceMessages
<1>5. \/ /\ s.lockedBlock # Nil /\ s.lockedHeight = s.currentHeight
         /\ s.lockedRound > m.round \/ (s.lockedRound = m.round /\ s.lockedBlock = m.block)
      \/ \E r \in m.round + 1 .. s.currentRound : PolkaIn(K, "Prevote", m.height, r, Nil)
  BY DEF RecordFacts, StillLocked, K
<1>6. CASE /\ s.lockedBlock # Nil /\ s.lockedHeight = s.currentHeight
           /\ s.lockedRound > m.round \/ (s.lockedRound = m.round /\ s.lockedBlock = m.block)
  <2>1. s.lockedBlock = b /\ s.lockedRound > m.round
    BY <1>6
  <2>2. s.lockedRound \in m.round + 1 .. s.currentRound
    BY <1>1, <1>4, <1>6, <2>1 DEF RecordFacts, LocksBehind, Behind
  <2>3. PolkaIn(S, "Prevote", s.currentHeight, s.lockedRound, b)
    BY <1>3, <1>6, <2>1 DEF RecordFacts, Justified, K
  <2> QED
    BY <2>2, <2>3
<1>7. CASE \E r \in m.round + 1 .. s.currentRound : PolkaIn(K, "Prevote", m.height, r, Nil)
  BY <1>3, <1>7
<1> QED
  BY <1>5, <1>6, <1>7

\* A step that leaves the locks alone leaves what they stand on alone, and what it
\* broadcasts stands on them.
LEMMA OnwardFacts ==
  ASSUME QuorumKept, NEW n \in Validators, NEW S, NEW s, Sound(n, s, S), LockFacts(n, s, S),
         NEW t, Sound(n, t, S), Onward(n, S, s, t), t.active => s.active
  PROVE  LockFacts(n, t, S)
<1> DEFINE K == S \cup s.out
           L == S \cup t.out
           h == s.currentHeight
           r == s.currentRound
<1>1. /\ s \in NodeRecords /\ t \in NodeRecords /\ K \in SUBSET L /\ L \ K \subseteq t.out \ s.out
      /\ t.currentHeight = h /\ t.currentRound = r
  BY DEF Sound, Onward, Frame
<1>2. RecordFacts(n, s, K) /\ MessageFacts(K) /\ NewFree(n, s, S) /\ OutNow(s)
  BY DEF LockFacts
<1>3. \A b \in Blocks \cup {Nil} : Reached(n, s, s.precommitByVoter, b) =>
        PolkaIn(K, "Precommit", h, r, b)
  BY CountedPolka DEF Reached
<1>4. ASSUME NEW m \in t.out \ s.out
      PROVE  /\ m \in Messages /\ m.from = n /\ Current(s, m) /\ Warranted(n, s, K, m)
             /\ m.type \in {"Proposal", "Prevote", "Precommit", "Commit"} =>
                  m.block \in Blocks \cup {Nil}
  BY <1>1 DEF Sound, Onward, NodeRecords, Messages, VoteMessages, EvidenceMessages
<1> HIDE DEF K, L
<1>5. OwnCommit(t, L)
  <2> SUFFICES ASSUME t.committed
               PROVE  t.committedBlock # Nil /\ PolkaIn(K, "Precommit", h, r, t.committedBlock)
    BY <1>1, PolkaGrows DEF OwnCommit
  <2>1. t.committedBlock \in Blocks \cup {Nil}
    BY <1>1 DEF NodeRecords
  <2>2. CommitWarranted(n, s, K, t)
    BY DEF Onward, K
  <2>3. \A m \in K : m.type = "Commit" /\ Current(s, m) =>
          m.block # Nil /\ PolkaIn(K, "Precommit", h, r, m.block)
    BY <1>2 DEF MessageFacts, Current
  <2> QED
    BY <1>2, <1>3, <2>1, <2>2, <2>3 DEF CommitWarranted, RecordFacts, OwnCommit
<1>6. RecordFacts(n, t, L)
  <2>1. \A m \in L \ K : m.type = "Precommit" /\ m.from = n /\ n \notin Equivocators
                           /\ m.block # Nil =>
          /\ s.lockedBlock = m.block
          /\ s.lockedHeight = s.currentHeight /\ s.lockedRound = m.round
    BY <1>1, <1>4 DEF Warranted, Current
  <2>2. SameLocks(s, t) /\ More(s.prevoteByVoter, t.prevoteByVoter)
    BY DEF Onward
  <2> QED
    BY <1>1, <1>2, <1>5, <2>1, <2>2, FactsGrow
<1>7. MessageFacts(L)
  <2>1. ASSUME NEW m \in L \ K
        PROVE  /\ m.type = "Precommit" /\ m.from \notin Equivocators /\ m.block # Nil =>
                    PolkaIn(K, "Prevote", m.height, m.round, m.block)
               /\ m.type = "Commit" =>
                    m.block # Nil /\ PolkaIn(K, "Precommit", m.height, m.round, m.block)
               /\ m.type = "Prevote" /\ m.from \notin Equivocators /\ m.block # Nil =>
                    \E p \in K : ProposedAs(p, m)
               /\ m.type = "Proposal" => MayPropose(m.from, m.height, m.round)
    <3>1. m.height = h /\ m.round = r /\ m.from = n /\ Warranted(n, s, K, m)
      BY <1>1, <1>4 DEF Current
    <3>2. m.type = "Precommit" /\ n \notin Equivocators /\ m.block # Nil =>
            PolkaIn(K, "Prevote", h, r, m.block)
      BY <1>2, <3>1 DEF Warranted, RecordFacts, Justified
    <3>3. m.type = "Commit" => m.block # Nil /\ PolkaIn(K, "Precommit", h, r, m.block)
      BY <1>1, <1>3, <1>4, <3>1 DEF Warranted
    <3>4. m.type = "Prevote" /\ n \notin Equivocators /\ m.block # Nil =>
            \E p \in K : ProposedAs(p, m)
      BY <3>1 DEF Warranted, Current, ProposedAs
    <3>5. m.type = "Proposal" => MayPropose(n, h, r)
      BY <3>1 DEF Warranted
    <3> QED
      BY <3>1, <3>2, <3>3, <3>4, <3>5
  <2> QED
    BY <1>1, <1>2, <2>1, MessageFactsGrow
<1>8. NewFree(n, t, S)
  <2> SUFFICES ASSUME NEW m \in t.out \ s.out, m.type = "Prevote", n \notin Equivocators,
                      m.block # Nil
               PROVE  FreeIn(S, n, m.height, m.round, m.block)
    BY <1>2 DEF NewFree
  <2>1. /\ ~s.prevoteSent /\ s.lockedBlock \in {Nil, m.block} /\ m.block \in Blocks
        /\ m.height = h /\ m.round = r
    BY <1>4 DEF Warranted, Current
  <2>2. FreeIn(S, n, h, r, m.block)
    BY <1>2, <2>1, FreeToPrevote DEF K
  <2> QED
    BY <2>1, <2>2
<1>9. OutNow(t)
  BY <1>1, <1>2, <1>4 DEF OutNow, Current
<1> QED
  BY <1>6, <1>7, <1>8, <1>9 DEF LockFacts, L

\* A quorum for another block cannot be counted in the round of a lock.
LEMMA OneLock ==
  ASSUME QuorumKept, NEW n \in Validators, NEW S, NEW s, Sound(n, s, S), LockFacts(n, s, S),
         s.active, NEW b \in Blocks \cup {Nil}, Reached(n, s, s.prevoteByVoter, b)
  PROVE  /\ PowerFor(s.prevoteByVoter, b) >= QuorumOf(Total)
         /\ PolkaIn(S \cup s.out, "Prevote", s.currentHeight, s.currentRound, b)
         /\ \A m \in S \cup s.out :
              /\ m.type = "Precommit" /\ m.from = n /\ n \notin Equivocators
              /\ m.height = s.currentHeight /\ m.block # Nil
              => m.round < s.currentRound \/ (m.round = s.currentRound /\ m.block = b)
         /\ /\ s.validBlock # Nil /\ s.validHeight = s.currentHeight
            /\ s.validRound = s.currentRound
            => s.validBlock = b
<1>1. /\ PowerFor(s.prevoteByVoter, b) >= QuorumOf(Total)
      /\ PolkaIn(S \cup s.out, "Prevote", s.currentHeight, s.currentRound, b)
  BY CountedPolka DEF Reached
<1>2. RoundQuorum(s) /\ LocksBehind(s) /\ StillLocked(n, s, S \cup s.out)
  BY DEF LockFacts, RecordFacts
<1>3. s.currentHeight \in Nat /\ s.currentRound \in Nat /\ s.lockedRound \in Nat
  BY DEF Sound, NodeRecords
<1>4. ASSUME NEW m \in S \cup s.out, m.type = "Precommit", m.from = n, n \notin Equivocators,
             m.height = s.currentHeight, m.block # Nil, ~(m.round < s.currentRound)
      PROVE  m.round = s.currentRound /\ m.block = b
  <2>1. m.round = s.currentRound
    BY <1>3, <1>4 DEF Sound, Holds, NotAhead, Votes, Past, Current
  <2>2. s.lockedBlock = m.block /\ s.lockedHeight = s.currentHeight
        /\ s.lockedRound = s.currentRound
    BY <1>2, <1>3, <1>4, <2>1 DEF StillLocked, LocksBehind, Behind
  <2>3. PowerFor(s.prevoteByVoter, m.block) >= QuorumOf(Total)
    BY <1>2, <1>4, <2>2 DEF RoundQuorum
  <2> QED
    BY <1>1, <2>1, <2>3, OneQuorum
<1>5. /\ s.validBlock # Nil /\ s.validHeight = s.currentHeight /\ s.validRound = s.currentRound
      => s.validBlock = b
  BY <1>1, <1>2, OneQuorum DEF RoundQuorum
<1> QED
  BY <1>1, <1>4, <1>5

LEMMA LocksShape ==
  ASSUME NEW s \in NodeRecords, NEW b \in Blocks \cup {Nil},
         NEW t, b # Nil => t = LockedOn(s, b), b = Nil => t = Unlocked(s)
  PROVE  /\ t \in NodeRecords /\ t.currentHeight = s.currentHeight
         /\ t.currentRound = s.currentRound
         /\ t.active = s.active /\ t.out = s.out /\ t.prevoteByVoter = s.prevoteByVoter
         /\ t.committed = s.committed /\ t.committedBlock = s.committedBlock
         /\ b # Nil => /\ t.lockedBlock = b /\ t.lockedRound = s.currentRound
                       /\ t.lockedHeight = s.currentHeight /\ t.validBlock = b
                       /\ t.validRound = s.currentRound
                       /\ t.validHeight = s.currentHeight
         /\ b = Nil => /\ t.lockedBlock = Nil /\ t.validBlock = s.validBlock
                       /\ t.validRound = s.validRound /\ t.validHeight = s.validHeight
<1>1. CASE b # Nil
  <2>1. t = LockedOn(s, b) /\ b \in Blocks
    BY <1>1
  <2>2. t \in NodeRecords
    BY <2>1 DEF LockedOn, NodeRecords
  <2> QED
    BY <1>1, <2>1, <2>2 DEF LockedOn, NodeRecords
<1>2. CASE b = Nil
  <2>1. t = Unlocked(s)
    BY <1>2
  <2>2. t \in NodeRecords
    BY <2>1 DEF Unlocked, NodeRecords
  <2> QED
    BY <1>2, <2>1, <2>2 DEF Unlocked, NodeRecords
<1> QED
  BY <1>1, <1>2

LEMMA LocksFacts ==
  ASSUME QuorumKept, NEW n \in Validators, NEW S, NEW s, Sound(n, s, S), LockFacts(n, s, S),
         s.active, NEW t, Locks(n, s, t) \/ Unlocks(n, s, t)
  PROVE  /\ LockFacts(n, t, S) /\ t.active = s.active /\ t.currentHeight = s.currentHeight
         /\ \/ /\ t.validBlock = s.validBlock /\ t.validRound = s.validRound
               /\ t.validHeight = s.validHeight
            \/ /\ t.validBlock # Nil /\ t.validHeight = s.currentHeight
               /\ t.validRound = s.currentRound
               /\ s.validBlock # Nil /\ s.validHeight = s.currentHeight
                    /\ s.validRound = s.currentRound => t.validBlock = s.validBlock
<1> DEFINE K == S \cup s.out
           h == s.currentHeight
           r == s.currentRound
<1>1. /\ s \in NodeRecords /\ h \in Nat /\ r \in Nat
      /\ RecordFacts(n, s, K) /\ MessageFacts(K) /\ NewFree(n, s, S) /\ OutNow(s)
  BY DEF Sound, LockFacts, NodeRecords
<1>2. PICK b \in Blocks \cup {Nil} :
        /\ Reached(n, s, s.prevoteByVoter, b)
        /\ b # Nil => t = LockedOn(s, b)
        /\ b = Nil => t = Unlocked(s)
  BY NilAssumption DEF Locks, Unlocks
<1>3. /\ PowerFor(s.prevoteByVoter, b) >= QuorumOf(Total)
      /\ PolkaIn(K, "Prevote", h, r, b)
      /\ \A m \in K : /\ m.type = "Precommit" /\ m.from = n /\ n \notin Equivocators
                      /\ m.height = h /\ m.block # Nil
                      => m.round < r \/ (m.round = r /\ m.block = b)
      /\ s.validBlock # Nil /\ s.validHeight = h /\ s.validRound = r => s.validBlock = b
  BY <1>2, OneLock, ZenonT(30)
<1>4. /\ t \in NodeRecords /\ t.currentHeight = h /\ t.currentRound = r
      /\ t.active = s.active /\ t.out = s.out /\ t.prevoteByVoter = s.prevoteByVoter
      /\ t.committed = s.committed /\ t.committedBlock = s.committedBlock
      /\ b # Nil => /\ t.lockedBlock = b /\ t.lockedRound = r /\ t.lockedHeight = h
                    /\ t.validBlock = b /\ t.validRound = r /\ t.validHeight = h
      /\ b = Nil => /\ t.lockedBlock = Nil /\ t.validBlock = s.validBlock
                    /\ t.validRound = s.validRound /\ t.validHeight = s.validHeight
  <2>1. s \in NodeRecords /\ (b # Nil => t = LockedOn(s, b)) /\ (b = Nil => t = Unlocked(s))
    BY <1>1, <1>2
  <2>2. t.active = s.active
    BY <2>1, LocksShape
  <2>3. /\ t \in NodeRecords /\ t.currentHeight = h /\ t.currentRound = r
        /\ t.out = s.out /\ t.prevoteByVoter = s.prevoteByVoter
        /\ t.committed = s.committed /\ t.committedBlock = s.committedBlock
    BY <2>1, LocksShape
  <2>4. /\ b # Nil => /\ t.lockedBlock = b /\ t.lockedRound = r /\ t.lockedHeight = h
                      /\ t.validBlock = b /\ t.validRound = r /\ t.validHeight = h
        /\ b = Nil => /\ t.lockedBlock = Nil /\ t.validBlock = s.validBlock
                      /\ t.validRound = s.validRound /\ t.validHeight = s.validHeight
    BY <2>1, LocksShape
  <2> QED
    BY <2>2, <2>3, <2>4
<1> HIDE DEF K
<1>5. Justified(t, K) /\ LocksBehind(t) /\ RoundQuorum(t) /\ OwnCommit(t, K)
  BY <1>1, <1>3, <1>4
     DEF RecordFacts, Justified, LocksBehind, Behind, RoundQuorum, OwnCommit
<1>6. StillLocked(n, t, K)
  <2> SUFFICES ASSUME NEW m \in K, m.type = "Precommit", m.from = n, n \notin Equivocators,
                      m.height = h, m.block # Nil
               PROVE  \/ /\ t.lockedBlock # Nil /\ t.lockedHeight = h
                         /\ \/ t.lockedRound > m.round
                            \/ t.lockedRound = m.round /\ t.lockedBlock = m.block
                      \/ \E q \in m.round + 1 .. r : PolkaIn(K, "Prevote", m.height, q, Nil)
    BY <1>4 DEF StillLocked
  <2>1. m.round \in Nat
    BY DEF Sound, NodeRecords, Messages, VoteMessages, EvidenceMessages, K
  <2>2. m.round < r \/ (m.round = r /\ m.block = b)
    BY <1>3
  <2>3. CASE b # Nil
    BY <1>1, <1>4, <2>1, <2>2, <2>3
  <2>4. CASE b = Nil
    BY <1>1, <1>3, <2>1, <2>2, <2>4
  <2> QED
    BY <2>3, <2>4
<1>7. LockFacts(n, t, S)
  BY <1>1, <1>4, <1>5, <1>6 DEF LockFacts, RecordFacts, NewFree, OutNow, Current, K
<1> QED
  BY <1>3, <1>4, <1>7

\* The records in which a handler of n that began with o can be.
Kept(n, S, o) == {s \in NodeRecords : s.active /\ LockFacts(n, s, S) /\ Forward(o, s)}

LEMMA KeptClosed ==
  ASSUME QuorumKept, NEW n \in Validators, NEW S, NEW o \in NodeRecords
  PROVE  Closed(n, S, Kept(n, S, o))
<1> SUFFICES ASSUME NEW s \in Kept(n, S, o), NEW t \in NodeRecords,
                    Sound(n, s, S), Sound(n, t, S), Step(n, S, s, t)
             PROVE  t \in Kept(n, S, o)
  BY DEF Closed
<1>1. s \in NodeRecords /\ s.active /\ LockFacts(n, s, S) /\ Forward(o, s)
  BY DEF Kept
<1>2. CASE Onward(n, S, s, t)
  <2>1. t.active /\ SameLocks(s, t) /\ t.currentHeight = s.currentHeight
    BY <1>1, <1>2 DEF Onward, Frame
  <2>2. Forward(o, t)
    BY <1>1, <2>1 DEF Forward, SameLocks
  <2> QED
    BY <1>1, <1>2, <2>1, <2>2, OnwardFacts DEF Kept
<1>3. CASE Locks(n, s, t) \/ Unlocks(n, s, t)
  <2>1. /\ LockFacts(n, t, S) /\ t.active /\ t.currentHeight = s.currentHeight
        /\ \/ /\ t.validBlock = s.validBlock /\ t.validRound = s.validRound
              /\ t.validHeight = s.validHeight
           \/ /\ t.validBlock # Nil /\ t.validHeight = s.currentHeight
              /\ t.validRound = s.currentRound
              /\ s.validBlock # Nil /\ s.validHeight = s.currentHeight
                   /\ s.validRound = s.currentRound => t.validBlock = s.validBlock
    BY <1>1, <1>3, LocksFacts
  <2>2. /\ s.validRound \in Nat /\ s.currentRound \in Nat /\ o.validRound \in Nat
        /\ s.currentHeight \in Nat /\ t.validRound \in Nat
    BY <1>1 DEF NodeRecords
  <2>3. s.validBlock # Nil /\ s.validHeight = s.currentHeight => s.validRound <= s.currentRound
    BY <1>1, <2>2 DEF LockFacts, RecordFacts, LocksBehind, Behind
  <2>4. Forward(o, t)
    BY <1>1, <2>1, <2>2, <2>3 DEF Forward
  <2> QED
    BY <2>1, <2>4 DEF Kept
<1> QED
  BY <1>2, <1>3 DEF Step

\* A round is opened with the locks of the rounds before.
LEMMA OpenedFacts ==
  ASSUME NEW n \in Validators, NEW S, NEW s \in NodeRecords, s.out = {}, NEW r \in Nat,
         RecordFacts(n, s, S), MessageFacts(S), ~s.committed, s.currentRound < r,
         NEW t, SameLocks(s, t), t.currentHeight = s.currentHeight, t.currentRound = r,
         t.out = {}, ~t.committed
  PROVE  LockFacts(n, t, S)
<1>1. S \cup s.out = S /\ S \cup t.out = S
  OBVIOUS
<1>2. /\ s.currentHeight \in Nat /\ s.currentRound \in Nat
      /\ s.lockedRound \in Nat /\ s.validRound \in Nat
  BY DEF NodeRecords
<1>3. Justified(t, S) /\ OwnCommit(t, S)
  BY DEF RecordFacts, Justified, OwnCommit, SameLocks
<1>4. LocksBehind(s)
  BY DEF RecordFacts
<1>5. LocksBehind(t)
  BY <1>2, <1>4 DEF LocksBehind, Behind, SameLocks
<1>6. RoundQuorum(t)
  BY <1>2, <1>4 DEF LocksBehind, Behind, RoundQuorum, SameLocks
<1>7. StillLocked(n, t, S)
  <2>1. \A q : s.currentRound < r =>
          \A i \in q + 1 .. s.currentRound : i \in q + 1 .. r
    BY <1>2
  <2> QED
    BY <2>1 DEF RecordFacts, StillLocked, SameLocks
<1> QED
  BY <1>1, <1>3, <1>5, <1>6, <1>7 DEF LockFacts, RecordFacts, NewFree, OutNow
-----------------------------------------------------------------------------
\* The records from which a handler of n sets out.
Opens(n, o) ==
  LET s == node[n]
  IN  \/ s.active /\ o = s
      \/ /\ s.active /\ ~s.roundActive /\ s.currentRound < MaxRound
         /\ o = Opened(Escalated(s), s.currentRound + 1)
      \/ /\ s.currentHeight < height /\ ~(s.jailed \/ n \in s.jailedPeers)
         /\ o = Opened(Ready(n, s, height), StartRound)

\* The handler that set out from o ends with s.
Walks(n, o, s) ==
  /\ Sound(n, o, sent) /\ Sound(n, s, sent)
  /\ \A G : Closed(n, sent, G) /\ o \in G => s \in G

\* StartConsensus of a jailed validator.
Declines(n, s) ==
  LET o == node[n]
  IN  /\ o.currentHeight < height /\ (o.jailed \/ n \in o.jailedPeers)
      /\ s = Begun(n, o, height)

LEMMA WithinWalks ==
  ASSUME NEW n, NEW o, NEW s, Sound(n, o, sent), Sound(n, s, sent),
         \A G : Within(n, sent, G, o) => Within(n, sent, G, s)
  PROVE  Walks(n, o, s)
  BY DEF Walks, Within

LEMMA HandlersWalk ==
  ASSUME VotesInv, NEW n \in Validators, Proceed(n) \/ Receive(n)
  PROVE  \E s : /\ \E consumed : Finish(n, s, consumed)
                /\ Ended(n, s, sent)
                /\ Declines(n, s) \/ \E o : Opens(n, o) /\ Walks(n, o, s)
<1> DEFINE o == node[n]
           Goal(s) == /\ \E consumed : Finish(n, s, consumed)
                      /\ Ended(n, s, sent)
                      /\ Declines(n, s) \/ \E r : Opens(n, r) /\ Walks(n, r, s)
<1>1. /\ Sound(n, o, sent) /\ o \in NodeRecords
      /\ inbox[n] \subseteq sent /\ inbox[n] \subseteq Messages /\ height \in Nat
  BY DEF VotesInv, TypeOK
<1>2. ASSUME NEW s, NEW consumed, Finish(n, s, consumed), NEW r, Opens(n, r),
             Sound(n, r, sent), Sound(n, s, sent),
             \A G : Within(n, sent, G, r) => Within(n, sent, G, s)
      PROVE  \E t : Goal(t)
  <2>1. Walks(n, r, s)
    BY <1>2, WithinWalks
  <2>2. Ended(n, s, sent)
    BY <1>2, SoundEnds
  <2> QED
    BY <1>2, <2>1, <2>2
<1> HIDE DEF Goal
<1>3. ASSUME Start(n) PROVE \E t : Goal(t)
  <2> DEFINE s == StartConsensus(n, o, height)
             r == Opened(Ready(n, o, height), StartRound)
  <2>1. o.currentHeight < height /\ Finish(n, s, {})
    BY <1>3 DEF Start
  <2>2. CASE o.jailed \/ n \in o.jailedPeers
    <3>1. Declines(n, s)
      BY <2>1, <2>2, StartSplits DEF Declines
    <3>2. Ended(n, s, sent)
      BY <1>1, <2>1, StartSound
    <3> QED
      BY <2>1, <3>1, <3>2 DEF Goal
  <2>3. CASE ~(o.jailed \/ n \in o.jailedPeers)
    <3>1. MayOpen(n, Ready(n, o, height), StartRound, sent) /\ StartRound \in Nat
      BY <1>1, <2>1, ReadySound, TimeoutAssumption
    <3>2. s = RunRound(n, Ready(n, o, height), StartRound)
      BY <2>3, StartSplits
    <3>3. Sound(n, r, sent) /\ Sound(n, s, sent)
      BY <3>1, <3>2, OpenedSound, RunRoundSound
    <3>4. \A G : Within(n, sent, G, r) => Within(n, sent, G, s)
      BY <3>1, <3>2, RunRoundWithin DEF MayOpen, Sound
    <3>5. Opens(n, r)
      BY <2>1, <2>3 DEF Opens
    <3> HIDE DEF r, s
    <3> QED
      BY <1>2, <2>1, <3>3, <3>4, <3>5
  <2> QED
    BY <2>2, <2>3
<1>4. ASSUME StartNextRound(n) PROVE \E t : Goal(t)
  <2> DEFINE s == NextRound(n, o)
             r == Opened(Escalated(o), o.currentRound + 1)
  <2>1. Finish(n, s, {}) /\ Opens(n, r)
    BY <1>4 DEF StartNextRound, Opens
  <2>2. MayOpen(n, Escalated(o), o.currentRound + 1, sent) /\ o.currentRound + 1 \in Nat
    BY <1>1, EscalatedSound
  <2>3. s = RunRound(n, Escalated(o), o.currentRound + 1)
    BY NextSplits
  <2>4. Sound(n, r, sent) /\ Sound(n, s, sent)
    BY <2>2, <2>3, OpenedSound, RunRoundSound
  <2>5. \A G : Within(n, sent, G, r) => Within(n, sent, G, s)
    BY <2>2, <2>3, RunRoundWithin DEF MayOpen, Sound
  <2> HIDE DEF r, s
  <2> QED
    BY <1>2, <2>1, <2>4, <2>5
<1>5. ASSUME HandlePending(n) PROVE \E t : Goal(t)
  <2> DEFINE q == o.pendingMessages
             p == [o EXCEPT !.pendingMessages = Tail(q)]
             s == HandleMessage(n, p, Head(q))
  <2>1. /\ q \in Seq(Messages) /\ q \in Seq(sent \cup o.out) /\ q # <<>>
        /\ Finish(n, s, {}) /\ Opens(n, o)
    BY <1>1, <1>5 DEF HandlePending, Looping, Opens, NodeRecords, Sound, Holds
  <2>2. /\ Head(q) \in Messages /\ Tail(q) \in Seq(Messages)
        /\ Head(q) \in sent \cup o.out /\ Tail(q) \in Seq(sent \cup o.out)
    BY <2>1
  <2>3. Sound(n, p, sent) /\ p.out = o.out
    BY <1>1, <2>2, PendingSound DEF NodeRecords
  <2>4. \A G : Within(n, sent, G, o) => Within(n, sent, G, p)
    BY <2>2, PendingWithin
  <2> HIDE DEF p
  <2>5. Sound(n, s, sent) /\ \A G : Within(n, sent, G, p) => Within(n, sent, G, s)
    BY <2>2, <2>3, HandleMessageSound, HandleMessageWithin
  <2> HIDE DEF s
  <2> QED
    BY <1>1, <1>2, <2>1, <2>4, <2>5
<1>6. ASSUME Receive(n) PROVE \E t : Goal(t)
  <2>1. PICK m \in inbox[n] : Finish(n, HandleMessage(n, o, m), {m})
    BY <1>6 DEF Receive
  <2>2. Opens(n, o)
    BY <1>6 DEF Receive, Looping, Opens
  <2>3. m \in Messages /\ m \in sent \cup o.out
    BY <1>1
  <2>4. /\ Sound(n, HandleMessage(n, o, m), sent)
        /\ \A G : Within(n, sent, G, o) => Within(n, sent, G, HandleMessage(n, o, m))
    BY <1>1, <2>3, HandleMessageSound, HandleMessageWithin
  <2> QED
    BY <1>1, <1>2, <2>1, <2>2, <2>4
<1>7. ASSUME NEW stage \in Stages, Timeout(n, stage) PROVE \E t : Goal(t)
  <2>1. Finish(n, HandleEvent(n, o, stage), {}) /\ stage \in o.timers /\ Opens(n, o)
    BY <1>7 DEF Timeout, Looping, Opens
  <2>2. /\ Sound(n, HandleEvent(n, o, stage), sent)
        /\ \A G : Within(n, sent, G, o) => Within(n, sent, G, HandleEvent(n, o, stage))
    BY <1>1, <2>1, HandleEventSound, HandleEventWithin
  <2> QED
    BY <1>1, <1>2, <2>1, <2>2
<1>8. \E t : Goal(t)
  BY <1>3, <1>4, <1>5, <1>6, <1>7 DEF Proceed
<1> QED
  BY <1>8 DEF Goal
-----------------------------------------------------------------------------
\* The record that Finish stores.
Done(s) == Returned(Settled([s EXCEPT !.out = {}]))

LEMMA DoneShape ==
  ASSUME NEW s \in NodeRecords
  PROVE  /\ Done(s) \in NodeRecords /\ SameLocks(s, Done(s)) /\ Done(s).out = {}
         /\ Done(s).currentHeight = s.currentHeight /\ Done(s).currentRound = s.currentRound
         /\ Done(s).committed = s.committed /\ Done(s).committedBlock = s.committedBlock
         /\ Done(s).aborted = s.aborted /\ Done(s).roundActive = s.roundActive
         /\ Done(s).prevoteSent = s.prevoteSent
         /\ Done(s).precommitSent = s.precommitSent /\ Done(s).timers \subseteq s.timers
         /\ s.active => Done(s).active \/ s.committed \/ s.aborted
         /\ Done(s).active => /\ s.active /\ ~s.committed /\ ~s.aborted
                              /\ Done(s).prevoteByVoter = s.prevoteByVoter
<1> DEFINE said == [s EXCEPT !.out = {}]
           left == Settled(said)
           back == [left EXCEPT !.active = FALSE, !.timers = {}, !.pendingMessages = <<>>,
                                !.prevoteByVoter = NoVotes, !.precommitByVoter = NoVotes]
           Like(t) == /\ SameLocks(s, t) /\ t.out = {}
                      /\ t.currentHeight = s.currentHeight /\ t.currentRound = s.currentRound
                      /\ t.committedBlock = s.committedBlock /\ t.timers \subseteq s.timers
           Flags(t) == /\ t.committed = s.committed /\ t.aborted = s.aborted
                       /\ t.roundActive = s.roundActive
                       /\ t.prevoteSent = s.prevoteSent /\ t.precommitSent = s.precommitSent
<1>1. /\ said \in NodeRecords /\ Like(said) /\ Flags(said) /\ said.active = s.active
      /\ said.prevoteByVoter = s.prevoteByVoter
  BY DEF NodeRecords, SameLocks
<1> HIDE DEF said
<1>2. left \in NodeRecords
  BY <1>1, SettledType
<1>3. /\ Like(left) /\ Flags(left) /\ left.active = s.active
      /\ left.prevoteByVoter = s.prevoteByVoter
  BY <1>1 DEF Settled, NodeRecords, SameLocks
<1> HIDE DEF left
<1>4. Like(back) /\ Flags(back) /\ ~back.active
  BY <1>2, <1>3 DEF NodeRecords, SameLocks
<1>5. back \in NodeRecords
  <2>1. <<>> \in Seq(Messages)
    OBVIOUS
  <2> QED
    BY <1>2, <2>1, NoVotesType DEF NodeRecords
<1> HIDE DEF back
<1>6. \/ Done(s) = back /\ (~s.active \/ s.committed \/ s.aborted)
      \/ Done(s) = left /\ s.active /\ ~s.committed /\ ~s.aborted
  BY <1>3 DEF Done, Returned, left, said, back
<1> QED
  BY <1>2, <1>3, <1>4, <1>5, <1>6

LockInv ==
  /\ VotesInv
  /\ MessageFacts(sent)
  /\ \A n \in Validators :
       /\ RecordFacts(n, node[n], sent)
       /\ node[n].active => ~node[n].committed /\ ~node[n].aborted

\* A new height begins without a lock.
LEMMA ReadyFacts ==
  ASSUME LockInv, NEW n \in Validators, node[n].currentHeight < height,
         NEW r \in Nat, NEW t, t = Opened(Ready(n, node[n], height), r)
  PROVE  /\ LockFacts(n, t, sent) /\ t \in NodeRecords /\ t.currentHeight = height
         /\ t.active <=> ~(node[n].jailed \/ n \in node[n].jailedPeers)
<1> DEFINE s == node[n]
           q == Ready(n, s, height)
<1>1. /\ s \in NodeRecords /\ Sound(n, s, sent) /\ s.out = {} /\ height \in Nat
      /\ MessageFacts(sent) /\ LocksBehind(s)
  BY DEF LockInv, VotesInv, TypeOK, RecordFacts
<1>2. /\ q \in NodeRecords /\ q.currentHeight = height /\ ~q.committed /\ q.out = {}
      /\ q.active <=> ~(s.jailed \/ n \in s.jailedPeers)
      /\ (s.lockedHeight = height /\ q.lockedBlock = s.lockedBlock) \/ q.lockedBlock = Nil
      /\ (s.validHeight = height /\ q.validBlock = s.validBlock) \/ q.validBlock = Nil
  BY <1>1, ReadyShape
<1>3. q.lockedBlock = Nil /\ q.validBlock = Nil
  <2>1. s.currentHeight \in Nat
    BY <1>1 DEF NodeRecords
  <2> QED
    BY <1>1, <1>2, <2>1 DEF LocksBehind, Behind
<1>4. \A m \in sent : m.from = n /\ m.type \in Votes => m.height < height
  BY <1>1, ReadySound
<1> HIDE DEF q
<1>5. /\ t \in NodeRecords /\ t.currentHeight = height /\ t.active = q.active
      /\ t.lockedBlock = Nil /\ t.validBlock = Nil /\ ~t.committed /\ t.out = {}
  BY <1>2, <1>3, OpenedShape DEF q
<1>6. StillLocked(n, t, sent)
  BY <1>1, <1>4, <1>5 DEF StillLocked, Votes
<1>7. RecordFacts(n, t, sent)
  BY <1>5, <1>6 DEF RecordFacts, Justified, LocksBehind, RoundQuorum, OwnCommit
<1>8. sent \cup t.out = sent
  BY <1>5
<1>9. LockFacts(n, t, sent)
  BY <1>1, <1>5, <1>7, <1>8 DEF LockFacts, NewFree, OutNow
<1> QED
  BY <1>2, <1>5, <1>9

LEMMA OpensFacts ==
  ASSUME LockInv, NEW n \in Validators, NEW o, Opens(n, o)
  PROVE  o \in Kept(n, sent, node[n])
<1> DEFINE s == node[n]
<1>1. /\ s \in NodeRecords /\ Sound(n, s, sent) /\ s.out = {} /\ height \in Nat
      /\ MessageFacts(sent) /\ RecordFacts(n, s, sent)
      /\ s.active => ~s.committed
  BY DEF LockInv, VotesInv, TypeOK
<1>2. /\ s.currentRound \in Nat /\ s.validRound \in Nat /\ s.currentHeight \in Nat
      /\ StartRound \in Nat
  BY <1>1, TimeoutAssumption DEF NodeRecords
<1> HIDE DEF s
<1>3. CASE s.active /\ o = s
  <2>1. sent \cup o.out = sent
    BY <1>1, <1>3
  <2>2. LockFacts(n, o, sent)
    BY <1>1, <1>3, <2>1 DEF LockFacts, NewFree, OutNow
  <2> QED
    BY <1>1, <1>2, <1>3, <2>2 DEF Kept, Forward, s
<1>4. CASE s.active /\ o = Opened(Escalated(s), s.currentRound + 1)
  <2> DEFINE e == Escalated(s)
  <2>1. /\ e \in NodeRecords /\ SameLocks(s, e) /\ e.currentHeight = s.currentHeight
        /\ e.active = s.active /\ e.committed = s.committed /\ e.out = {}
    <3>1. e \in NodeRecords
      BY <1>1, EscalatedSound DEF Sound
    <3> QED
      BY <1>1, <3>1, ZenonT(30) DEF Escalated, SameLocks, NodeRecords
  <2> HIDE DEF e
  <2>2. /\ o \in NodeRecords /\ SameLocks(e, o) /\ o.currentHeight = e.currentHeight
        /\ o.currentRound = s.currentRound + 1
        /\ o.active = e.active /\ o.committed = e.committed /\ o.out = {}
    <3>1. o = Opened(e, s.currentRound + 1) /\ s.currentRound + 1 \in Nat
      BY <1>2, <1>4 DEF e
    <3>2. o.active = e.active
      BY <2>1, <3>1, OpenedShape
    <3>3. o.committed = e.committed
      BY <2>1, <3>1, OpenedShape
    <3>4. /\ o \in NodeRecords /\ SameLocks(e, o) /\ o.currentHeight = e.currentHeight
          /\ o.currentRound = s.currentRound + 1 /\ o.out = {}
      BY <2>1, <3>1, OpenedShape DEF SameLocks
    <3> QED
      BY <3>2, <3>3, <3>4
  <2>3. SameLocks(s, o) /\ o.currentHeight = s.currentHeight /\ o.active /\ ~o.committed
    BY <1>1, <1>4, <2>1, <2>2 DEF SameLocks
  <2>4. s.currentRound < s.currentRound + 1 /\ s.currentRound + 1 \in Nat
    BY <1>2
  <2>5. LockFacts(n, o, sent)
    BY <1>1, <1>4, <2>2, <2>3, <2>4, OpenedFacts
  <2>6. Forward(s, o)
    BY <1>2, <2>3 DEF Forward, SameLocks
  <2> QED
    BY <2>2, <2>3, <2>5, <2>6 DEF Kept, s
<1>5. CASE /\ s.currentHeight < height /\ ~(s.jailed \/ n \in s.jailedPeers)
           /\ o = Opened(Ready(n, s, height), StartRound)
  <2>1. /\ LockFacts(n, o, sent) /\ o \in NodeRecords /\ o.currentHeight = height /\ o.active
    BY <1>2, <1>5, ReadyFacts DEF s
  <2>2. Forward(s, o)
    BY <1>1, <1>2, <1>5, <2>1 DEF Forward
  <2> QED
    BY <2>1, <2>2 DEF Kept, s
<1> QED
  BY <1>3, <1>4, <1>5 DEF Opens, s

\* Every handler ends in a record with the facts.
LEMMA HandlersKeepLocks ==
  ASSUME QuorumKept, LockInv, NEW n \in Validators, Proceed(n) \/ Receive(n)
  PROVE  \E s : /\ \E consumed : Finish(n, s, consumed)
                /\ Ended(n, s, sent) /\ LockFacts(n, s, sent) /\ Forward(node[n], s)
<1> DEFINE o == node[n]
<1>1. /\ VotesInv /\ o \in NodeRecords /\ Sound(n, o, sent) /\ o.out = {} /\ height \in Nat
      /\ MessageFacts(sent) /\ RecordFacts(n, o, sent)
  BY DEF LockInv, VotesInv, TypeOK
<1>2. PICK s : /\ \E consumed : Finish(n, s, consumed)
               /\ Ended(n, s, sent)
               /\ Declines(n, s) \/ \E q : Opens(n, q) /\ Walks(n, q, s)
  BY <1>1, HandlersWalk
<1>3. CASE \E q : Opens(n, q) /\ Walks(n, q, s)
  <2>1. s \in Kept(n, sent, o)
    BY <1>1, <1>3, OpensFacts, KeptClosed DEF Walks
  <2> QED
    BY <1>2, <2>1 DEF Kept
<1>4. CASE Declines(n, s)
  <2>1. /\ o.currentHeight < height /\ s = Begun(n, o, height)
        /\ o.jailed \/ n \in o.jailedPeers
    BY <1>4 DEF Declines
  <2>2. /\ s \in NodeRecords /\ s.currentHeight = height /\ ~s.committed /\ ~s.active
        /\ s.lockedBlock = o.lockedBlock /\ s.lockedRound = o.lockedRound
        /\ s.lockedHeight = o.lockedHeight /\ s.validBlock = o.validBlock
        /\ s.validRound = o.validRound /\ s.validHeight = o.validHeight /\ s.out = {}
    BY <1>1, <2>1, BegunShape
  <2>3. \A m \in sent : m.from = n /\ m.type \in Votes => m.height < height
    BY <1>1, <2>1, ReadySound
  <2>4. /\ o.currentHeight \in Nat /\ o.lockedHeight \in Nat /\ o.validHeight \in Nat
        /\ sent \cup s.out = sent
    BY <1>1, <2>2 DEF NodeRecords
  <2>5. Justified(s, sent) /\ LocksBehind(s)
    <3>1. Justified(s, sent)
      BY <1>1, <2>2 DEF RecordFacts, Justified
    <3>2. LocksBehind(o)
      BY <1>1 DEF RecordFacts
    <3> QED
      BY <1>1, <2>1, <2>2, <2>4, <3>1, <3>2 DEF LocksBehind, Behind
  <2>6. StillLocked(n, s, sent)
    BY <1>1, <2>2, <2>3 DEF StillLocked, Votes
  <2>7. LockFacts(n, s, sent)
    BY <1>1, <2>2, <2>4, <2>5, <2>6 DEF LockFacts, RecordFacts, OwnCommit, NewFree, OutNow
  <2>8. Forward(o, s)
    BY <1>1, <2>1, <2>2, <2>4 DEF Forward
  <2> QED
    BY <1>2, <2>7, <2>8
<1> QED
  BY <1>2, <1>3, <1>4

LEMMA FinishLocks ==
  ASSUME LockInv, NEW n \in Validators, NEW s, NEW consumed,
         Finish(n, s, consumed), Ended(n, s, sent), LockFacts(n, s, sent)
  PROVE  LockInv'
<1> DEFINE T == sent \cup s.out
<1>1. /\ s \in NodeRecords /\ VotesInv /\ \A m \in s.out : m.from = n
      /\ RecordFacts(n, s, T) /\ MessageFacts(T)
  BY DEF LockInv, Ended, LockFacts
<1>2. VotesInv'
  BY <1>1, FinishSound
<1>3. sent' = T /\ sent \in SUBSET T /\ node' = [node EXCEPT ![n] = Done(s)]
  BY DEF Finish, Done
<1> HIDE DEF T
<1>4. RecordFacts(n, Done(s), T)
  <2>1. /\ SameLocks(s, Done(s))
        /\ Done(s).currentHeight = s.currentHeight /\ Done(s).currentRound = s.currentRound
        /\ Done(s).committed = s.committed /\ Done(s).committedBlock = s.committedBlock
        /\ Done(s).active => s.active /\ Done(s).prevoteByVoter = s.prevoteByVoter
    BY <1>1, DoneShape
  <2>2. OwnCommit(Done(s), T)
    BY <1>1, <2>1 DEF RecordFacts, OwnCommit
  <2>3. Done(s).active => s.active /\ More(s.prevoteByVoter, Done(s).prevoteByVoter)
    BY <2>1 DEF More
  <2>4. \A m \in T \ T : FALSE
    OBVIOUS
  <2> QED
    BY <1>1, <2>1, <2>2, <2>3, <2>4, FactsGrow
<1>5. ASSUME NEW v \in Validators
      PROVE  /\ RecordFacts(v, node'[v], T)
             /\ node'[v].active => ~node'[v].committed /\ ~node'[v].aborted
  <2>1. CASE v = n
    <3>1. node'[v] = Done(s)
      BY <1>1, <1>3, <2>1 DEF VotesInv, TypeOK
    <3> QED
      BY <1>1, <1>4, <2>1, <3>1, DoneShape
  <2>2. CASE v # n
    <3>1. node'[v] = node[v] /\ node[v] \in NodeRecords /\ RecordFacts(v, node[v], sent)
      BY <1>1, <1>3, <2>2 DEF VotesInv, TypeOK, LockInv
    <3>2. \A m \in T \ sent : m.from # v
      BY <1>1, <2>2 DEF T
    <3>3. SameLocks(node[v], node[v]) /\ More(node[v].prevoteByVoter, node[v].prevoteByVoter)
      BY DEF SameLocks, More
    <3>4. OwnCommit(node[v], T)
      BY <1>3, <3>1, PolkaGrows DEF RecordFacts, OwnCommit
    <3>5. RecordFacts(v, node[v], T)
      BY <1>3, <3>1, <3>2, <3>3, <3>4, FactsGrow
    <3> QED
      BY <3>1, <3>5 DEF LockInv
  <2> QED
    BY <2>1, <2>2
<1> QED
  BY <1>1, <1>2, <1>3, <1>5 DEF LockInv

LEMMA LockInit == Init => LockInv
<1> SUFFICES ASSUME Init PROVE LockInv
  OBVIOUS
<1>1. VotesInv /\ sent = {}
  BY VotesInit DEF Init
<1>2. MessageFacts({})
  BY DEF MessageFacts
<1>3. ASSUME NEW n \in Validators PROVE node[n] = NewNode
  BY DEF Init
<1>4. /\ NewNode.lockedBlock = Nil /\ NewNode.validBlock = Nil
      /\ ~NewNode.committed /\ ~NewNode.active
  BY DEF NewNode
<1>5. ASSUME NEW n \in Validators PROVE RecordFacts(n, NewNode, {})
  BY <1>4 DEF RecordFacts, Justified, LocksBehind, StillLocked, OwnCommit
<1> QED
  BY <1>1, <1>2, <1>3, <1>4, <1>5 DEF LockInv

LEMMA LockNext ==
  ASSUME QuorumKept
  PROVE  LockInv /\ [Next]_vars => LockInv'
<1> SUFFICES ASSUME LockInv, [Next]_vars PROVE LockInv'
  OBVIOUS
<1>1. ASSUME NEW n \in Validators, Proceed(n) \/ Receive(n) PROVE LockInv'
  BY <1>1, HandlersKeepLocks, FinishLocks
<1>2. VotesInv'
  BY VotesNext DEF LockInv
<1>3. ASSUME UNCHANGED <<node, sent>> PROVE LockInv'
  BY <1>2, <1>3 DEF LockInv
<1>4. CASE NextHeight \/ UNCHANGED vars \/ \E n \in Validators : Lose(n)
  BY <1>3, <1>4 DEF NextHeight, Lose, vars
<1> QED
  BY <1>1, <1>4 DEF Next

LEMMA PolkasAreIn ==
  \A type, h, r, b : Polka(type, h, r, b) <=> PolkaIn(sent, type, h, r, b)
<1>1. \A type, h, r, b : Voters(type, h, r, b) = VotersIn(sent, type, h, r, b)
  BY DEF Voters, VotersIn, Sent
<1> QED
  BY <1>1 DEF Polka, PolkaIn, Total

LEMMA LocksHold ==
  LockInv => LockJustified /\ CommitCertified /\ LockHeld
<1> SUFFICES ASSUME LockInv PROVE LockJustified /\ CommitCertified /\ LockHeld
  OBVIOUS
<1>1. \A v \in Validators : RecordFacts(v, node[v], sent)
  BY DEF LockInv
<1>2. LockJustified
  BY <1>1, PolkasAreIn DEF RecordFacts, Justified, LockJustified
<1>3. CommitCertified
  BY <1>1, PolkasAreIn DEF RecordFacts, OwnCommit, CommitCertified
<1>4. LockHeld
  <2> SUFFICES ASSUME NEW m \in Sent("Precommit"), m.block # Nil, m.from \notin Equivocators,
                      m.height = node[m.from].currentHeight
               PROVE  LET s == node[m.from]
                      IN  \/ s.lockedBlock # Nil /\ s.lockedRound >= m.round
                          \/ \E r \in m.round + 1 .. s.currentRound :
                               Polka("Prevote", m.height, r, Nil)
    BY DEF LockHeld
  <2>1. m \in sent /\ m.type = "Precommit" /\ m \in Messages
    BY DEF Sent, LockInv, VotesInv, TypeOK
  <2>2. m.from \in Validators /\ m.round \in Nat
    BY <2>1 DEF Messages, VoteMessages, EvidenceMessages
  <2>3. node[m.from].lockedRound \in Nat
    BY <2>2 DEF LockInv, VotesInv, TypeOK, NodeRecords
  <2>4. StillLocked(m.from, node[m.from], sent)
    BY <1>1, <2>2 DEF RecordFacts
  <2> QED
    BY <2>1, <2>2, <2>3, <2>4, PolkasAreIn DEF StillLocked
<1> QED
  BY <1>2, <1>3, <1>4

\* What honest validators prevote was proposed, so that a quorum's block was.
LEMMA ValidityHolds ==
  ASSUME PowerOf(Equivocators) < QuorumOf(Total)
  PROVE  LockInv => Validity
<1> SUFFICES ASSUME LockInv, NEW c \in Sent("Commit")
             PROVE  \E p \in Sent("Proposal") : p.height = c.height /\ p.block = c.block
  BY DEF Validity
<1>1. MessageFacts(sent) /\ c \in sent /\ c.type = "Commit"
  BY DEF LockInv, Sent
<1>2. c.block # Nil /\ PolkaIn(sent, "Precommit", c.height, c.round, c.block)
  BY <1>1 DEF MessageFacts
<1>3. ASSUME NEW type, NEW h, NEW r, NEW b, PolkaIn(sent, type, h, r, b)
      PROVE  \E m \in sent : /\ m.type = type /\ m.height = h /\ m.round = r /\ m.block = b
                             /\ m.from \notin Equivocators
  <2> DEFINE V == VotersIn(sent, type, h, r, b)
  <2>1. PowerOf(V) >= QuorumOf(Total)
    BY <1>3 DEF PolkaIn
  <2>2. Equivocators \in SUBSET Validators
    BY DEF Equivocators
  <2>3. V \in SUBSET Equivocators => FALSE
    <3> HIDE DEF V
    <3> SUFFICES ASSUME V \in SUBSET Equivocators PROVE FALSE
      OBVIOUS
    <3>1. /\ PowerOf(V) \in Nat /\ PowerOf(Equivocators) \in Nat
          /\ PowerOf(V) <= PowerOf(Equivocators)
      BY <2>2, PowerGrows
    <3> QED
      BY <2>1, <3>1, QuorumType
  <2> QED
    BY <2>3 DEF VotersIn
<1>4. PICK m \in sent : /\ m.type = "Precommit" /\ m.height = c.height /\ m.round = c.round
                        /\ m.block = c.block /\ m.from \notin Equivocators
  BY <1>2, <1>3
<1>5. PolkaIn(sent, "Prevote", c.height, c.round, c.block)
  BY <1>1, <1>2, <1>4 DEF MessageFacts
<1>6. PICK q \in sent : /\ q.type = "Prevote" /\ q.height = c.height /\ q.round = c.round
                        /\ q.block = c.block /\ q.from \notin Equivocators
  BY <1>3, <1>5
<1> QED
  BY <1>1, <1>2, <1>6 DEF MessageFacts, ProposedAs, Sent

LEMMA StepsForward ==
  ASSUME QuorumKept, LockInv, [Next]_vars, NEW v \in Validators
  PROVE  LET s == node[v]
             t == node'[v]
         IN  s.validBlock # Nil /\ t.currentHeight = s.currentHeight
               /\ s.validHeight = s.currentHeight
             => /\ t.validBlock # Nil /\ t.validHeight = s.validHeight
                /\ t.validBlock # s.validBlock => t.validRound > s.validRound
<1> DEFINE s == node[v]
           t == node'[v]
<1>1. CASE \E n \in Validators : Proceed(n) \/ Receive(n)
  <2>1. PICK n \in Validators : Proceed(n) \/ Receive(n)
    BY <1>1
  <2>2. PICK r : /\ \E consumed : Finish(n, r, consumed)
                 /\ Ended(n, r, sent) /\ LockFacts(n, r, sent) /\ Forward(node[n], r)
    BY <2>1, HandlersKeepLocks
  <2>3. node' = [node EXCEPT ![n] = Done(r)] /\ r \in NodeRecords
        /\ node \in [Validators -> NodeRecords]
    BY <2>2 DEF Finish, Done, Ended, LockInv, VotesInv, TypeOK
  <2>4. CASE v = n
    <3>1. t = Done(r)
      BY <2>3, <2>4
    <3>2. SameLocks(r, t) /\ t.currentHeight = r.currentHeight
      BY <2>3, <3>1, DoneShape
    <3>3. Forward(s, t)
      BY <2>2, <2>4, <3>2 DEF Forward, SameLocks
    <3> QED
      BY <3>3 DEF Forward
  <2>5. CASE v # n
    BY <2>3, <2>5
  <2> QED
    BY <2>4, <2>5
<1>2. CASE UNCHANGED node
  BY <1>2
<1> QED
  BY <1>1, <1>2 DEF Next, NextHeight, Lose, vars

\* Whatever validator locks, or would propose again, won a quorum of prevotes in the
\* round it remembers, however votes were lost, delayed and reordered
\* (checkPrevoteQuorum, and the clearing of locks by StartConsensus).
THEOREM LocksAreJustified ==
  ASSUME QuorumKept
  PROVE  Spec => []LockJustified
<1>1. LockInv /\ [Next]_vars => LockInv'
  BY LockNext
<1>2. LockInv => LockJustified
  BY LocksHold
<1> QED
  BY <1>1, <1>2, LockInit, PTL DEF Spec

\* A commit has a quorum of precommits behind it, also one that was taken over from a
\* Commit message without counting a vote (handleCommit).
THEOREM CommitsAreCertified ==
  ASSUME QuorumKept
  PROVE  Spec => []CommitCertified
<1>1. LockInv /\ [Next]_vars => LockInv'
  BY LockNext
<1>2. LockInv => CommitCertified
  BY LocksHold
<1> QED
  BY <1>1, <1>2, LockInit, PTL DEF Spec

\* An honest precommit binds its voter: no timeout, no message and no next round takes
\* the lock away, only a later quorum does.
THEOREM LocksAreHeld ==
  ASSUME QuorumKept
  PROVE  Spec => []LockHeld
<1>1. LockInv /\ [Next]_vars => LockInv'
  BY LockNext
<1>2. LockInv => LockHeld
  BY LocksHold
<1> QED
  BY <1>1, <1>2, LockInit, PTL DEF Spec

\* Only blocks that were proposed at a height are committed at it, when double-signers
\* alone are no quorum.
THEOREM CommitsWereProposed ==
  ASSUME QuorumKept, PowerOf(Equivocators) < QuorumOf(Total)
  PROVE  Spec => []Validity
<1>1. LockInv /\ [Next]_vars => LockInv'
  BY LockNext
<1>2. LockInv => Validity
  BY ValidityHolds
<1> QED
  BY <1>1, <1>2, LockInit, PTL DEF Spec

\* The block a proposer will propose again is replaced by those of later quorums only,
\* in every step of every handler (checkPrevoteQuorum).
THEOREM ValidBlockMovesForward ==
  ASSUME QuorumKept
  PROVE  Spec => ValidMovesForward
<1>1. LockInv /\ [Next]_vars => LockInv'
  BY LockNext
<1>2. LockInv /\ [Next]_vars =>
        [\A v \in Validators :
           LET s == node[v]
               t == node[v]'
           IN  s.validBlock # Nil /\ t.currentHeight = s.currentHeight
                 /\ s.validHeight = s.currentHeight
               => /\ t.validBlock # Nil /\ t.validHeight = s.validHeight
                  /\ t.validBlock # s.validBlock => t.validRound > s.validRound]_vars
  BY StepsForward
<1> QED
  BY <1>1, <1>2, LockInit, PTL DEF Spec, ValidMovesForward
-----------------------------------------------------------------------------
\* Rounds follow precommits, whoever double-signs, when nobody withholds precommits.
PrecommitIn(K, h, r) == \E m \in K : m.type = "Precommit" /\ m.height = h /\ m.round = r

Followed(K, h, r) == \A q \in StartRound .. r - 1 : PrecommitIn(K, h, q)

AllFollowed(K) == \A m \in K : Followed(K, m.height, m.round)

\* Of an active record: the round it is in was entered after precommits, and may only
\* be left after one.
RoundFacts(s, S) ==
  LET K == S \cup s.out
      here == PrecommitIn(K, s.currentHeight, s.currentRound)
  IN  /\ AllFollowed(K) /\ Followed(K, s.currentHeight, s.currentRound)
      /\ ~s.roundActive /\ ~s.aborted /\ ~s.committed => here
      /\ "precommit" \in s.timers => here
      /\ s.precommitSent => here
      /\ OutNow(s)
      /\ \A m \in K : m.height <= s.currentHeight
      /\ s.currentRound >= StartRound

LEMMA FollowedGrows ==
  ASSUME NEW L, NEW K \in SUBSET L
  PROVE  /\ \A h, r : PrecommitIn(K, h, r) => PrecommitIn(L, h, r)
         /\ \A h, r : Followed(K, h, r) => Followed(L, h, r)
  BY DEF PrecommitIn, Followed

\* A quorum has a voter.
LEMMA CountedPrecommit ==
  ASSUME NEW n \in Validators, NEW S, NEW s, Sound(n, s, S),
         Reached(n, s, s.precommitByVoter, Nil)
  PROVE  PrecommitIn(S \cup s.out, s.currentHeight, s.currentRound)
<1> DEFINE P == {v \in Validators : s.precommitByVoter[v] = Nil}
<1>1. PowerOf({}) = 0
  BY PowersHeld, FS_EmptySet DEF Held, Units
<1>2. QuorumPower(n, s.jailedPeers) >= 1
  <2>1. ActivePower(n, s.jailedPeers) \in Nat
    BY PowerGrows, PowerAssumption DEF ActivePower, ActiveValidators
  <2> QED
    BY <2>1, MoreThanHalf DEF QuorumPower
<1>3. P # {}
  BY <1>1, <1>2, QuorumPowerType DEF Reached, PowerFor
<1>4. PICK v \in Validators : s.precommitByVoter[v] = Nil
  BY <1>3
<1> QED
  BY <1>4, NilAssumption DEF Sound, Holds, Counted, VoteIn, Current, PrecommitIn

LEMMA OnwardRounds ==
  ASSUME NEW n \in Validators, "SilentPrecommit" \notin Behavior[n],
         NEW S, NEW s, Sound(n, s, S), RoundFacts(s, S),
         NEW t, Sound(n, t, S), Onward(n, S, s, t)
  PROVE  RoundFacts(t, S)
<1> DEFINE K == S \cup s.out
           L == S \cup t.out
           h == s.currentHeight
           r == s.currentRound
<1>1. /\ K \in SUBSET L /\ L \ K \subseteq t.out \ s.out
      /\ t.currentHeight = h /\ t.currentRound = r
      /\ h \in Nat /\ r \in Nat /\ StartRound \in Nat
      /\ \A m \in K : m.height \in Nat /\ m.round \in Nat
  <2>1. s \in NodeRecords /\ S \subseteq Messages
    BY DEF Sound
  <2>2. s.out \subseteq t.out /\ t.currentHeight = h /\ t.currentRound = r
    BY DEF Onward, Frame
  <2>3. h \in Nat /\ r \in Nat /\ s.out \subseteq Messages
    BY <2>1 DEF NodeRecords
  <2>4. \A m \in Messages : m.height \in Nat /\ m.round \in Nat
    BY DEF Messages, VoteMessages, EvidenceMessages
  <2> QED
    BY <2>1, <2>2, <2>3, <2>4, TimeoutAssumption
<1>2. \A m \in t.out \ s.out : Current(s, m)
  BY DEF Onward
<1>3. /\ AllFollowed(K) /\ Followed(K, h, r)
      /\ ~s.roundActive /\ ~s.aborted /\ ~s.committed => PrecommitIn(K, h, r)
      /\ "precommit" \in s.timers => PrecommitIn(K, h, r)
      /\ s.precommitSent => PrecommitIn(K, h, r)
      /\ OutNow(s)
      /\ \A m \in K : m.height <= h
      /\ r >= StartRound
  BY DEF RoundFacts
<1>4. Reached(n, s, s.precommitByVoter, Nil) => PrecommitIn(K, h, r)
  BY CountedPrecommit
<1>5. ASSUME NEW m \in K, Future(s, m) PROVE PrecommitIn(K, h, r)
  <2>1. m.height = h /\ m.round > r
    BY <1>1, <1>3, <1>5 DEF Future
  <2>2. r \in StartRound .. m.round - 1
    BY <1>1, <1>3, <2>1
  <2> QED
    BY <1>3, <2>1, <2>2 DEF AllFollowed, Followed
<1>6. EndWarranted(n, s, K, t) \/ t.roundActive
  BY DEF Onward
<1>7. t.precommitSent => PrecommitIn(K, h, r) \/ PrecommitIn(L, h, r)
  BY <1>3 DEF Onward, PrecommitIn, Current
<1>8. /\ "precommit" \in t.timers => "precommit" \in s.timers \/ t.precommitSent
      /\ s.aborted => t.aborted
      /\ s.committed => t.committed
  BY DEF Onward
<1> HIDE DEF K, L
<1>9. PrecommitIn(K, h, r) => PrecommitIn(L, h, r)
  BY <1>1, FollowedGrows
<1>10. AllFollowed(L) /\ Followed(L, h, r)
  BY <1>1, <1>2, <1>3, FollowedGrows DEF AllFollowed, Current
<1>11. ~t.roundActive /\ ~t.aborted /\ ~t.committed => PrecommitIn(L, h, r)
  BY <1>3, <1>4, <1>5, <1>6, <1>8, <1>9 DEF EndWarranted
<1>12. \A m \in L : m.height <= h
  BY <1>1, <1>2, <1>3 DEF Current
<1>13. OutNow(t)
  BY <1>1, <1>2, <1>3 DEF OutNow, Current
<1> QED
  BY <1>1, <1>3, <1>7, <1>8, <1>9, <1>10, <1>11, <1>12, <1>13 DEF RoundFacts, L

LEMMA LocksRounds ==
  ASSUME NEW n, NEW S, NEW s \in NodeRecords, RoundFacts(s, S),
         NEW t, Locks(n, s, t) \/ Unlocks(n, s, t)
  PROVE  RoundFacts(t, S) /\ t.currentHeight = s.currentHeight
         /\ t.active = s.active
<1>1. /\ t.currentHeight = s.currentHeight /\ t.currentRound = s.currentRound
      /\ t.timers = s.timers /\ t.out = s.out
      /\ t.roundActive = s.roundActive /\ t.aborted = s.aborted
      /\ t.committed = s.committed /\ t.precommitSent = s.precommitSent
      /\ t.active = s.active
  BY ZenonT(30) DEF Locks, Unlocks, LockedOn, Unlocked, NodeRecords
<1> QED
  BY <1>1 DEF RoundFacts, OutNow, Current

Entered(S, h) == {s \in NodeRecords : s.active /\ s.currentHeight = h /\ RoundFacts(s, S)}

LEMMA EnteredClosed ==
  ASSUME NEW n \in Validators, "SilentPrecommit" \notin Behavior[n], NEW S, NEW h
  PROVE  Closed(n, S, Entered(S, h))
<1> SUFFICES ASSUME NEW s \in Entered(S, h), NEW t \in NodeRecords,
                    Sound(n, s, S), Sound(n, t, S), Step(n, S, s, t)
             PROVE  t \in Entered(S, h)
  BY DEF Closed
<1>1. CASE Onward(n, S, s, t)
  <2>1. RoundFacts(t, S)
    BY <1>1, OnwardRounds DEF Entered
  <2>2. t.active /\ t.currentHeight = h
    BY <1>1 DEF Entered, Onward, Frame
  <2> QED
    BY <2>1, <2>2 DEF Entered
<1>2. CASE Locks(n, s, t) \/ Unlocks(n, s, t)
  BY <1>2, LocksRounds DEF Entered
<1> QED
  BY <1>1, <1>2 DEF Step

EntryInv ==
  /\ VotesInv
  /\ AllFollowed(sent)
  /\ \A m \in sent : m.height <= height
  /\ \A n \in Validators :
       LET s == node[n]
       IN  /\ Followed(sent, s.currentHeight, s.currentRound)
           /\ s.currentHeight <= height
           /\ s.active => /\ s.currentHeight = height /\ RoundFacts(s, sent)
                          /\ ~s.committed /\ ~s.aborted

LEMMA OpensEntered ==
  ASSUME EntryInv, NEW n \in Validators, NEW o, Opens(n, o)
  PROVE  o \in Entered(sent, height)
<1> DEFINE s == node[n]
<1>1. /\ s \in NodeRecords /\ Sound(n, s, sent) /\ s.out = {} /\ height \in Nat
      /\ AllFollowed(sent) /\ \A m \in sent : m.height <= height
      /\ s.active => /\ s.currentHeight = height /\ RoundFacts(s, sent)
                     /\ ~s.committed /\ ~s.aborted
  BY DEF EntryInv, VotesInv, TypeOK
<1>2. StartRound \in Nat /\ s.currentRound \in Nat
  BY <1>1, TimeoutAssumption DEF NodeRecords
<1> HIDE DEF s
<1>3. CASE s.active /\ o = s
  BY <1>1, <1>3 DEF Entered
<1>4. ASSUME NEW t \in NodeRecords, t.active, t.out = {}, t.currentHeight = height,
             t.roundActive, t.timers = {}, ~t.precommitSent, t.currentRound >= StartRound,
             Followed(sent, height, t.currentRound)
      PROVE  t \in Entered(sent, height)
  <2>1. sent \cup t.out = sent
    BY <1>4
  <2> QED
    BY <1>1, <1>4, <2>1 DEF Entered, RoundFacts, OutNow
<1>5. CASE s.active /\ ~s.roundActive /\ o = Opened(Escalated(s), s.currentRound + 1)
  <2>1. /\ Escalated(s) \in NodeRecords /\ Escalated(s).currentHeight = s.currentHeight
        /\ Escalated(s).active = s.active /\ Escalated(s).out = {}
    <3>1. Escalated(s) \in NodeRecords
      BY <1>1, EscalatedSound DEF Sound
    <3> QED
      BY <1>1, <3>1 DEF Escalated, NodeRecords
  <2>2. s.currentRound + 1 \in Nat
    BY <1>2
  <2>3. o.active
    BY <1>5, <2>1, <2>2, OpenedShape
  <2>4. /\ o \in NodeRecords /\ o.out = {} /\ o.currentHeight = height
        /\ o.roundActive /\ o.timers = {} /\ ~o.precommitSent
        /\ o.currentRound = s.currentRound + 1
    BY <1>1, <1>5, <2>1, <2>2, OpenedShape
  <2>5. sent \cup s.out = sent
    BY <1>1
  <2>6. Followed(sent, height, s.currentRound) /\ PrecommitIn(sent, height, s.currentRound)
        /\ s.currentRound >= StartRound
    BY <1>1, <1>5, <2>5 DEF RoundFacts
  <2>7. \A q \in StartRound .. (s.currentRound + 1) - 1 :
          q \in StartRound .. s.currentRound - 1 \/ q = s.currentRound
    BY <1>2
  <2>8. Followed(sent, height, s.currentRound + 1)
    <3>1. \A q \in StartRound .. s.currentRound - 1 : PrecommitIn(sent, height, q)
      BY <2>6 DEF Followed
    <3>2. \A q \in StartRound .. (s.currentRound + 1) - 1 : PrecommitIn(sent, height, q)
      BY <2>6, <2>7, <3>1
    <3> QED
      BY <3>2 DEF Followed
  <2> QED
    BY <1>2, <1>4, <2>3, <2>4, <2>6, <2>8
<1>6. CASE /\ s.currentHeight < height /\ ~(s.jailed \/ n \in s.jailedPeers)
           /\ o = Opened(Ready(n, s, height), StartRound)
  <2>1. /\ Ready(n, s, height) \in NodeRecords /\ Ready(n, s, height).currentHeight = height
        /\ Ready(n, s, height).active /\ Ready(n, s, height).out = {}
    BY <1>1, <1>6, ReadyShape
  <2>2. o.active
    BY <1>2, <1>6, <2>1, OpenedShape
  <2>3. /\ o \in NodeRecords /\ o.out = {} /\ o.currentHeight = height
        /\ o.roundActive /\ o.timers = {} /\ ~o.precommitSent /\ o.currentRound = StartRound
    BY <1>2, <1>6, <2>1, OpenedShape, SMTT(20)
  <2>4. Followed(sent, height, StartRound)
    BY <1>2 DEF Followed
  <2> QED
    BY <1>2, <1>4, <2>2, <2>3, <2>4
<1> QED
  BY <1>3, <1>5, <1>6 DEF Opens, s

\* What a handler leaves: an active record of this height with the facts, or that of a
\* validator that is not taking part.
LEMMA HandlersFollow ==
  ASSUME \A v \in Validators : "SilentPrecommit" \notin Behavior[v],
         EntryInv, NEW n \in Validators, Proceed(n) \/ Receive(n)
  PROVE  \E s : /\ \E consumed : Finish(n, s, consumed)
                /\ Ended(n, s, sent) /\ s.currentHeight = height
                /\ AllFollowed(sent \cup s.out)
                /\ \A m \in s.out : m.height = height
                /\ Followed(sent \cup s.out, s.currentHeight, s.currentRound)
                /\ s.active => RoundFacts(s, sent)
<1> DEFINE o == node[n]
<1>1. /\ VotesInv /\ o \in NodeRecords /\ o.out = {} /\ height \in Nat /\ AllFollowed(sent)
  BY DEF EntryInv, VotesInv, TypeOK
<1>2. PICK s : /\ \E consumed : Finish(n, s, consumed)
               /\ Ended(n, s, sent)
               /\ Declines(n, s) \/ \E q : Opens(n, q) /\ Walks(n, q, s)
  BY <1>1, HandlersWalk
<1>3. CASE \E q : Opens(n, q) /\ Walks(n, q, s)
  <2>1. s \in Entered(sent, height)
    BY <1>1, <1>3, OpensEntered, EnteredClosed DEF Walks
  <2> QED
    BY <1>2, <2>1 DEF Entered, RoundFacts, OutNow, Current
<1>4. CASE Declines(n, s)
  <2>1. /\ s.currentHeight = height /\ s.currentRound = StartRound /\ ~s.active /\ s.out = {}
    BY <1>1, <1>4, BegunShape DEF Declines
  <2>2. sent \cup s.out = sent
    BY <2>1
  <2>3. Followed(sent, height, StartRound)
    BY TimeoutAssumption DEF Followed
  <2> QED
    BY <1>1, <1>2, <2>1, <2>2, <2>3
<1> QED
  BY <1>2, <1>3, <1>4

\* Facts of a record about its own messages, once they are sent, or others are.
LEMMA RoundFactsKept ==
  ASSUME NEW S, NEW s, RoundFacts(s, S), NEW T, S \cup s.out \subseteq T, AllFollowed(T),
         \A m \in T : m.height <= s.currentHeight,
         NEW t, t.out = {},
         t.currentHeight = s.currentHeight, t.currentRound = s.currentRound,
         ~t.roundActive => ~s.roundActive, s.aborted => t.aborted, s.committed => t.committed,
         t.timers \subseteq s.timers, t.precommitSent => s.precommitSent
  PROVE  RoundFacts(t, T)
<1>1. T \cup t.out = T
  OBVIOUS
<1>2. /\ Followed(T, s.currentHeight, s.currentRound)
      /\ PrecommitIn(S \cup s.out, s.currentHeight, s.currentRound) =>
           PrecommitIn(T, s.currentHeight, s.currentRound)
  BY FollowedGrows DEF RoundFacts
<1> QED
  BY <1>1, <1>2 DEF RoundFacts, OutNow

LEMMA EntryNext ==
  ASSUME \A v \in Validators : "SilentPrecommit" \notin Behavior[v]
  PROVE  EntryInv /\ [Next]_vars => EntryInv'
<1> SUFFICES ASSUME EntryInv, [Next]_vars PROVE EntryInv'
  OBVIOUS
<1>1. VotesInv' /\ TypeOK /\ height \in Nat
  BY VotesNext DEF EntryInv, VotesInv, TypeOK
<1>2. ASSUME NEW n \in Validators, Proceed(n) \/ Receive(n) PROVE EntryInv'
  <2>1. PICK s : /\ \E consumed : Finish(n, s, consumed)
                 /\ Ended(n, s, sent) /\ s.currentHeight = height
                 /\ AllFollowed(sent \cup s.out)
                 /\ \A m \in s.out : m.height = height
                 /\ Followed(sent \cup s.out, s.currentHeight, s.currentRound)
                 /\ s.active => RoundFacts(s, sent)
    BY <1>2, HandlersFollow
  <2> DEFINE T == sent \cup s.out
  <2>2. /\ sent' = T /\ node' = [node EXCEPT ![n] = Done(s)] /\ height' = height
        /\ s \in NodeRecords /\ sent \in SUBSET T
    BY <2>1 DEF Finish, Done, Ended
  <2>3. \A m \in T : m.height <= height
    BY <1>1, <2>1 DEF EntryInv
  <2>4. AllFollowed(T) /\ Followed(T, s.currentHeight, s.currentRound)
    BY <2>1
  <2>5. s.active => RoundFacts(s, sent)
    BY <2>1
  <2>6. ASSUME NEW v \in Validators
        PROVE  LET t == node'[v]
               IN  /\ Followed(T, t.currentHeight, t.currentRound)
                   /\ t.currentHeight <= height
                   /\ t.active => /\ t.currentHeight = height /\ RoundFacts(t, T)
                                  /\ ~t.committed /\ ~t.aborted
    <3>1. CASE v = n
      <4> DEFINE t == Done(s)
      <4>1. node'[v] = t
        BY <1>1, <2>2, <3>1 DEF TypeOK
      <4>2. /\ t.currentHeight = s.currentHeight /\ t.currentRound = s.currentRound
            /\ t.out = {} /\ t.timers \subseteq s.timers
        BY <2>2, DoneShape
      <4>3. /\ t.roundActive = s.roundActive
            /\ t.active => s.active /\ ~s.committed /\ ~s.aborted
        BY <2>2, DoneShape
      <4>4. t.committed = s.committed
        BY <2>2, DoneShape
      <4>5. t.aborted = s.aborted
        BY <2>2, DoneShape
      <4>6. t.precommitSent = s.precommitSent
        BY <2>2, DoneShape
      <4> HIDE DEF t
      <4>7. t.active => RoundFacts(t, T)
        <5> HIDE DEF T
        <5> SUFFICES ASSUME t.active PROVE RoundFacts(t, T)
          OBVIOUS
        <5>1. RoundFacts(s, sent) /\ sent \cup s.out \subseteq T
          BY <2>5, <4>3 DEF T
        <5>2. \A m \in T : m.height <= s.currentHeight
          BY <2>1, <2>3
        <5> QED
          BY <2>4, <4>2, <4>3, <4>4, <4>5, <4>6, <5>1, <5>2, RoundFactsKept
      <4> QED
        BY <1>1, <2>1, <2>4, <4>1, <4>2, <4>3, <4>4, <4>5, <4>7
    <3>2. CASE v # n
      <4> DEFINE t == node[v]
      <4>1. node'[v] = t /\ t.out = {}
        BY <1>1, <2>2, <3>2 DEF TypeOK
      <4>2. /\ Followed(sent, t.currentHeight, t.currentRound) /\ t.currentHeight <= height
            /\ t.active => /\ t.currentHeight = height /\ RoundFacts(t, sent)
                           /\ ~t.committed /\ ~t.aborted
        BY DEF EntryInv
      <4>3. sent \cup t.out \subseteq T
        BY <4>1
      <4> HIDE DEF t, T
      <4>4. t.active => RoundFacts(t, T)
        BY <2>3, <2>4, <4>1, <4>2, <4>3, RoundFactsKept
      <4> QED
        BY <2>2, <4>1, <4>2, <4>4, FollowedGrows
    <3> QED
      BY <3>1, <3>2
  <2> HIDE DEF T
  <2> QED
    BY <1>1, <2>2, <2>3, <2>4, <2>6 DEF EntryInv
<1>3. ASSUME UNCHANGED <<height, node, sent>> PROVE EntryInv'
  BY <1>1, <1>3 DEF EntryInv
<1>4. ASSUME NextHeight PROVE EntryInv'
  <2>1. /\ height' = height + 1 /\ UNCHANGED <<node, sent>>
        /\ \A v \in Validators : ~node[v].active /\ node[v].currentHeight = height
    BY <1>4 DEF NextHeight
  <2>2. \A m \in sent : m.height \in Nat
    BY <1>1 DEF TypeOK, Messages, VoteMessages, EvidenceMessages
  <2>3. \A m \in sent : m.height <= height + 1
    BY <1>1, <2>2 DEF EntryInv
  <2> QED
    BY <1>1, <2>1, <2>3 DEF EntryInv
<1>5. CASE UNCHANGED vars \/ \E n \in Validators : Lose(n)
  BY <1>3, <1>5 DEF Lose, vars
<1> QED
  BY <1>2, <1>4, <1>5 DEF Next

LEMMA EntryInit == Init => EntryInv
<1> SUFFICES ASSUME Init PROVE EntryInv
  OBVIOUS
<1>1. VotesInv /\ sent = {} /\ height = 1
  BY VotesInit DEF Init
<1>2. ASSUME NEW n \in Validators PROVE node[n] = NewNode
  BY DEF Init
<1>3. NewNode.currentRound = 0 /\ NewNode.currentHeight = 0 /\ ~NewNode.active
  BY DEF NewNode
<1>4. Followed({}, 0, 0)
  BY TimeoutAssumption DEF Followed
<1>5. AllFollowed({})
  BY DEF AllFollowed
<1> QED
  BY <1>1, <1>2, <1>3, <1>4, <1>5 DEF EntryInv

\* Every round past the first was entered after a precommit of the round before, though
\* rounds also end on messages of later ones (handleMessage, onPrecommitTimeout): when
\* nobody withholds precommits, nobody is led into a round that was not reached.
THEOREM RoundsFollowPrecommits ==
  ASSUME \A v \in Validators : "SilentPrecommit" \notin Behavior[v]
  PROVE  Spec => []RoundEntryJustified
<1>1. EntryInv /\ [Next]_vars => EntryInv'
  BY EntryNext
<1>2. EntryInv => RoundEntryJustified
  <2> SUFFICES ASSUME EntryInv, NEW v \in Validators, node[v].currentRound > StartRound
               PROVE  \E m \in Sent("Precommit") :
                        m.height = node[v].currentHeight /\ m.round = node[v].currentRound - 1
    BY DEF RoundEntryJustified
  <2>1. node[v].currentRound \in Nat /\ StartRound \in Nat
    BY TimeoutAssumption DEF EntryInv, VotesInv, TypeOK, NodeRecords
  <2>2. node[v].currentRound - 1 \in StartRound .. node[v].currentRound - 1
    BY <2>1
  <2> QED
    BY <2>2 DEF EntryInv, Followed, PrecommitIn, Sent
<1> QED
  BY <1>1, <1>2, EntryInit, PTL DEF Spec
=============================================================================

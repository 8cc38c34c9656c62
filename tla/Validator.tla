------------------------------ MODULE Validator ------------------------------
(***************************************************************************)
(* The handlers of internal/consensus.Node as functions on a node record.  *)
(* A handler of validator n takes the record s of n and returns the record *)
(* after the whole call chain, with the messages it broadcast on the way   *)
(* added to s.out.  The (Block, Valid) pair of a vote is its blockKey: a   *)
(* block, or Nil when Valid is false.                                      *)
(*                                                                         *)
(* A definition under "Fault:" is a wrong version of the one after it, for *)
(* testing that the properties of Consensus notice it.                     *)
(***************************************************************************)
EXTENDS VotingPower, Timeouts, Sequences

CONSTANTS
  Behavior,  \* the ByzantineBehavior switches set on each validator
  Nil,       \* blockKey "nil", and the empty LockedBlock and ValidBlock
  NoVote     \* no entry in prevoteByVoter or precommitByVoter

Switches == {"EquivocatePrevote", "EquivocatePrecommit", "ForceNilPrevote",
             "ForceNilPrecommit", "SilentPrevote", "SilentPrecommit"}

\* Block_<height>_<round>, and the block of a conflictingVote.
Block(h, r) == <<"Block", h, r>>
EquivBlock(h, r, n) == <<"Equiv", h, r, n>>

Blocks == ({"Block"} \X Nat \X Nat) \cup ({"Equiv"} \X Nat \X Nat \X Validators)

ASSUME BehaviorAssumption == Behavior \in [Validators -> SUBSET Switches]
ASSUME NilAssumption == Nil \notin Blocks /\ NoVote \notin Blocks /\ Nil # NoVote

\* The validators configured to double-sign.
Equivocators ==
  {v \in Validators : Behavior[v] \cap {"EquivocatePrevote", "EquivocatePrecommit"} # {}}

VoteMessages ==
  [type: {"Proposal", "Prevote", "Precommit", "Commit"}, from: Validators,
   height: Nat, round: Nat, block: Blocks \cup {Nil}]
EvidenceMessages ==
  [type: {"Evidence"}, from: Validators, height: Nat, round: Nat, offender: Validators]
Messages == VoteMessages \cup EvidenceMessages

Msg(type, n, s, block) ==
  [type |-> type, from |-> n, height |-> s.currentHeight, round |-> s.currentRound,
   block |-> block]

Broadcast(s, m) == [s EXCEPT !.out = @ \cup {m}]

Current(s, m) == m.height = s.currentHeight /\ m.round = s.currentRound

NodeRecords ==
  [active: BOOLEAN, currentHeight: Nat, currentRound: Nat, roundActive: BOOLEAN,
   prevoteSent: BOOLEAN, precommitSent: BOOLEAN,
   prevoteByVoter: [Validators -> Blocks \cup {Nil, NoVote}],
   precommitByVoter: [Validators -> Blocks \cup {Nil, NoVote}],
   pendingMessages: Seq(Messages), committed: BOOLEAN, committedBlock: Blocks \cup {Nil},
   lockedBlock: Blocks \cup {Nil}, lockedRound: Nat, lockedHeight: Nat,
   validBlock: Blocks \cup {Nil}, validRound: Nat, validHeight: Nat,
   jailed: BOOLEAN, jailedPeers: SUBSET Validators, aborted: BOOLEAN,
   timeoutMultiplierCap: Nat, timers: SUBSET Stages, out: SUBSET Messages]

NoVotes == [v \in Validators |-> NoVote]

\* Fault: the power of all votes of the round, whatever their key.
PowerForAnyKey(votes, key) == PowerOf({v \in Validators : votes[v] # NoVote})

\* The power recorded for a key in prevotePower or precommitPower of the round.
PowerFor(votes, key) == PowerOf({v \in Validators : votes[v] = key})
-----------------------------------------------------------------------------
\* Starts the timer of a stage, or aborts the height when the timeout would
\* exceed the limit.  An aborted node starts no timer.
ScheduleStageTimeout(s, stage) ==
  IF s.aborted THEN s
  ELSE IF ExceedsMax(stage, s.currentRound, s.timeoutMultiplierCap)
       THEN [s EXCEPT !.aborted = TRUE, !.roundActive = FALSE]
       ELSE [s EXCEPT !.timers = @ \cup {stage}]

\* Fault: whoever is jailed, so is the validator that learns of it.
JailBoth(n, s, offender) ==
  [s EXCEPT !.jailedPeers = @ \cup {offender}, !.jailed = TRUE]

Jail(n, s, offender) ==
  [s EXCEPT !.jailedPeers = @ \cup {offender}, !.jailed = @ \/ offender = n]

ReportEvidence(n, s, offender) ==
  Jail(n, Broadcast(s, [type |-> "Evidence", from |-> n, height |-> s.currentHeight,
                        round |-> s.currentRound, offender |-> offender]), offender)

\* Whether recordPrevote and recordPrecommit count the vote m (their result).
FreshVote(s, votes, m) == m.from \notin s.jailedPeers /\ votes[m.from] = NoVote

Conflicting(s, votes, m) ==
  m.from \notin s.jailedPeers /\ votes[m.from] \notin {NoVote, m.block}

RecordPrevote(n, s, m) ==
  IF FreshVote(s, s.prevoteByVoter, m)
  THEN [s EXCEPT !.prevoteByVoter[m.from] = m.block]
  ELSE IF Conflicting(s, s.prevoteByVoter, m) THEN ReportEvidence(n, s, m.from) ELSE s

RecordPrecommit(n, s, m) ==
  IF FreshVote(s, s.precommitByVoter, m)
  THEN [s EXCEPT !.precommitByVoter[m.from] = m.block]
  ELSE IF Conflicting(s, s.precommitByVoter, m) THEN ReportEvidence(n, s, m.from) ELSE s

CheckPrecommitQuorum(n, s, block) ==
  IF PowerFor(s.precommitByVoter, block) < QuorumPower(n, s.jailedPeers) \/ s.committed
  THEN s
  ELSE IF block = Nil THEN [s EXCEPT !.roundActive = FALSE]
  ELSE Broadcast([s EXCEPT !.committed = TRUE, !.roundActive = FALSE,
                           !.committedBlock = block],
                 Msg("Commit", n, s, block))

\* The vote an equivocating validator sends besides `block`.
ConflictingVote(n, s, block) ==
  IF block = Nil THEN EquivBlock(s.currentHeight, s.currentRound, n) ELSE Nil

\* Fault: no check of precommitSent.
SendPrecommitAgain(n, s, block) ==
  IF s.jailed THEN s
  ELSE IF "SilentPrecommit" \in Behavior[n]
  THEN ScheduleStageTimeout([s EXCEPT !.precommitSent = TRUE], "precommit")
  ELSE LET vote     == IF "ForceNilPrecommit" \in Behavior[n] THEN Nil ELSE block
           m        == Msg("Precommit", n, s, vote)
           recorded == RecordPrecommit(n, [s EXCEPT !.precommitSent = TRUE], m)
           checked  == CheckPrecommitQuorum(n, Broadcast(recorded, m), vote)
           conflict == Msg("Precommit", n, s, ConflictingVote(n, s, vote))
       IN  ScheduleStageTimeout(
             IF "EquivocatePrecommit" \in Behavior[n]
             THEN Broadcast(checked, conflict) ELSE checked, "precommit")

\* Fault: no precommit timer when the precommit is withheld.
SendPrecommitUntimed(n, s, block) ==
  IF s.precommitSent \/ s.jailed THEN s
  ELSE IF "SilentPrecommit" \in Behavior[n] THEN [s EXCEPT !.precommitSent = TRUE]
  ELSE SendPrecommitAgain(n, s, block)

SendPrecommit(n, s, block) ==
  IF s.precommitSent \/ s.jailed THEN s
  ELSE IF "SilentPrecommit" \in Behavior[n]
  THEN ScheduleStageTimeout([s EXCEPT !.precommitSent = TRUE], "precommit")
  ELSE LET vote     == IF "ForceNilPrecommit" \in Behavior[n] THEN Nil ELSE block
           m        == Msg("Precommit", n, s, vote)
           recorded == RecordPrecommit(n, [s EXCEPT !.precommitSent = TRUE], m)
           checked  == CheckPrecommitQuorum(n, Broadcast(recorded, m), vote)
           conflict == Msg("Precommit", n, s, ConflictingVote(n, s, vote))
       IN  ScheduleStageTimeout(
             IF "EquivocatePrecommit" \in Behavior[n]
             THEN Broadcast(checked, conflict) ELSE checked, "precommit")

\* Fault: -1 for "no round", as in the Tendermint paper.
UnlockedToMinusOne(s) ==
  [s EXCEPT !.lockedBlock = Nil, !.lockedRound = -1, !.lockedHeight = 0]

\* Fault: the valid block is forgotten with the lock.
UnlockedAndForgotten(s) ==
  [s EXCEPT !.lockedBlock = Nil, !.lockedRound = 0, !.lockedHeight = 0,
            !.validBlock = Nil, !.validRound = 0]

Unlocked(s) == [s EXCEPT !.lockedBlock = Nil, !.lockedRound = 0, !.lockedHeight = 0]

\* Locks on a block with a quorum of prevotes, unlocks on a quorum for nil, and
\* precommits accordingly.
CheckPrevoteQuorum(n, s, block) ==
  IF PowerFor(s.prevoteByVoter, block) < QuorumPower(n, s.jailedPeers) THEN s
  ELSE IF block # Nil
  THEN SendPrecommit(n,
         [s EXCEPT !.lockedBlock = block, !.lockedRound = s.currentRound,
                   !.lockedHeight = s.currentHeight,
                   !.validBlock = block, !.validRound = s.currentRound,
                   !.validHeight = s.currentHeight], block)
  ELSE IF s.currentRound >= s.lockedRound /\ s.currentHeight >= s.lockedHeight
  THEN SendPrecommit(n, Unlocked(s), Nil)
  ELSE SendPrecommit(n, s, Nil)

SendPrevote(n, s, block) ==
  IF s.prevoteSent \/ s.jailed THEN s
  ELSE IF "SilentPrevote" \in Behavior[n]
  THEN ScheduleStageTimeout([s EXCEPT !.prevoteSent = TRUE], "prevote")
  ELSE LET vote     == IF "ForceNilPrevote" \in Behavior[n] THEN Nil ELSE block
           m        == Msg("Prevote", n, s, vote)
           recorded == RecordPrevote(n, [s EXCEPT !.prevoteSent = TRUE], m)
           checked  == CheckPrevoteQuorum(n, Broadcast(recorded, m), vote)
           conflict == Msg("Prevote", n, s, ConflictingVote(n, s, vote))
       IN  ScheduleStageTimeout(
             IF "EquivocatePrevote" \in Behavior[n]
             THEN Broadcast(checked, conflict) ELSE checked, "prevote")
-----------------------------------------------------------------------------
\* Fault: the lock is not consulted.
HandleProposalUnlocked(n, s, m) ==
  IF s.committed \/ ~Current(s, m) \/ s.prevoteSent THEN s ELSE SendPrevote(n, s, m.block)

\* A node locked on another block prevotes nil.
HandleProposal(n, s, m) ==
  IF s.committed \/ ~Current(s, m) \/ s.prevoteSent THEN s
  ELSE LET lockedElsewhere == /\ s.lockedBlock # Nil
                              /\ s.lockedBlock # m.block \/ s.lockedHeight # m.height
       IN  SendPrevote(n, s, IF lockedElsewhere THEN Nil ELSE m.block)

HandlePrevote(n, s, m) ==
  IF s.committed \/ ~Current(s, m) THEN s
  ELSE IF FreshVote(s, s.prevoteByVoter, m)
  THEN CheckPrevoteQuorum(n, RecordPrevote(n, s, m), m.block)
  ELSE RecordPrevote(n, s, m)

HandlePrecommit(n, s, m) ==
  IF s.committed \/ ~Current(s, m) THEN s
  ELSE IF FreshVote(s, s.precommitByVoter, m)
  THEN CheckPrecommitQuorum(n, RecordPrecommit(n, s, m), m.block)
  ELSE RecordPrecommit(n, s, m)

HandleCommit(n, s, m) ==
  [s EXCEPT !.committed = TRUE, !.roundActive = FALSE, !.committedBlock = m.block]

\* Fault: the reporter is jailed in place of the offender.
HandleEvidenceOfSender(n, s, m) == Jail(n, s, m.from)

HandleEvidence(n, s, m) == Jail(n, s, m.offender)

Past(s, m) ==
  m.height < s.currentHeight \/ (m.height = s.currentHeight /\ m.round < s.currentRound)

Future(s, m) ==
  m.height > s.currentHeight \/ (m.height = s.currentHeight /\ m.round > s.currentRound)

\* A message of the past is dropped; one of a later height or round ends the
\* round and waits in pendingMessages.
HandleMessage(n, s, m) ==
  CASE Past(s, m)   -> s
    [] Future(s, m) -> [s EXCEPT !.pendingMessages = Append(@, m), !.roundActive = FALSE]
    [] OTHER        -> CASE m.type = "Proposal"  -> HandleProposal(n, s, m)
                         [] m.type = "Prevote"   -> HandlePrevote(n, s, m)
                         [] m.type = "Precommit" -> HandlePrecommit(n, s, m)
                         [] m.type = "Commit"    -> HandleCommit(n, s, m)
                         [] m.type = "Evidence"  -> HandleEvidence(n, s, m)

\* A message that the handlers leave without effect now and later: it is of the
\* past, or a proposal or evidence that comes too late to change anything, or
\* its height is over for the validator.
Ignored(s, m) ==
  \/ Past(s, m)
  \/ m.height = s.currentHeight /\ ~s.active
  \/ Current(s, m) /\ m.type = "Proposal" /\ s.prevoteSent
  \/ Current(s, m) /\ m.type \in {"Prevote", "Precommit"} /\ m.from \in s.jailedPeers

\* Fault: gives up the round without a prevote.
OnProposalTimeoutSkipping(n, s) ==
  IF s.committed \/ s.prevoteSent THEN s ELSE [s EXCEPT !.roundActive = FALSE]

OnProposalTimeout(n, s) ==
  IF s.committed \/ s.prevoteSent THEN s ELSE SendPrevote(n, s, Nil)

\* Fault: precommits nil only when a quorum of prevotes was seen.
OnPrevoteTimeoutWaiting(n, s) ==
  IF s.committed \/ s.precommitSent
       \/ PowerOf({v \in Validators : s.prevoteByVoter[v] # NoVote})
            < QuorumPower(n, s.jailedPeers)
  THEN s ELSE SendPrecommit(n, s, Nil)

\* Fault: a timeout releases the lock.
OnPrevoteTimeoutUnlocking(n, s) ==
  IF s.committed \/ s.precommitSent THEN s ELSE SendPrecommit(n, Unlocked(s), Nil)

OnPrevoteTimeout(n, s) ==
  IF s.committed \/ s.precommitSent THEN s ELSE SendPrecommit(n, s, Nil)

OnPrecommitTimeout(n, s) ==
  IF s.committed THEN s ELSE [s EXCEPT !.roundActive = FALSE]

\* A timer of the current round fires: timers of earlier rounds and heights are
\* discarded by the loop, so s.timers only holds those of the current round.
HandleEvent(n, s, stage) ==
  LET fired == [s EXCEPT !.timers = @ \ {stage}]
  IN  CASE stage = "proposal"  -> OnProposalTimeout(n, fired)
        [] stage = "prevote"   -> OnPrevoteTimeout(n, fired)
        [] stage = "precommit" -> OnPrecommitTimeout(n, fired)
-----------------------------------------------------------------------------
SelectProposalBlock(s) ==
  IF s.validBlock # Nil /\ s.validHeight = s.currentHeight
  THEN s.validBlock ELSE Block(s.currentHeight, s.currentRound)

\* Fault: the votes of the round before are counted on.
RunRoundKeepingVotes(n, s, round) ==
  LET opened == ScheduleStageTimeout(
                  [s EXCEPT !.currentRound = round, !.roundActive = TRUE,
                            !.prevoteSent = FALSE, !.precommitSent = FALSE,
                            !.timers = {}], "proposal")
      proposer == ProposerFor(n, s.jailedPeers, s.currentHeight, round)
      proposal == Msg("Proposal", n, opened, SelectProposalBlock(opened))
  IN  IF opened.aborted \/ n # proposer THEN opened
      ELSE HandleProposal(n, Broadcast(opened, proposal), proposal)

\* The opening of a round, up to the message loop.  Votes are kept per round and
\* only those of the current round are ever read, so the maps start empty.
RunRound(n, s, round) ==
  LET opened == ScheduleStageTimeout(
                  [s EXCEPT !.currentRound = round, !.roundActive = TRUE,
                            !.prevoteSent = FALSE, !.precommitSent = FALSE,
                            !.prevoteByVoter = NoVotes, !.precommitByVoter = NoVotes,
                            !.timers = {}], "proposal")
      proposer == ProposerFor(n, s.jailedPeers, s.currentHeight, round)
      proposal == Msg("Proposal", n, opened, SelectProposalBlock(opened))
  IN  IF opened.aborted \/ n # proposer THEN opened
      ELSE HandleProposal(n, Broadcast(opened, proposal), proposal)

\* The next iteration of the round loop of StartConsensus, with the escalation
\* of the timeout cap that ends the previous one.
NextRound(n, s) ==
  LET tried == s.currentRound - StartRound + 1
      cap   == IF EscalatesAfter(tried) THEN EscalatedCap(s.timeoutMultiplierCap)
               ELSE s.timeoutMultiplierCap
  IN  RunRound(n, [s EXCEPT !.timeoutMultiplierCap = cap], s.currentRound + 1)

\* StartConsensus up to the message loop of its first round.  A jailed
\* validator returns at once.
StartConsensus(n, s, height) ==
  LET jailed == s.jailed \/ n \in s.jailedPeers
      begun  == [s EXCEPT !.active = ~jailed, !.jailed = jailed,
                          !.currentHeight = height, !.currentRound = StartRound,
                          !.roundActive = TRUE, !.prevoteSent = FALSE,
                          !.precommitSent = FALSE, !.committed = FALSE,
                          !.committedBlock = Nil]
      unlocked == IF s.lockedHeight = height THEN begun
                  ELSE [begun EXCEPT !.lockedBlock = Nil, !.lockedRound = 0,
                                     !.lockedHeight = height]
      cleared  == IF s.validHeight = height THEN unlocked
                  ELSE [unlocked EXCEPT !.validBlock = Nil, !.validRound = 0,
                                        !.validHeight = height]
  IN  IF jailed THEN begun
      ELSE RunRound(n, [cleared EXCEPT !.pendingMessages = <<>>, !.aborted = FALSE],
                    StartRound)

\* The return of StartConsensus.  What the next call resets is reset here: no
\* code reads it in between.
Returned(s) ==
  IF s.active /\ ~s.committed /\ ~s.aborted THEN s
  ELSE [s EXCEPT !.active = FALSE, !.timers = {}, !.pendingMessages = <<>>,
                 !.prevoteByVoter = NoVotes, !.precommitByVoter = NoVotes]

NewNode ==
  [active |-> FALSE, currentHeight |-> 0, currentRound |-> 0, roundActive |-> FALSE,
   prevoteSent |-> FALSE, precommitSent |-> FALSE,
   prevoteByVoter |-> NoVotes, precommitByVoter |-> NoVotes,
   pendingMessages |-> <<>>, committed |-> FALSE, committedBlock |-> Nil,
   lockedBlock |-> Nil, lockedRound |-> 0, lockedHeight |-> 0,
   validBlock |-> Nil, validRound |-> 0, validHeight |-> 0,
   jailed |-> FALSE, jailedPeers |-> {}, aborted |-> FALSE,
   timeoutMultiplierCap |-> DefaultCap, timers |-> {}, out |-> {}]
=============================================================================

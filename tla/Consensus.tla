------------------------------ MODULE Consensus ------------------------------
(***************************************************************************)
(* RunConsensus: one goroutine per validator runs StartConsensus on the    *)
(* same height, and the next height starts when all of them have returned. *)
(* The validators share nothing but the network.  A step is one handler,   *)
(* from the message or timer that the loop of runRound selects up to the   *)
(* next time it selects.                                                   *)
(*                                                                         *)
(* The network is the full mesh (buildFullPeers) seen from its ends: a     *)
(* message is in inbox[v] from the call to Broadcast until v takes it from *)
(* its channel, in any order, since delays and workers reorder messages.   *)
(***************************************************************************)
EXTENDS Validator

CONSTANTS
  MaxStrikes,  \* strikes after which the network disconnects, 0 for never
  MaxHeight,   \* bound on the heights run
  MaxRound     \* bound on the rounds of a height

ASSUME BoundsAssumption ==
  MaxStrikes \in Nat /\ MaxHeight \in Nat \ {0} /\ MaxRound \in Nat /\ StartRound <= MaxRound

VARIABLES
  height,   \* the height RunConsensus is called with
  node,     \* the Node of each validator
  inbox,    \* messages to each validator, in flight or in its channel In
  strikes,  \* strikeCount of the network, up to MaxStrikes
  sent      \* history: every message a validator broadcast

vars == <<height, node, inbox, strikes, sent>>

Disconnected(v) == MaxStrikes > 0 /\ strikes[v] >= MaxStrikes

\* In the message loop of runRound.
Looping(s) == s.active /\ s.roundActive /\ ~s.committed

\* A timer that fires after its stage is over does nothing for the rest of the
\* round, and is left out.
Settled(s) ==
  [s EXCEPT !.timers = @ \ ((IF s.prevoteSent THEN {"proposal"} ELSE {})
                            \cup (IF s.precommitSent THEN {"prevote"} ELSE {}))]

\* What is left to read: Ignored messages are dropped unread, among them those
\* of earlier heights, which clearOldMessages drops if they are in the channel.
Pertinent(s, messages) == {m \in messages : ~Ignored(s, m)}

\* A handler reports a validator at most once, since it jails it.
Reported(s, v) == \E m \in s.out : m.type = "Evidence" /\ m.offender = v

\* The end of a handler of n, which left the record s and took `consumed` from
\* the inbox: its broadcasts go out, and each evidence is a strike.
Finish(n, s, consumed) ==
  LET done == Returned(Settled([s EXCEPT !.out = {}]))
  IN  /\ node' = [node EXCEPT ![n] = done]
      /\ sent' = sent \cup s.out
      /\ inbox' = [v \in Validators |->
           IF v = n THEN Pertinent(done, inbox[n] \ consumed)
           ELSE IF Disconnected(n) \/ Disconnected(v) THEN inbox[v]
           ELSE inbox[v] \cup Pertinent(node[v], s.out)]
      /\ strikes' = [v \in Validators |->
           IF Reported(s, v) /\ strikes[v] < MaxStrikes THEN strikes[v] + 1 ELSE strikes[v]]
      /\ UNCHANGED height

Init ==
  /\ height = 1
  /\ node = [v \in Validators |-> NewNode]
  /\ inbox = [v \in Validators |-> {}]
  /\ strikes = [v \in Validators |-> 0]
  /\ sent = {}
-----------------------------------------------------------------------------
Start(n) ==
  /\ node[n].currentHeight < height
  /\ Finish(n, StartConsensus(n, node[n], height), {})

StartNextRound(n) ==
  LET s == node[n]
  IN  /\ s.active /\ ~s.roundActive /\ s.currentRound < MaxRound
      /\ Finish(n, NextRound(n, s), {})

\* Messages that waited for a later round go before the channels.
HandlePending(n) ==
  LET s == node[n]
  IN  /\ Looping(s) /\ s.pendingMessages # <<>>
      /\ Finish(n, HandleMessage(n, [s EXCEPT !.pendingMessages = Tail(@)],
                                 Head(s.pendingMessages)), {})

Receive(n) ==
  LET s == node[n]
  IN  /\ Looping(s) /\ s.pendingMessages = <<>>
      /\ \E m \in inbox[n] : Finish(n, HandleMessage(n, s, m), {m})

Timeout(n, stage) ==
  LET s == node[n]
  IN  /\ Looping(s) /\ s.pendingMessages = <<>> /\ stage \in s.timers
      /\ Finish(n, HandleEvent(n, s, stage), {})

\* deliver drops a message to or from a disconnected validator that was already
\* in flight; one already in the channel may still be read.
Lose(n) ==
  \E m \in inbox[n] :
    /\ Disconnected(n) \/ Disconnected(m.from)
    /\ inbox' = [inbox EXCEPT ![n] = @ \ {m}]
    /\ UNCHANGED <<height, node, strikes, sent>>

\* RunConsensus waits for every StartConsensus before the next height is run.
NextHeight ==
  /\ height < MaxHeight
  /\ \A v \in Validators : node[v].currentHeight = height /\ ~node[v].active
  /\ height' = height + 1
  /\ UNCHANGED <<node, inbox, strikes, sent>>

\* What the goroutine and the timers of n do without any delivery.
Proceed(n) ==
  \/ Start(n)
  \/ StartNextRound(n)
  \/ HandlePending(n)
  \/ \E stage \in Stages : Timeout(n, stage)

Next ==
  \/ NextHeight
  \/ \E n \in Validators : Proceed(n) \/ Receive(n) \/ Lose(n)

Spec == Init /\ [][Next]_vars

\* Where Proceed(n) and Receive(n) are enabled; both always change the state.
\* (WF_vars(Proceed(n)) says the same as the formula below, but TLC takes too
\* long to find out whether a nest of handlers is ENABLED.)
CanProceed(n) ==
  LET s == node[n]
  IN  \/ s.currentHeight < height
      \/ s.active /\ ~s.roundActive /\ s.currentRound < MaxRound
      \/ Looping(s) /\ (s.pendingMessages # <<>> \/ s.timers # {})

CanReceive(n) == Looping(node[n]) /\ node[n].pendingMessages = <<>> /\ inbox[n] # {}

\* The scheduler runs every goroutine and every timer ends.  Nothing is assumed
\* of deliveries: a worker may be held up for ever.
Fairness ==
  /\ WF_vars(NextHeight)
  /\ \A n \in Validators : []<>~CanProceed(n) \/ []<><<Proceed(n)>>_vars

FairSpec == Spec /\ Fairness

\* The same when the workers deliver: a validator with messages takes them.
DeliverySpec ==
  FairSpec /\ \A n \in Validators : []<>~CanReceive(n) \/ []<><<Receive(n)>>_vars
-----------------------------------------------------------------------------
\* The validators that voted `block` in a round, by the messages they sent.
Sent(type) == {m \in sent : m.type = type}

Voters(type, h, r, block) ==
  {v \in Validators : \E m \in Sent(type) :
     m.from = v /\ m.height = h /\ m.round = r /\ m.block = block}

\* Those votes reach the quorum of the whole voting power.
Polka(type, h, r, block) ==
  PowerOf(Voters(type, h, r, block)) >= QuorumOf(PowerOf(Validators))

\* Every variable has its type, and a handler leaves no message unsent.
TypeOK ==
  /\ height \in Nat
  /\ node \in [Validators -> NodeRecords]
  /\ \A v \in Validators : node[v].out = {}
  /\ inbox \in [Validators -> SUBSET Messages]
  /\ strikes \in [Validators -> 0 .. MaxStrikes]
  /\ sent \subseteq Messages

\* A vote counted in the current round was cast in that round by its voter:
\* neither messages of other rounds and heights nor pendingMessages that waited
\* for their round are ever counted where they do not belong (handleMessage,
\* recordPrevote, recordPrecommit).
CountedVotesWereCast ==
  \A n, v \in Validators :
    LET s == node[n]
    IN  /\ s.prevoteByVoter[v] # NoVote =>
             v \in Voters("Prevote", s.currentHeight, s.currentRound, s.prevoteByVoter[v])
        /\ s.precommitByVoter[v] # NoVote =>
             v \in Voters("Precommit", s.currentHeight, s.currentRound, s.precommitByVoter[v])

\* A validator that does not double-sign casts at most one prevote and at most
\* one precommit a round, although handlers, timers and nested quorum checks all
\* lead to sendPrevote and sendPrecommit.
OneVotePerRound ==
  \A type \in {"Prevote", "Precommit"} : \A a, b \in Sent(type) :
    a.from = b.from /\ a.from \notin Equivocators /\ a.height = b.height /\ a.round = b.round
    => a = b

\* A committed block has the precommits of a quorum behind it in the round of
\* the commit, also where handleCommit took it from a Commit message without
\* counting a single vote.
CommitCertified ==
  \A v \in Validators :
    node[v].committed =>
      /\ node[v].committedBlock # Nil
      /\ Polka("Precommit", node[v].currentHeight, node[v].currentRound,
               node[v].committedBlock)

\* A locked block won a quorum of prevotes in the round of the lock, and so did
\* the valid block that a proposer will propose again.
LockJustified ==
  \A v \in Validators :
    LET s == node[v]
    IN  /\ s.lockedBlock # Nil =>
             Polka("Prevote", s.lockedHeight, s.lockedRound, s.lockedBlock)
        /\ s.validBlock # Nil =>
             Polka("Prevote", s.validHeight, s.validRound, s.validBlock)

\* A validator that precommitted a block stays locked, on it or on the block of
\* a later quorum, unless a later round of the height had a quorum of prevotes
\* for nil (checkPrevoteQuorum).
LockHeld ==
  \A m \in Sent("Precommit") :
    LET s == node[m.from]
    IN  m.block # Nil /\ m.from \notin Equivocators /\ m.height = s.currentHeight
        => \/ s.lockedBlock # Nil /\ s.lockedRound >= m.round
           \/ \E r \in m.round + 1 .. s.currentRound :
                Polka("Prevote", m.height, r, Nil)

\* Two blocks are committed at one height only if a round between the commits
\* had a quorum of prevotes for nil: without one the locks keep later rounds to
\* the first block.
AgreementUnlessNilPolka ==
  \A a, b \in Sent("Commit") :
    a.height = b.height /\ a.round <= b.round /\ a.block # b.block
    => \E r \in a.round + 1 .. b.round - 1 : Polka("Prevote", a.height, r, Nil)

\* What is committed was proposed at that height.
Validity ==
  \A c \in Sent("Commit") : \E p \in Sent("Proposal") :
    p.height = c.height /\ p.block = c.block

\* A validator past the first round of a height follows a precommit of the round
\* before: nobody is moved ahead by messages of a round that was never reached.
RoundEntryJustified ==
  \A v \in Validators :
    LET s == node[v]
    IN  s.currentRound > StartRound =>
          \E m \in Sent("Precommit") :
            m.height = s.currentHeight /\ m.round = s.currentRound - 1

\* Evidence only ever jails a validator that is configured to double-sign:
\* delays, reordering and Evidence messages of others never frame another.
NoHonestJailed == \A v \in Validators : node[v].jailedPeers \subseteq Equivocators

\* A validator in the message loop that is not jailed always has something left
\* to move it on: a pending message, or the timer of the stage it waits for.
NeverStranded ==
  \A v \in Validators :
    LET s == node[v]
    IN  Looping(s) /\ ~s.jailed /\ s.pendingMessages = <<>> =>
          /\ ~s.prevoteSent => "proposal" \in s.timers
          /\ s.prevoteSent /\ ~s.precommitSent => "prevote" \in s.timers
          /\ s.precommitSent => "precommit" \in s.timers

\* The valid block of a height is only replaced by the block of a later quorum;
\* in particular a quorum for nil releases the lock and keeps it.
ValidMovesForward ==
  [][\A v \in Validators :
       LET s == node[v]
           t == node[v]'
       IN  s.validBlock # Nil /\ t.currentHeight = s.currentHeight
             /\ s.validHeight = s.currentHeight
           => /\ t.validBlock # Nil /\ t.validHeight = s.validHeight
              /\ t.validBlock # s.validBlock => t.validRound > s.validRound]_vars

\* With a limit on timeouts every call of StartConsensus returns, even if no
\* message is ever delivered.
Termination ==
  \A v \in Validators : \A h \in 1 .. MaxHeight :
    height >= h ~> node[v].currentHeight >= h /\ ~node[v].active

\* The same but for a validator that learns in the middle of a round that it is jailed:
\* sendPrevote and sendPrecommit then start no timer.  It holds up nobody else.
TerminationUnlessJailed ==
  \A v \in Validators : \A h \in 1 .. MaxHeight :
    height >= h ~> node[v].jailed \/ (node[v].currentHeight >= h /\ ~node[v].active)

\* The promise of TestHonestMajorityCommits: all validators that commit a height
\* commit the same block.
Agreement ==
  \A u, v \in Validators :
    /\ node[u].committed /\ node[v].committed
    /\ node[u].currentHeight = node[v].currentHeight
    => node[u].committedBlock = node[v].committedBlock

\* The comment of StartConsensus: a height ends with a commit or an abort.
CommitOrAbort == \A v \in Validators : ~(node[v].committed /\ node[v].aborted)
=============================================================================

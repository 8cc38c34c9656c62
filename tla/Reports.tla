------------------------------ MODULE Reports ------------------------------
(***************************************************************************)
(* What a simulation reports of a height: the HeightMetrics every          *)
(* validator keeps beside the state of Consensus, the summary RunConsensus *)
(* takes from them, and what RunSimulation makes of it.  Durations and the *)
(* lock fields, copies of the state, are left out.                         *)
(***************************************************************************)
EXTENDS Consensus

CONSTANT NoProposer  \* no entry in ProposerByRound

VARIABLE metrics  \* HeightMetrics of each validator for the height it is in

Rounds == StartRound .. MaxRound

NewMetrics ==
  [RoundsAttempted |-> 0, CommitRound |-> 0, CommitBlock |-> Nil, Success |-> FALSE,
   Aborted |-> FALSE, ProposerByRound |-> [r \in Rounds |-> NoProposer],
   Timeouts |-> [stage \in Stages |-> 0]]

\* runRound counts the round, and notes the proposer in the view n has before it.
AttemptRound(n, m, s, round) ==
  [m EXCEPT !.RoundsAttempted = @ + 1,
            !.ProposerByRound[round] = ProposerFor(n, s.jailedPeers, height, round)]

\* checkPrecommitQuorum and handleCommit note the commit; abortConsensus takes
\* Success back, since it comes after a commit of the same handler.
Outcome(m, s) ==
  LET noted == IF s.committed
               THEN [m EXCEPT !.CommitRound = s.currentRound, !.Success = TRUE,
                              !.CommitBlock = s.committedBlock]
               ELSE m
  IN  IF s.aborted THEN [noted EXCEPT !.Aborted = TRUE, !.Success = FALSE] ELSE noted

\* Fault: timeouts of the prevote stage are not counted.
CountTimeoutExceptPrevote(m, s, stage) ==
  IF stage = "prevote" THEN m ELSE [m EXCEPT !.Timeouts[stage] = @ + 1]

\* Fault: a timeout of the prevote stage counts for the precommit stage as well.
CountTimeoutTwice(m, s, stage) ==
  IF stage = "prevote"
  THEN [m EXCEPT !.Timeouts["prevote"] = @ + 1, !.Timeouts["precommit"] = @ + 1]
  ELSE [m EXCEPT !.Timeouts[stage] = @ + 1]

\* The counters of onProposalTimeout, onPrevoteTimeout and onPrecommitTimeout.
CountTimeout(m, s, stage) ==
  IF \/ s.committed
     \/ stage = "proposal" /\ s.prevoteSent
     \/ stage = "prevote" /\ s.precommitSent
  THEN m ELSE [m EXCEPT !.Timeouts[stage] = @ + 1]

Skips(n) == node[n].jailed \/ n \in node[n].jailedPeers

Note(n, m) == metrics' = [metrics EXCEPT ![n] = m]

\* Fault: a height skipped in jail is no success.
SkippedMetricsFailed == NewMetrics

\* A validator that is jailed reports the heights it skips as successes.
SkippedMetrics == [NewMetrics EXCEPT !.Success = TRUE]

ReportsInit == Init /\ metrics = [v \in Validators |-> NewMetrics]

ReportsNext ==
  \/ NextHeight /\ UNCHANGED metrics
  \/ \E n \in Validators :
       \/ Start(n) /\ Note(n, IF Skips(n) THEN SkippedMetrics
                              ELSE Outcome(AttemptRound(n, NewMetrics, node[n], StartRound),
                                           node'[n]))
       \/ /\ StartNextRound(n)
          /\ Note(n, Outcome(AttemptRound(n, metrics[n], node[n], node[n].currentRound + 1),
                             node'[n]))
       \/ (HandlePending(n) \/ Receive(n)) /\ Note(n, Outcome(metrics[n], node'[n]))
       \/ \E stage \in Stages :
            /\ Timeout(n, stage)
            /\ Note(n, Outcome(CountTimeout(metrics[n], node[n], stage), node'[n]))
       \/ Lose(n) /\ UNCHANGED metrics

ReportsSpec == ReportsInit /\ [][ReportsNext]_<<vars, metrics>>

\* With the fairness of Consensus: metrics are only noted.
ReportsFairSpec == ReportsSpec /\ Fairness
-----------------------------------------------------------------------------
\* wg.Wait is over.
HeightOver == \A v \in Validators : node[v].currentHeight = height /\ ~node[v].active

\* v returned at once, being jailed when the height started.
Skipped(v) == metrics[v].RoundsAttempted = 0

\* What StartConsensus returned.
StartReturned(v) == node[v].committed \/ Skipped(v)

\* The summary of RunConsensus: taken from the first of the nodes, since all of
\* them have metrics.
Summary ==
  LET first == CHOOSE v \in Validators : \A w \in Validators : v <= w
      m     == metrics[first]
  IN  [Success |-> m.Success, Rounds |-> m.RoundsAttempted, CommitRound |-> m.CommitRound,
       CommitBlock |-> m.CommitBlock, Timeouts |-> m.Timeouts,
       CommitProposer |-> IF m.CommitRound # 0 THEN m.ProposerByRound[m.CommitRound]
                          ELSE NoProposer]

\* What RunSimulation writes: a failed height has no block.
Report ==
  LET success == Summary.Success /\ \A v \in Validators : StartReturned(v)
  IN  [Summary EXCEPT !.Success = success,
                      !.CommitBlock = IF success THEN @ ELSE Nil,
                      !.CommitProposer = IF success THEN @ ELSE NoProposer]
-----------------------------------------------------------------------------
\* Metrics have their type; no counter goes beyond one timeout of a stage a round.
MetricsTypeOK ==
  metrics \in [Validators ->
    [RoundsAttempted: 0 .. MaxRound, CommitRound: {0} \cup Rounds,
     CommitBlock: Blocks \cup {Nil}, Success: BOOLEAN, Aborted: BOOLEAN,
     ProposerByRound: [Rounds -> Validators \cup {NoProposer}],
     Timeouts: [Stages -> 0 .. MaxRound]]]

\* The message of RunSimulation for a height without success: validators exceeded
\* the limit on timeouts.  No height is reported as failed for another reason.
FailureMeansAbort ==
  HeightOver /\ ~Report.Success => \E v \in Validators : node[v].aborted

\* A height that was skipped in jail counts as a success of the validator, and jail is
\* a matter of what each validator believes.  Still a height is reported as a success
\* only if every validator that is not configured to double-sign committed a block.
SuccessMeansHonestCommits ==
  HeightOver /\ Report.Success =>
    \A v \in Validators \ Equivocators : ~Skipped(v) /\ node[v].committedBlock # Nil

\* The report names the block that all who committed have, and a proposer that did
\* propose it in the round named (ProposerByRound is the view of one validator).
ReportTrue ==
  HeightOver /\ Report.Success /\ Report.CommitRound # 0 =>
    /\ \A v \in Validators : node[v].committed => node[v].committedBlock = Report.CommitBlock
    /\ \E p \in Sent("Proposal") :
         /\ p.from = Report.CommitProposer
         /\ p.height = height /\ p.round = Report.CommitRound
         /\ p.block = Report.CommitBlock

\* No round of the height that is run had a quorum of prevotes for nil.
NoNilPolka == \A r \in Rounds : ~Polka("Prevote", height, r, Nil)

\* The summary is taken from one validator, and validators commit in different rounds,
\* by votes or by a Commit.  Among honest validators the report is true of all of
\* them, unless a quorum for nil released a lock, after which they may commit two
\* blocks (checkPrecommitQuorum, handleCommit, RunConsensus).
ReportTrueUnlessNilPolka == NoNilPolka => ReportTrue

\* Among honest validators timeouts account for every further round: as long as no
\* validator has counted one, nobody has left the first round.
TimeoutsExplainRounds ==
  (\A v \in Validators : \A stage \in Stages : metrics[v].Timeouts[stage] = 0)
  => \A v \in Validators : node[v].currentHeight = height => metrics[v].RoundsAttempted <= 1

\* The comment of HeightSummary: an aggregated view.  So the report of a height
\* that some validators committed names a block.
SummaryAggregates ==
  HeightOver /\ Report.Success /\ (\E v \in Validators : node[v].committed)
  => Report.CommitBlock # Nil
=============================================================================

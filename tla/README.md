# Verification of the Tendermint simulator

The repository is a Go program that runs several Tendermint-style validators in
one process over a simulated network. This directory holds TLA+ modules that
model it, TLC configurations that check the modules on small instances, and
theorems that TLAPS proves for every value of the constants. Every definition is
translated from the code; `PROJECT.json` (`map`) gives the lines each one stands
for. Line numbers below refer to `src/`.

    tlc -workers 2 -config two_heights.cfg MCReports.tla   # one run (modules: section 3)
    tlapm JailViewsProofs.tla                                # the proofs of one module

## 1. Inventory

| component | state | operations | talks to |
|---|---|---|---|
| Validator (`internal/consensus/node.go`, `votes.go`) | height and round, `roundActive`, `prevoteSent`, `precommitSent`, vote maps by round, `pendingMessages`, `committed`, `aborted`, lock and valid block, `jailedPeers`, `quorumPower`, timeout cap | a handler per message type and per stage timer; nested `send*`, `record*`, `check*Quorum`; `reportEvidence` | broadcasts and reports through the network; timers put events into `internal` |
| Round loop (`loop.go`) | the round, rounds tried, next escalation | `StartConsensus`, `clearOldMessages`, `runRound` | reads `In` and `internal`, calls the handlers |
| Voting power (`votes.go:508-565`, `node.go:261-289`) | none (pure) | `activeValidatorIDs`, `recomputeQuorum`, `proposerFor` | called by every handler |
| Stage timeouts (`node.go:313-414`) | cap, `aborted`, timers started | `timeoutFor`, `scheduleStageTimeout`, `escalateTimeoutCap`, `abortConsensus` | called by the round loop and `send*` |
| `RunConsensus` (`run.go`) | one goroutine per validator, a wait group | run one height on all, harvest a summary | starts all validators, waits for all |
| Network (`internal/network`) | inboxes, adjacency, keys, strikes, a queue of 1024 envelopes, workers | `Register`, `UpdatePeers`, `Broadcast`, `Unicast`, `ReportMisbehavior`, `deliver`, `Stop` | writes to the validators' channels of 64 |
| Messages (`internal/types`) | none | `SignBytes` | everywhere |
| Simulation driver (`cmd/tendermint-sim/simulate.go`) | configuration, summaries, the walk over the grid, files | build peers, run the heights, enumerate the grid, write reports | creates network and validators, calls `RunConsensus` |
| Command line (`cmd/tendermint-sim/main.go`) | a fixed configuration and grid | one call | `RunSimulationGrid` |

What is hard about it:

* *Concurrency and order.* Each validator runs its handlers one at a time in its
  own goroutine. Workers sleep for the delay of an envelope, so messages arrive
  in any order; timers race messages. A message of a later round ends the round
  it arrives in.
* *Nested calls.* `sendPrevote` records the own vote, may find the quorum, lock,
  precommit and commit, all before it returns to schedule its timer.
* *State that outlives its round.* Lock, valid block, jailed set, timeout cap
  and pending messages pass from round to round; some pass from height to height.
* *No catching up.* A Commit is taken only in the round it names. A validator
  that is past that round goes on without the ones that returned.
* *Failure.* Validators may double-vote, vote nil or keep silent; a reported
  double vote jails the voter in the view of one validator after the other and,
  after three strikes, cuts it off the network.
* *Blocking.* Bounded channels between validators that may have stopped reading, and
  workers that write to the queue they read.
* *Decisions taken under a lock and carried out without it.* `deliver` and `Unicast`
  read the registry, let go of it, and deliver or strike later.
* *Two records of one thing.* Metrics beside the state, a summary from one validator,
  metadata beside the configuration that was run.

What makes each part correct:

* Validators: a commit and a lock have a quorum of votes of their round behind
  them; locks are kept; only one block is committed at a height; one vote per
  round; only double-signers are jailed; a height ends.
* Voting power: quorums intersect in more than the power that may double-sign;
  the proposer exists and is one of the active validators.
* Timeouts: escalation keeps ahead of the back-off, what one height leaves behind does
  not harm the next, and a limit within its reach ends every height, for the width of
  an `int`.
* Network: adjacency is symmetric, gossip reaches everybody connected, a message
  arrives once, strikes hit the offender, nobody waits for ever.
* `RunConsensus` and the driver: a height starts when the last one is over, the
  report says what happened, each combination of the grid is run once and
  its files are its own.

The hazards, each at its line with the properties that watch it, are in
`PROJECT.json` (`hazards`).

## 2. What is modelled, and how it corresponds to the code

| module | what it is |
|---|---|
| `VotingPower` | `powerMap`, active validators, quorum, proposer, as operators of the jailed set |
| `JailViews` | power, double-signers and the jailed sets of two validators: quorums and proposers of both |
| `Timeouts` | `timeoutFor` on `int`s of `WordBits` bits, cap, limit and escalation, as operators |
| `TimeoutEscalation` | the timeouts of one validator over many rounds and heights, with votes left open |
| `Validator` | the handlers as functions from node record to node record |
| `Consensus` | the state machine: all validators, the network seen from its ends, the heights |
| `LockedVoting` | abstract: votes, locks and decisions without messages, timers or nesting |
| `ConsensusRefinement` | the mapping under which `Consensus` implements `LockedVoting` |
| `Reports` | `Consensus` with the metrics of every validator, the summary and the report of a height |
| `Network` | `SimulatedNetwork`: registry, links, gossip, retries, strikes, disconnection |
| `Delivery` | `SimulatedNetwork`: bounded queue and inboxes, workers, `Stop`; who waits for whom |
| `SimulationGrid` | the walk over the grid, labels, configurations and the files of each run |
| `MC...` | the instances and schedules for TLC of the module named |
| `ConsensusProofs` | the handlers' types, type correctness, that nobody is stranded; votes are counted where they were cast, cast once, and evidence is true; what locks, commits and rounds have behind them |
| `LockedVotingProofs` | what locks are worth: decisions agree unless nil had a quorum in between |
| `OutcomeProofs` | `Consensus` implements `LockedVoting`, so commits agree; reports are true to what validators did |
| `PowerProofs`, `JailViewsProofs` | what sets of validators hold and share, and who proposes how often |
| `NetworkProofs` | links have two ends; who is struck; what gossip reaches; messages arrive once |
| `GridProofs` | the walk visits each combination once; files stay apart and say what was run |
| `EscalationProofs` | the cap through rounds and heights, and what it bounds |

`Validator` extends `VotingPower` and `Timeouts`; `Consensus` extends `Validator`;
`Reports` and `ConsensusRefinement` extend `Consensus`. `TimeoutEscalation` extends
`Timeouts`, and `JailViews` instantiates `VotingPower` with powers that are a variable, so
that one run covers all of them. The network is cut in three: what validators
can observe of it (in `Consensus`), what it does with an envelope (`Network`), and what
blocks (`Delivery`). Each leaves open what the others are about.

**A handler is one step.** Validators share nothing but the network (the
network's lock protects `strikeCount` and the adjacency), so the only places
where another goroutine's progress can be seen are the reads from `In` and
`internal`. An action of `Consensus` goes from one `select` of `runRound`
(loop.go:192) to the next and contains the whole call chain. `Validator` writes
the chain as functions: `HandleMessage(n, s, m)` is the record of `n` after
`handleMessage`, with the broadcasts collected in `out`, and `Finish` puts the
record back and sends what is in `out`.

| action | code |
|---|---|
| `Start(n)` | `StartConsensus` to the first `select` of the first round |
| `StartNextRound(n)` | the next turn of the round loop, with the escalation that ends the one before |
| `HandlePending(n)` | `runRound` takes a pending message |
| `Receive(n)` | `runRound` reads `In` |
| `Timeout(n, stage)` | `runRound` reads a stage timer of the round |
| `Lose(n)` | `deliver` finds no inbox, or no key of the sender: one of them was disconnected |
| `NextHeight` | `RunConsensus` returns and is called for the next height |

`node[n]` has the fields of `Node` and `ValidatorState`. `active` is true inside
`StartConsensus`. `timers` holds the stages with a timer of the current round
outstanding. A vote's (`Block`, `Valid`) pair is its `blockKey`.

**Abstractions.** These leave out detail that no property tells apart:

* *Network.* Topology is the full mesh (`buildFullPeers`, and the tests). A
  message is in `inbox[v]` from `Broadcast` until `v` reads it, and may be
  read at any time after that: delay, jitter, the queue, the workers and the
  channel together reorder arbitrarily. The sets lose nothing: an honest
  validator sends a message once, and a second copy of a vote has no effect
  (`recordPrevote` sums the power of a *set* of voters, votes.go:345-351). `EachOnce`
  of `Network` is what justifies an inbox that neither loses nor doubles messages. A validator
  never waits for the network here; `WaitsOnlyInJam` of `Delivery` says when it does.
* *Votes.* The maps are kept per round, and code reads only the current round,
  so the model keeps those of the current round. `prevotePower` of a key is the
  power of the voters recorded for it. The quorum is recomputed after every
  change of `jailedPeers`, so it is a function of it.
* *`PowerOf`.* The code adds powers in a loop. The model counts units of power
  (`UnitsOf`), which makes the sum a cardinality: no recursion, so the module
  can be proved about.
* *`Ignored` and `Settled`.* A message or timer that its handler would leave
  without any effect, now and later, is removed when that becomes certain rather
  than when it is read. It saves steps that change nothing. A validator blocked
  in a full channel is not expressed here anyway.
* *Pending messages of the next height.* `clearOldMessages` moves them from the
  channel to `pendingMessages`. In the model they stay in the inbox, whence they
  can be read first: every order the code may see is one the model has. Messages
  of earlier heights are dropped in either case.
* *Lock.* votes.go:413 assigns the lock only if it differs; since a lock is never
  of a later round than the current one, assigning always is the same.
* *Signatures.* Every message is signed by its sender and keys are registered
  before the first height, so `deliver` rejects nothing except from disconnected
  validators; ed25519 is not modelled.
* *Left out* because nothing in `Consensus` reads it: logs, `EvidenceLog`,
  `ValidRound` in proposals, `proposalReceived`, and the metrics, which `Reports` adds.
  `SetTimeouts`, `SetBehavior`, `SetPowerMap` and the like are called before the
  first height: constants.

**`Network`.** An action is what happens under one hold of the lock, so `deliver` is
three: `Deliver` reads inbox and key and decides (network.go:369-394), `PutIntoInbox` and
`Punish` carry the decision out when the world may have changed. `Broadcast` is one
action since it works on a snapshot and enqueues what it found. Envelopes are a bag:
delays, the order of the queue and the number of workers put no order on them.
`configured` is `Node.peers`, which `SetNetwork` and `SetPeers` write together with the
registry. `Ring` and `Full` are the topologies of the driver (`buildRingPeers`,
`buildFullPeers`). `Honest` are the validators that sign, bring a key and unicast to
`configured` peers only. `Node.unicast` (node.go:298) wraps `Unicast`, and nothing in the
repository calls it; `Unicast` is modelled as a part of the network's interface.

**`Delivery`.** One height. `Take`, `StartRetry`, `Requeue`, `Refuse`, `PutIntoInbox`,
`GiveUp`, `Exit` are the places where a worker can be between two `select`s; a worker
in `retrying` is past the first `select` of `enqueue` (network.go:331) and waits in the
second, which may still send when the network is stopped meanwhile. Validators send and
return when they like, up to `MaxBroadcasts`; a validator in `Broadcast` reads nothing, as
in the code. A `Jam` is a full queue with every worker waiting: for room in the queue, or
for room in the inbox of a validator that has returned or is in `Broadcast` itself.

**`TimeoutEscalation`.** One validator. Stages are entered in any order votes could
bring about, and each entry schedules a timer or gives the height up. `cap` survives the
height (node.go:333).

**`Reports`.** Every action of `Consensus` with what it writes into `HeightMetrics`.
`Outcome` combines the writes of `checkPrecommitQuorum`, `handleCommit` and
`abortConsensus` in the order in which they can happen in one handler.

**`SimulationGrid`.** A configuration is a function from the fields; an option's label is
the field with what the label shows of the value (whole milliseconds, the *number* of
Byzantine validators, the sanitized name of a topology), and `Joined` is what
`strings.Join` makes of them. Durations are in nanoseconds, and metadata hold them as
`writeMetadataFile` writes them: whole milliseconds of timeouts, hundredths of a
millisecond of the jitter, rounded to a nearest one (`Hundredths`). `Dimensions` are the populated
fields in the order of their
positions in `Fields`. `chosen` is the stack of the recursion in `RunSimulationGrid`.
The wall clock counts seconds, as base names do, and may stand still. Each run
writes its metadata under `<<second, label>>`; `CSV` files have the same names.

**`LockedVoting`.** At most one prevote and one precommit of a validator a round;
a precommit for a block needs a quorum of prevotes of its round, a decision a quorum of
precommits; and a prevote for a block must be `Free`: every earlier precommit of the
voter for another block was released by a quorum of prevotes of a later round, for nil
or for a third block. The mapping takes votes from the messages sent. Several of these
happen in one handler, so one step of `LockedVoting` may do all of them. It quantifies over
whole quorums of the voting power, so it is implemented while nobody is jailed.

Definitions marked `Fault:` are wrong versions of the definition after them. They
are not part of the model; each is used to see that a property notices the fault
(`mutants`).

## 3. The runs

| run | module | instance | checks | states |
|---|---|---|---|---|
| `two_heights` | `MCReports` | 2 honest, two heights of two rounds, a limit on timeouts | `CountedVotesWereCast`, `RoundEntryJustified`, `NoHonestJailed`, `MetricsTypeOK`, `TimeoutsExplainRounds`, `ImplementsLockedVoting` | 279 k |
| `left_behind` | `MCConsensus` | 3 honest, three rounds, restricted schedule, a second height entered | `TypeOK`, `AgreementUnlessNilPolka`, `LockHeld`, `LockJustified`, `ValidMovesForward` | 449 k |
| `second_round` | `MCReports` | 3 honest, two rounds, restricted schedule | `ReportTrueUnlessNilPolka` | 263 k |
| `double_signer` | `MCConsensus` | 3, one casts two prevotes and hears no votes, one round | `CommitCertified`, `NoHonestJailed`, `OneVotePerRound`, `Validity` | 129 k |
| `jailing` | `MCReports` | 2, validator 0 casts two prevotes, withholds precommits and is cut off by the first strike, two heights, a limit on timeouts | `NeverStranded`, `FailureMeansAbort`, `SuccessMeansHonestCommits`, `TerminationUnlessJailed` | 10 k |
| `jail_views` | `MCJailViews` | 4 validators of powers 1 to 6, 2 suspects, 2 views | `QuorumsShareThird`, `QuorumsShareHonest`, `ProposersTakeTurns` | 32 k |
| `escalation` | `MCTimeoutEscalation` | 3 heights of up to 18 rounds, a limit of 300 times the base | `TypeOK`, `FirstRoundsAsIfNew`, `RoundsBounded`, `GivesUpNoLater`, `HeightEnds` | 1 k |
| `network` | `MCNetwork` | a ring of 4, one of them not honest, 2 changes of links, 1 send, 1 retry | `TypeOK`, `LinksSymmetric`, `EachOnce`, `HonestStruckByStaleLink`, `GossipSurvivesOneLoss`, `WorkEnds` | 741 k |
| `delivery` | `MCDelivery` | 2 validators of 3 broadcasts, 2 workers, a queue of 2, inboxes of 1, one key missing | `TypeOK`, `WaitsOnlyInJam`, `StopReturns` | 177 k |
| `grid` | `MCSimulationGrid` | the base and the grid of `main.go` | `ProductCovered`, `ArtifactsKept`, `MetadataExact` | 21 k |
| `agreement` | `MCConsensus` | 3 honest, three rounds | violates `Agreement` (finding 1) | |
| `jailed_waits` | `MCConsensus` | 2, the last double-signs | violates `Termination` (finding 2) | |

`CHECK_DEADLOCK` is off: the program stops after its last height, the grid after its
last combination, the network when there is nothing to deliver, and a validator that
reaches a bound stops there.

*Why these bounds.*

* *Validators.* With three validators of power 1 the quorum is 2: any two decide and a
  third can be left out, which is the smallest instance where one validator commits and
  others do not. Two validators cannot have a quorum for nil against a proposal, since
  the proposer prevotes its own. Three validators through two rounds in every order are
  more than ten million states; the runs with three therefore choose a schedule by a
  `CONSTRAINT` that names the situation of interest: `OneMissesFirstRound` (validator 1
  hears no vote in round 1 while 0 and 2 decide), `ZeroStaysInFirstRound` (a committed or
  slow validator leaves the rest), `SecondHeightBegins` (locks are cleared, nobody votes yet),
  `ZeroMissesFirstRound` with `TwoFollowsCommit` (validator 0
  misses the votes of round 1 and 2 follows it into round 2 only when it has committed),
  `OneIsDeaf` (what the double-signer does is
  fixed before votes reach it) with `CutOffLate` (its two strikes cut its links only when
  an honest validator has committed). Everything else stays free. Two rounds are enough for a
  vote, a lock or a pending message to be carried over, two heights for the resets, three
  rounds for a lock to be released in the second and a second block to win in the third.
* *Views.* Powers from 1 to 6 on four validators have totals of every remainder modulo 3
  and 7, and shares on both sides of a seventh and a third.
* *Timeouts.* Escalation doubles its distance each time, so its cap of 512 is reached in
  the seventeenth round; 18 rounds go past it. `RoundsBounded` needs a limit below 512 times
  the base, and `int`s of more than 17 bits.
* *Network.* A ring of four is the smallest in which a broadcast has to pass through a
  neighbour. Two changes of links let one end undo what the other did, and two strikes, with
  `MaxStrikes = 2`, cut a validator off; one send has up to three envelopes, each with one retry.
* *Delivery.* Two validators send up to three envelopes each, more than a queue of two, two
  workers and an inbox of one can hold, and validator 0's come without a key: both kinds of
  jam happen in the run. The real numbers are 1024 and 64 and some workers, to be exceeded by
  the envelopes of one height.

*What they show.*

* `CommitCertified` (`double_signer`), `LockJustified`: `handleCommit` (votes.go:270) commits on a
  single message and a proposer re-proposes its valid block, both without counting;
  the votes exist all the same, in the very round the state names. With powers of 1 jailing
  one of three leaves the quorum what it was; where it does not, see the table in section 4.
* `CountedVotesWereCast`, `RoundEntryJustified`: messages of later rounds, kept in
  `pendingMessages`, are counted in their round and nowhere else, and move nobody
  into a round that was never reached. Nor are votes of two rounds taken for a double vote
  (`NoHonestJailed` in `two_heights`).
* `LockHeld`, `AgreementUnlessNilPolka`: the only way to lose a lock is a quorum
  of prevotes for nil in a later round, and without one no second block is
  committed. The condition is needed: see finding 1.
* `ValidMovesForward`: the valid block survives the release of the lock and is only
  replaced by the block of a later quorum.
* `ImplementsLockedVoting`: with no double-signer every handler is a step of `LockedVoting`,
  in the version with metrics as well. Section 5 says what follows.
* `OneVotePerRound`, `NoHonestJailed`, `Validity`: with a third of the power
  double-signing, honest validators vote once, only the double-signer is ever jailed, and
  the block it invents is not committed.
* `NeverStranded`: whoever waits in the loop, and is not jailed, has a timer of the
  stage it waits in. Together with the limit on timeouts this is why a height ends.
* `TerminationUnlessJailed`: every `StartConsensus` returns, but for that of a validator which is
  jailed in the middle of a round, and such a one holds up nobody else. It needs the exception:
  see finding 2.
* `ReportTrueUnlessNilPolka`: the summary is one validator's, others commit in other rounds,
  and yet it names the block that all have, with its proposer and round. After a quorum for nil
  it need not (finding 1). `TimeoutsExplainRounds`: counted timeouts are the reason for further
  rounds. `FailureMeansAbort`, `SuccessMeansHonestCommits`: success and failure are folded from
  two sources, with validators skipped in jail among the successes; still a failed height was
  given up by somebody, and a successful one was committed by everybody who does not double-sign.
* `QuorumsShareThird`, `QuorumsShareHonest`, `ProposersTakeTurns`: two quorums share a third of
  the power, rounded up; a validator that lowers its quorum for the jailed leaves a seventh,
  instead of a third, to double-signers, because votes of the jailed stay counted; proposers take
  turns in proportion to their power in every view.
* `FirstRoundsAsIfNew`, `RoundsBounded`, `GivesUpNoLater`, `HeightEnds`: the cap that is never
  reset does no harm, and back-off and escalation together do exceed a limit.
* `LinksSymmetric`, `EachOnce`, `GossipSurvivesOneLoss`, `HonestStruckByStaleLink`, `WorkEnds`: of
  registrations, new links, strikes and retries in any order; section 1 lists the questions.
* `WaitsOnlyInJam`, `StopReturns`: full channels hold up a `Broadcast` or a retry for ever only
  when nothing moves any more, one validator that reads no more is not enough; and `Stop` gets
  everybody out. That there are such jams is seen in `delivery.cfg` changed as section 4 says.
* `ProductCovered`, `ArtifactsKept`, `MetadataExact`: for the grid of `main.go`, whose durations
  are whole milliseconds. Section 4 names grids for which the last two fail.

*Fairness.* In `Consensus`, `FairSpec` says that a goroutine that can go on does (the Go
scheduler is fair to goroutines; the goroutine of a timer sleeps and sends, node.go:409) and that
`RunConsensus` returns when all have. It assumes nothing of deliveries: a worker
may sleep through its delay, or block, for ever. `TerminationUnlessJailed` needs
`MaxTimeout > 0`; without it nothing bounds the rounds. The limit aborts the
height in round `MaxRound` at the latest, so that this bound does not help.
`DeliverySpec` adds that messages are taken; the run `jailed_waits` uses it so
that the counterexample does not rest on a message withheld for ever. The
fairness of `Proceed` is written out with `CanProceed`, its enabling condition, because TLC
evaluates `ENABLED` of nested handlers too slowly. `ReportsFairSpec` has the same fairness: metrics
are only
noted.

In `Delivery`, every goroutine that can go on does: each worker, a validator in
`Broadcast`, the reading of a validator that runs, and a `select` between `stopCh` and another case.
When a validator sends or returns, and whether a late key comes, is not assumed. In `Network` only
`Work` is fair: some worker goes on as long as there is an envelope. In `TimeoutEscalation` the
timers fire and rounds go on; no vote is assumed to come.

## 4. Where code and comments or tests differ

Two of these are runs that TLC must find violated:

1. **Two honest validators commit different blocks** (`agreement`). Validators 0,
   1, 2 have power 1. In round 1 validators 0 and 2 precommit a block, 0 commits and
   leaves; its Commit and the precommits reach nobody in time. 1 and 2 enter round 2,
   whose proposer would be 0: both prevote nil by timeout, locked or not
   (`onProposalTimeout`). That is a quorum for nil, which releases 2's lock (votes.go:402).
   In round 3 they commit another block. The late Commit of 0 is dropped as past
   (votes.go:21). `test/consensus_scenarios_test.go:47` claims one block for all nodes of an
   honest run.
2. **A validator jailed in the middle of a round waits for ever** (`jailed_waits`).
   `sendPrevote` and `sendPrecommit` return at votes.go:104 and its twin without a
   timer; nothing ends the round, and `RunConsensus` waits for it. loop.go:9-10: a validator
   runs "until the node commits (or aborts ...)".

The others are stated as properties of the modules. TLC finds each of them violated when a
configuration of section 3 is changed as the last column says, with the property named in place
of the ones it lists:

| what differs | property | to see it violated |
|---|---|---|
| jailing lowers the quorum at once (votes.go:317) while votes of the jailed stay counted: powers 2, 2, 1 commit with 3 of 5, of which the jailed validator has one. votes.go:427: `checkPrecommitQuorum` acts "once precommits reach +2/3 power" | `CommitCertified` | `double_signer.cfg` with `Power <- TwoTwoOne`, `Behavior <- LastDoubleSigns`, without `CONSTRAINTS` |
| `deliver` waits for the channel of a validator that reads no more (network.go:400); workers, then the queue, then a validator in `Broadcast` wait for ever. network.go:328: `enqueue` "schedules delivery ... unless the network is stopping" | `BroadcastReturns` | `delivery.cfg` with `QueueCap = 1`, `Keyless <- None`: only inboxes of validators that have returned hold the workers up |
| a worker puts an envelope back into the queue it drains (network.go:381): when the queue is full and all workers do, none gets on; the same comment | `RetriesEnqueued` | `delivery.cfg` with `InboxCap = 6`: inboxes have room for all that is sent |
| `1 << offset` turns negative and the multiplier is 1 again (node.go:344), at offset 63 in the code; before that it stays at 512. node.go:177-178: without a limit timeouts "grow without bound" | `TimeoutsGrow` | `escalation.cfg` with `MaxTimeout = 0`, `MaxHeight = 1`, `MaxRound = 24`, `WordBits = 20`, `SPECIFICATION Spec` |
| timeouts are written as whole milliseconds (simulate.go:652-655) and the jitter with two decimals; README.md:54 promises "the exact hyperparameters" | `MetadataExact` | `grid.cfg` with `Grid <- HalfMillisecondGrid` |
| `sendPrecommit` commits in `checkPrecommitQuorum` and then schedules its timer (votes.go:243); over the limit that aborts the height: committed and aborted at once | `Consensus!CommitOrAbort` | `two_heights.cfg` with `BaseTimeout <- LongPrecommit`, `MaxTimeout = 1` |
| with validator 0 skipped in jail the summary is a success without a block, whatever the others committed (run.go:30) | `Reports!SummaryAggregates` | `jailing.cfg` |
| two variants of one Byzantine validator have one label and overwrite each other's files within a second (simulate.go:176) | `ArtifactsKept` | `grid.cfg` with `Grid <- ByzantineGrid` |
| a largest delay below the least is replaced for the run but not in its metadata (simulate.go:99) | `MetadataExact` | `grid.cfg` with `Grid <- DelayGrid` |
| the configuration of an artifact keeps a seed of zero, not the seed of the run (simulate.go:225) | `SimulationGrid!ArtifactExact` | `grid.cfg` |

## 5. What is proved

Theorems about `Spec` of `Consensus` hold for every finite set of validators, power map,
behaviour (any number of double-signers), base timeout, limit and bound. The
assumptions are the named ones of the modules: validators are a finite non-empty set
of numbers (`ValidatorsAssumption`), powers and timeouts are numbers
(`PowerAssumption`, `TimeoutAssumption`), switches are the six of the code
(`BehaviorAssumption`), `Nil` and `NoVote` are no blocks (`NilAssumption`), bounds are
numbers and leave room for a first round (`BoundsAssumption`).

| theorem | property | when |
|---|---|---|
| `ConsensusProofs!TypeCorrect` | `TypeOK` | always |
| `ConsensusProofs!NobodyStranded` | `NeverStranded` | always |
| `ConsensusProofs!VotesCountedWhereCast` | `CountedVotesWereCast` | always |
| `ConsensusProofs!HonestVoteOnce` | `OneVotePerRound` | always |
| `ConsensusProofs!HonestStayFree` | `NoHonestJailed` | always |
| `ConsensusProofs!LocksAreJustified` | `LockJustified` | `QuorumKept` |
| `ConsensusProofs!CommitsAreCertified` | `CommitCertified` | `QuorumKept` |
| `ConsensusProofs!LocksAreHeld` | `LockHeld` | `QuorumKept` |
| `ConsensusProofs!ValidBlockMovesForward` | `ValidMovesForward` | `QuorumKept` |
| `ConsensusProofs!CommitsWereProposed` | `Validity` | `QuorumKept`, and double-signers alone are no quorum |
| `ConsensusProofs!RoundsFollowPrecommits` | `RoundEntryJustified` | nobody withholds precommits (`SilentPrecommit`) |
| `OutcomeProofs!ImplementsVoting` | `ImplementsLockedVoting` | nobody double-signs |
| `OutcomeProofs!CommitsAgree` | `AgreementUnlessNilPolka` | nobody double-signs |
| `OutcomeProofs!QuorumsMeet` | quorums are what `LockedVoting` assumes | always |
| `OutcomeProofs!FailuresAreAborts` | `FailureMeansAbort` | always |
| `OutcomeProofs!SuccessesAreHonestCommits` | `SuccessMeansHonestCommits` | always |
| `OutcomeProofs!MetricsTypeCorrect` | `MetricsTypeOK` | always |
| `OutcomeProofs!RoundsFollowTimeouts` | `TimeoutsExplainRounds` | nobody is set to vote for nil or twice |
| `OutcomeProofs!ReportsAreTrue` | `ReportTrueUnlessNilPolka` | nobody double-signs |
| `LockedVotingProofs!LocksAgree` | `DecisionsAgree` of `LockedVoting` | quorums meet |
| `JailViewsProofs!ThirdIsShared` | `QuorumsShareThird` | always |
| `JailViewsProofs!HonestIsShared` | `QuorumsShareHonest` | always |
| `JailViewsProofs!EachProposesItsShare` | `ProposersTakeTurns` | always |
| `NetworkProofs!LinksHaveTwoEnds` | `LinksSymmetric` | always |
| `NetworkProofs!HonestStruckForOthers` | `HonestStruckByStaleLink` | peers are configured mutually |
| `NetworkProofs!GossipGoesRound` | `GossipSurvivesOneLoss` | validators `0 .. n - 1` on a ring or in a full mesh |
| `NetworkProofs!EachArrivesOnce` | `EachOnce` | always |
| `NetworkProofs!NetworkTyped` | `TypeOK` of `Network` | always |
| `EscalationProofs!CapTypeCorrect` | `TypeOK` of `TimeoutEscalation` | always |
| `EscalationProofs!CapLeavesFirstRounds` | `FirstRoundsAsIfNew` | always |
| `EscalationProofs!HeightsAreBounded` | `RoundsBounded` | an `int` has more than 17 bits |
| `EscalationProofs!LaterHeightsGiveUpNoLater` | `GivesUpNoLater` | the limit is reachable, the three base timeouts are equal |
| `GridProofs!EachCombinationOnce` | `ProductCovered` | always |
| `GridProofs!FilesStayApart` | `ArtifactsKept` | the labels of a dimension, sanitized, tell its options apart, and so does joining them |
| `GridProofs!MetadataIsTrue` | `MetadataExact` | timeouts are positive whole milliseconds, jitters whole hundredths of one, no largest delay is below a least one |

The premises are about constants, and each is needed.

* `QuorumKept`: the quorum of a validator that jailed some double-signers is still one of the
  whole power. `HonestKeepQuorum` proves it when nobody double-signs, for all powers; it also
  holds when the power of a double-signer is lost in rounding, as for one of three or one of six
  validators of power 1. It does not hold in general, since `recomputeQuorum` lowers the quorum
  with the active power (votes.go:317), and then the properties fail too: the instance
  for `CommitCertified` is in the table of section 4.
* A validator with `SilentPrecommit` goes to the next round by its timer without having sent a
  precommit, so that a round can follow none.
* A validator that votes for nil can end a round without a timer, and so can a quorum that
  hears two votes of one validator. Silent validators are allowed.
* `LockedVoting` lets nobody vote twice, so a double-signer's second vote of a round is no step of it.
* The code has `int`s of 64 bits (of 32 on some platforms). Below 18 bits the shift of the
  multiplier is lost before the cap has reached its last value.
* With base timeouts that differ, a height can give up in the prevote stage of a round and a later
  height, which begins with the larger cap, run another stage of it first.
* After a quorum for nil two blocks can be committed at one height (finding 1), and the report
  can name one of them only.
* A ring of validators, or any mesh, that somebody rewired can fall apart; the theorem about gossip
  is about the links that `RunSimulation` sets up, less those of one validator that was cut off.
* The premises about the grid are those of section 4: options with one label share their files
  within a second (`LabelsTell`), `RunSimulation` and `NewNode` mend delays and timeouts without
  writing it down (`NothingToMend`), and what is written is rounded (`WholeDurations`). Labels are
  free text, and may hold what joins or introduces another segment: `JoinTells` asks that no two
  paths of the grid have one joined label for different segments. The grid of `main.go`
  satisfies all of them.

*Types.* `TypeOK` is inductive as it stands. The argument follows the call graph:
`ConsensusProofs` has a lemma per handler, innermost first (`ScheduleType`,
`RecordType`, ... `HandleMessageType`, `StartConsensusType`): given a node record it
returns one. `FinishType` turns this into a fact about the whole state, and
`NextType` has a step per action.

*Votes.* The next three are not inductive and need each other: a validator is jailed
because two different votes of one voter are on record, so one must know that a
recorded vote was cast and that honest voters cast one; a voter casts one because
its flag `prevoteSent` is set with the first and cleared only with a new round, so one must
know where its earlier votes are; and a postponed message counts later, so one must
know it was sent. `VotesInv` says all of it: for each validator `Sound(n, node[n],
sent)`, whose parts are `OneVote`, `TrueEvidence` (evidence names double-signers),
`NotAhead` (own votes are of earlier rounds or remembered by the flags), `Counted`, and
what `jailedPeers` and `pendingMessages` hold. `Sound` is stated for a record in the middle
of a handler, with the broadcasts that are still in `out` counted as known, because the
code nests its calls: each handler has a lemma that it keeps `Sound`, built from a few
primitive steps (`AlikeSound` for updates of other fields, `SaySound`,
`FirstVoteSound`, `SecondVoteSound`, `RecordPrevoteSound`, `JailSound`).
`DoneSound` and `FinishSound` carry it to the next state.

*Nobody stranded.* `NeverStranded` depends on the order of nested calls: a quorum that completes inside
`sendPrevote` precommits before the prevote timer is started. The strengthening is stated per
record, with the timer of every stage that was entered, and carried through the handlers like
the types.

*Locks.* The properties of locks need a finer view of a handler than what it returns. The second half of
`ConsensusProofs` takes a handler apart into *steps*: `Step(n, S, s, t)` says how a node record may
change between two calls, by a lock (`Locks`), an unlock (`Unlocks`) or something that leaves the
locks alone
(`Onward`: a broadcast with what warrants it, a recorded vote, a commit, an end of round). A
set of records is `Closed` when no step leaves it. One lemma per handler, again innermost first
(`ScheduleWithin` to `RunRoundWithin`), shows that the handler leaves no `Closed` set, and
`HandlersWalk` says it of whole actions: what `Proceed(n)` or `Receive(n)` ends with is in every
closed set that the record it began with is in. An invariant of the records is then proved by one
lemma about `Onward`, one about `Locks` and `Unlocks`, and one about how handlers begin (`Opens`).
Three sets are used: `Kept` for the locks, `Entered` for the rounds, `Named` for the refinement.

`LockInv` is `VotesInv` with `MessageFacts` (a precommit has a quorum of prevotes behind it, a commit
one of precommits, a prevote a proposal) and `RecordFacts` for each validator: locks and valid
blocks have a quorum of the round they remember (`Justified`) and are not ahead of their owner
(`LocksBehind`); whoever precommitted a block is locked at least that late, or nil has won since
(`StillLocked`); and a lock of the current round has a quorum among the votes that are still
counted (`RoundQuorum`). The last one is what makes it inductive: two blocks with a quorum in
one round would break `StillLocked`, and double-signers could bring them about among the
messages, but no validator counts two votes of one voter. `Forward` compares a record in the
middle of a handler with the one it began with, for the action property.

*Rounds.* `EntryInv` says of messages, not only of validators, that their rounds were entered after
precommits (`AllFollowed`), because a message of a later round moves whoever reads it; and of
each running validator that the round may only end after a precommit of it (`RoundFacts`).

*Refinement.* `PlaceInv` adds to `LockInv` that validators are at the height that is run or the one
before, and that votes name blocks which can be proposed (`WellNamed`). `Handled` collects what a
handler leaves behind, and each conjunct of `Voting!Handle` has a lemma: `MovesMapped`,
`PrevoteMapped`, `PrecommitMapped`, `CommitMapped`. That a handler casts one vote of each type at most
is `OneVotePerRound`; that a prevote is `Free` is `StillLocked` at the moment it is cast
(`FreeToPrevote`). `CommitsAgree` is `LocksAgree` seen through the mapping.

*Agreement.* `LocksAgree`: two blocks get quorums of precommits at one height only if a round
between them had a quorum of prevotes for nil. The invariant `VotingInv` says that votes are
not ahead of their voters, one a round, that a precommit has a quorum of prevotes behind it
(`Backed`), that a validator which precommitted a block prevotes another only after a quorum
of a later round (`Bound`), and, as what makes it inductive, `Settled`: when a block has a
quorum of prevotes in a round, no other block can get a quorum of precommits in an earlier
one, because some member of every quorum has left that round without a precommit for it, unless
nil had a quorum in between. The vote that completes a quorum is the only interesting step
(`StepSettled`): were all of some quorum bound to another block, the member it shares with
the new one had been released, by nil or by a block for which the same was settled before. The
theorem asks of quorums only that they meet; `QuorumsMeet` shows it for two thirds of any
voting power, rounded up.

*Reports.* `SettledInv` says that an active validator has neither committed nor given up, is at the
height that is run, and that no commit is for nil (`Deciding` is one more closed set of records);
`HandlersDecide` adds that a validator which took part and stops has done one or the other. `TallyInv`
relates the metrics to it: a validator that stopped without either was skipped (`RoundsAttempted = 0`),
which counts as a success, and `Success` is kept by who committed and did not abort after it.
That a success needs the commits of all honest validators is `PresentInv`: none of them is ever
skipped, since `Sound` lets only double-signers be jailed and whoever is jailed knows it of itself. That
counters stay within the rounds tried rests on `Tallied`: a stage may still fire in a round
(`MayFire`) only if it has fired in fewer rounds than were tried, because handlers start the timer of
a stage only together with the flag of the vote before it (`Grows`, which `NobodyStranded` uses
too). `ProposerExists` shows that the `CHOOSE` of `ProposerFor` has something to choose.

`ReportsAreTrue` puts two views together. `NotedInv` says what a validator noted for itself: the
commit in its metrics is the one of its record, in the round it is still in, and the proposer it
named for that round is the one it computes without jailed peers. That somebody else committed the
same block is `CommitsAgree`, which asks for `NoNilPolka`. That the block was proposed by the named
validator in that very round needs that messages say so: `MessageFacts` includes that a proposal
comes from a validator that may propose in its round (`MayPropose`) and that a prevote is for a block
which such a proposal of its round named (`ProposedAs`). Without double-signers nobody is jailed, so
that there is one such validator (`OneProposer`).

*First rounds.* `FirstInv` says that until a timeout is counted at a height (`Untimed`), every record
and every message of the height is of its first round and every vote is for the block
proposed there (`First`, `OfFirst`). That the block is the same for whoever proposes rests on
`LocksBehind`: no lock and no valid block survives into a new height. A lemma per handler,
innermost first, keeps `First`; `EventFirst` shows that a timer which fires without being counted
is too late to do anything; and a round that is still running is the only one an active validator
can be in, so that no second round begins.

*Escalation.* `CapInv` relates the cap to the round: it never falls, and by the rounds 1, 2, 4, 8 and
16 of a height it is at least 32, 64, 128, 256 and 512 (`LeastCap`), so the exponent of a round is
never cut by it more than it was at the first height. Powers of two with a symbolic exponent are
opaque to the provers: the lemmas split on the values an exponent can have. `RoundsBounded` follows
because a timeout above the limit ends the height; `GivesUpNoLater` compares the timeout of a
round at this height with the same round of the first one.

*Quorums.* `PowerProofs` counts units of power: sets share the units of the validators they share,
and what two sets hold together is at most all there is. With `TwoThirds` and `QuorumOfView`
(the quorum of a view is two thirds of what is not jailed there) the rest is arithmetic.
`ViewsInv`: jailed validators are double-signers. The seventh of `HonestIsShared` is what
`4/3 (T - e) - T > e` comes to.

*Proposers.* `proposerFor` subtracts powers from an offset. Laid end to end in the order of the ids, the
shares of the active validators fill the units `0 .. T - 1` (`SharesCover`) and each unit has one
owner (`OneOwner`): the proposer of a round owns its offset. `T` consecutive rounds have every offset
once (`RemaindersOnce`), so a validator proposes as often as it has units.

*Network.* `LinksInv`: links have two ends, and only validators can be struck. `StrikeInv` adds
what an honest validator relies on: its messages are signed, its key is known unless it was cut off,
its configured peers are linked to it unless somebody else changed something, and it was struck
only after somebody else did. `HonestStruckForOthers` assumes that peers are configured mutually.

`EachArrivesOnce` needs both sides at once. `OnceInv` says that an envelope is a copy of a message that
was sent (`HistoryOK`), that no two copies of one message for one validator exist, on the way
or delivered (`AtMostOnce`), and that a copy is somewhere unless an end of it was cut off
(`AtLeastOnce`); the last one holds through a retry and a drop because an honest validator that still
has its inbox has its key (`RegistryInv`). Envelopes are a bag, so most lemmas are about adding
and removing one kind.

`Reach`, the traversal of `Broadcast`, is a function defined by recursion on the number of waves.
`WavesExist` shows that there is one such sequence of waves, by the least counterexample instead of
an induction, and `ReachWaves` that `Reach` is its last member. While the links that are left join
the validators that are left (`Joined`), each wave reaches somebody new, and there are as many waves
as validators (`ReachAll`). `RingJoined` is the combinatorial part: a set of validators that no link
leaves would have to go all the way round a ring which is open at one place at most.

*Grid.* `Done(c)` is the set of paths that turn off, at some level, to an earlier option than the walk
at `c`: the leaves it has been down. Going down leaves `Done` as it is (`DescendDone`), so does going
back up from a level whose options are used up (`BacktrackDone`), and a run adds the one path that it
ends (`RunDone`). `WalkInv` says that the results so far are the runs of `Done(chosen)`, each once;
when the walk is over that is every path, and combinations and paths correspond one to one
(`CombinationsArePaths`). Under `LabelsTell` and `JoinTells` two paths have different labels
(`LabelsDiffer`), so that
no later run writes a file of an earlier one (`KeptInv`), whatever second it ends in. Under
`NothingToMend` and `WholeDurations` what `RunSimulation` computes with is what it writes
(`WholeMilliseconds`, `WholeHundredths`, `NothingMended`, `ExactInv`).

Only model-checked:

* all liveness (`TerminationUnlessJailed`, `WaitsOnlyInJam`, `StopReturns`, `WorkEnds`,
`HeightEnds`): TLAPS does
  no liveness under fairness;
* `TypeOK` of `Delivery`, which bounds its queue, inboxes and retries: each bound is the guard of
  the only action that reaches it, so that a proof would repeat the guards; what is of interest
  there, who waits for whom, is liveness.

The proofs rest on bounds in the guards of the models (`MaxRound`, `MaxHeight`, `MaxSends` and the
like) only as numbers: they hold for every value of them.

## 6. Plan

Every component is modelled, two of them in part (section 7), and every safety property that a passing
run checks is proved, but for the one named last in section 5. Liveness stays with TLC as long as
TLAPS has no rules for
`ENABLED` and fairness.

## 7. Not modelled, and why

* The columns of the CSV files, the layout of metadata files and what `main` prints: formatting
  and I/O. Which files are written for which run, and how metadata round, is modelled.
* ed25519 and `SignBytes`: whether a message is signed and the key is known is modelled; that
  signatures cannot be forged is taken from the library.
* Colours, labels and the wording of logs; `EvidenceLog`, which is written only.
* The unsynchronised `rand.Rand` of `delayFn` (simulate.go:103): a data race whose only use
  is a delay, and delays are arbitrary in every module.
* Durations, start times and real delays: a timer may fire any time after it was started, so
  nothing proved or checked here rests on how long a message takes.
* `JailPeer`, which is called by a test only, before a height starts.

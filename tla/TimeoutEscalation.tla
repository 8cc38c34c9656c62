------------------------- MODULE TimeoutEscalation -------------------------
(***************************************************************************)
(* The timeouts of one validator over many rounds and heights: back-off,   *)
(* escalation of the cap, which no height resets, and the abort at the     *)
(* limit.  Which votes and commits arrive is left open.                    *)
(***************************************************************************)
EXTENDS Timeouts

CONSTANTS
  MaxHeight,  \* bound on the heights run
  MaxRound    \* bound on the rounds of a height

ASSUME BoundsAssumption ==
  MaxHeight \in Nat /\ MaxRound \in Nat /\ StartRound <= MaxRound

Heights == 1 .. MaxHeight
Rounds == StartRound .. MaxRound

VARIABLES
  height,     \* the height of StartConsensus, 0 before the first
  round,      \* currentRound
  cap,        \* timeoutMultiplierCap
  entered,    \* stages of the round that were entered, each with a timer
  committed,
  aborted,
  gaveUp      \* history: the round in which each height was aborted, or 0

vars == <<height, round, cap, entered, committed, aborted, gaveUp>>

Running == height > 0 /\ ~committed /\ ~aborted

Init ==
  /\ height = 0 /\ round = StartRound
  /\ cap = 0
  /\ entered = {}
  /\ committed = FALSE /\ aborted = FALSE
  /\ gaveUp = [h \in Heights |-> 0]

\* The timers of `stages` are started, or the height is given up.
Schedule(stages) ==
  IF \E stage \in stages : ExceedsMax(stage, round', cap')
  THEN aborted' = TRUE /\ gaveUp' = [gaveUp EXCEPT ![height'] = round']
  ELSE aborted' = FALSE /\ UNCHANGED gaveUp

\* configureTimeouts gives a cap to a node that has none.
FirstCap(c) == IF c = 0 THEN DefaultCap ELSE c

StartHeight ==
  /\ ~Running /\ height < MaxHeight
  /\ height' = height + 1 /\ round' = StartRound
  /\ cap' = FirstCap(cap)
  /\ committed' = FALSE
  /\ entered' = {"proposal"}
  /\ Schedule(entered')

\* A message or a timer makes the validator prevote, precommit or both, and
\* commit if its precommit completes a quorum.
Enter(stages) ==
  /\ Running
  /\ stages # {} /\ stages \subseteq {"prevote", "precommit"} \ entered
  /\ committed' \in BOOLEAN /\ (committed' => "precommit" \in stages)
  /\ entered' = entered \cup stages
  /\ UNCHANGED <<height, round, cap>>
  /\ Schedule(stages)

\* A Commit message, or the vote of another that completes a quorum.
Commit ==
  /\ Running
  /\ committed' = TRUE
  /\ UNCHANGED <<height, round, cap, entered, aborted, gaveUp>>

\* A round ends and the next begins, with the escalation in between.
NextRound ==
  /\ Running /\ round < MaxRound
  /\ cap' = IF EscalatesAfter(round - StartRound + 1) THEN EscalatedCap(cap) ELSE cap
  /\ round' = round + 1
  /\ entered' = {"proposal"}
  /\ UNCHANGED <<height, committed>>
  /\ Schedule(entered')

\* The timer of a stage fires: on to the next stage, or to the next round.
Fire ==
  \/ \E stages \in SUBSET {"prevote", "precommit"} :
       /\ "prevote" \notin entered /\ "prevote" \in stages
       /\ Enter(stages)
  \/ "prevote" \in entered /\ Enter({"precommit"})
  \/ "precommit" \in entered /\ NextRound

Next ==
  \/ StartHeight
  \/ Commit
  \/ NextRound
  \/ \E stages \in SUBSET {"prevote", "precommit"} : Enter(stages)

Spec == Init /\ [][Next]_vars

\* Every timer fires: its goroutine sleeps and sends (scheduleEvent).  Nothing is
\* assumed of messages.
FairSpec == Spec /\ WF_vars(Fire)
-----------------------------------------------------------------------------
\* The cap only ever takes the values that doubling reaches.
TypeOK ==
  /\ height \in 0 .. MaxHeight /\ round \in Rounds
  /\ cap \in {0} \cup {2 ^ k : k \in 4 .. 9}
  /\ entered \subseteq Stages
  /\ committed \in BOOLEAN /\ aborted \in BOOLEAN
  /\ gaveUp \in [Heights -> {0} \cup Rounds]

\* The cap that earlier heights leave behind (configureTimeouts does not reset it)
\* shortens or lengthens no timeout of the first nine rounds: escalation runs ahead
\* of the back-off it caps.
FirstRoundsAsIfNew ==
  Running /\ round <= StartRound + 8 =>
    \A stage \in entered :
      TimeoutFor(stage, round, cap) = 2 ^ (round - StartRound) * BaseTimeout[stage]

\* A limit below 512 times the base, the largest multiplier escalation reaches, is
\* exceeded by the seventeenth round: without messages, too, no height goes on for
\* ever (scheduleStageTimeout, escalateTimeoutCap).
RoundsBounded ==
  MaxTimeout \in 1 .. LargestCap * BaseTimeout["proposal"] - 1 =>
    (Running => round < StartRound + 16)

\* What a height was given up for, every later height is given up for in the same
\* round or sooner: the cap that is carried over never makes the limit come later.
GivesUpNoLater ==
  Running => \A h \in 1 .. height - 1 : gaveUp[h] # 0 => round < gaveUp[h]

\* Under a limit that escalation can reach every height ends.
HeightEnds == Running ~> ~Running

\* The comment of SetMaxTimeout: without a limit timeouts grow without bound.  So
\* no round of a height has a shorter timeout than the one before.
TimeoutsGrow ==
  [][height' = height =>
       \A stage \in Stages :
         TimeoutFor(stage, round', cap') >= TimeoutFor(stage, round, cap)]_vars
=============================================================================

------------------------------ MODULE Timeouts ------------------------------
(***************************************************************************)
(* Stage timeouts of internal/consensus: the exponential back-off of       *)
(* timeoutFor, its cap, and the escalation of the cap by the round loop.   *)
(* Durations are naturals in an arbitrary unit.                            *)
(***************************************************************************)
EXTENDS Integers

CONSTANTS
  BaseTimeout,  \* base duration of each stage (SetTimeouts)
  MaxTimeout,   \* maxTimeout, 0 when no limit is set (SetMaxTimeout)
  StartRound,   \* first round of every height
  WordBits      \* width of a Go int: 64 on the platforms the code is built for

Stages == {"proposal", "prevote", "precommit"}

ASSUME TimeoutAssumption ==
  /\ BaseTimeout \in [Stages -> Nat \ {0}]
  /\ MaxTimeout \in Nat
  /\ StartRound \in Nat \ {0}
  /\ WordBits \in Nat \ (0 .. 11)

DefaultCap == 16
LargestCap == 512

\* 1 << k on a signed int: the sign bit at k = WordBits - 1, nothing beyond.
ShiftedOne(k) ==
  IF k < WordBits - 1 THEN 2 ^ k
  ELSE IF k = WordBits - 1 THEN -(2 ^ k) ELSE 0

Offset(round) == IF round < StartRound THEN 0 ELSE round - StartRound

Multiplier(round, cap) ==
  LET shifted == ShiftedOne(Offset(round))
      capped  == IF shifted > cap THEN cap ELSE shifted
  IN  IF capped < 1 THEN 1 ELSE capped

TimeoutFor(stage, round, cap) == Multiplier(round, cap) * BaseTimeout[stage]

ExceedsMax(stage, round, cap) ==
  MaxTimeout > 0 /\ TimeoutFor(stage, round, cap) > MaxTimeout

\* Fault: back to the default above the largest cap.
EscalatedCapStartingOver(cap) == IF cap < LargestCap THEN 2 * cap ELSE DefaultCap

\* Fault: no largest cap.
EscalatedCapWithoutEnd(cap) == 2 * cap

\* Fault: no more than four times the default.
EscalatedCapTooLow(cap) == IF cap < 64 THEN 2 * cap ELSE cap

EscalatedCap(cap) == IF cap < LargestCap THEN 2 * cap ELSE cap

\* Fault: not after the first round.
EscalatesAfterTwo(roundsTried) == \E k \in 1 .. roundsTried : 2 ^ k = roundsTried

\* The loop escalates when roundsTried reaches nextEscalation, which starts at
\* 1 and doubles each time: after 1, 2, 4, 8, ... rounds of a height.
EscalatesAfter(roundsTried) == \E k \in 0 .. roundsTried : 2 ^ k = roundsTried
=============================================================================

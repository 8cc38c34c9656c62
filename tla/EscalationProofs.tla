-------------------------- MODULE EscalationProofs --------------------------
(***************************************************************************)
(* What back-off and escalation do to a height, for all base timeouts and  *)
(* limits: the cap never falls, and after 1, 2, 4, 8 and 16 rounds of a    *)
(* height it is at least 32, 64, 128, 256 and 512.  Powers of two are      *)
(* numbers of the proof, since an exponent is opaque to the provers.       *)
(***************************************************************************)
EXTENDS TimeoutEscalation, TLAPS

Caps == {16, 32, 64, 128, 256, 512}

\* The cap after so many rounds of a height that began with the default.
LeastCap(tried) ==
  IF tried >= 16 THEN 512 ELSE IF tried >= 8 THEN 256 ELSE IF tried >= 4 THEN 128
  ELSE IF tried >= 2 THEN 64 ELSE IF tried >= 1 THEN 32 ELSE 16

CapInv ==
  /\ height \in 0 .. MaxHeight /\ round \in Rounds
  /\ cap \in {0} \cup Caps
  /\ height > 0 => cap \in Caps /\ cap >= LeastCap(round - StartRound)
  /\ entered \subseteq Stages
  /\ committed \in BOOLEAN /\ aborted \in BOOLEAN
  /\ gaveUp \in [Heights -> {0} \cup Rounds]
-----------------------------------------------------------------------------
LEMMA CapsArePowers == {2 ^ k : k \in 4 .. 9} = Caps
<1>1. 2 ^ 4 = 16 /\ 2 ^ 5 = 32 /\ 2 ^ 6 = 64 /\ 2 ^ 7 = 128 /\ 2 ^ 8 = 256 /\ 2 ^ 9 = 512
  OBVIOUS
<1>2. 4 .. 9 = {4, 5, 6, 7, 8, 9}
  OBVIOUS
<1>3. {2 ^ k : k \in {4, 5, 6, 7, 8, 9}} = {2 ^ 4, 2 ^ 5, 2 ^ 6, 2 ^ 7, 2 ^ 8, 2 ^ 9}
  <2> DEFINE p(k) == 2 ^ k
  <2>1. {p(k) : k \in {4, 5, 6, 7, 8, 9}} = {p(4), p(5), p(6), p(7), p(8), p(9)}
    <3> HIDE DEF p
    <3> QED
      OBVIOUS
  <2> QED
    BY <2>1
<1> QED
  BY <1>1, <1>2, <1>3 DEF Caps

LEMMA EscalationsMade ==
  EscalatesAfter(1) /\ EscalatesAfter(2) /\ EscalatesAfter(4) /\ EscalatesAfter(8)
  /\ EscalatesAfter(16)
<1>1. 2 ^ 0 = 1 /\ 2 ^ 1 = 2 /\ 2 ^ 2 = 4 /\ 2 ^ 3 = 8 /\ 2 ^ 4 = 16
  OBVIOUS
<1>2. 0 \in 0 .. 1 /\ 1 \in 0 .. 2 /\ 2 \in 0 .. 4 /\ 3 \in 0 .. 8 /\ 4 \in 0 .. 16
  OBVIOUS
<1> QED
  BY <1>1, <1>2, Zenon DEF EscalatesAfter

\* One more round: the cap keeps up.
LEMMA CapKeepsUp ==
  ASSUME NEW c \in Caps, NEW o \in Nat, c >= LeastCap(o),
         NEW d, d = IF EscalatesAfter(o + 1) THEN EscalatedCap(c) ELSE c
  PROVE  d \in Caps /\ d >= c /\ d >= LeastCap(o + 1)
<1>1. EscalatedCap(c) \in Caps /\ EscalatedCap(c) >= c
      /\ (c < 512 => EscalatedCap(c) >= 2 * c) /\ (c >= 512 => EscalatedCap(c) = c)
  BY DEF Caps, EscalatedCap, LargestCap
<1>2. d \in Caps /\ d >= c
  BY <1>1 DEF Caps
<1>3. CASE o \in {0, 1, 3, 7, 15}
  <2>1. o + 1 \in {1, 2, 4, 8, 16}
    BY <1>3
  <2>2. d = EscalatedCap(c)
    BY <2>1, EscalationsMade
  <2> QED
    BY <1>1, <1>2, <1>3, <2>2 DEF Caps, LeastCap
<1>4. CASE o \notin {0, 1, 3, 7, 15}
  <2>1. LeastCap(o + 1) = LeastCap(o)
    BY <1>4 DEF LeastCap
  <2> QED
    BY <1>2, <2>1 DEF Caps, LeastCap
<1> QED
  BY <1>3, <1>4
-----------------------------------------------------------------------------
LEMMA CapInit == Init => CapInv
<1> SUFFICES ASSUME Init
             PROVE  CapInv
  OBVIOUS
<1>1. height = 0 /\ 0 \in 0 .. MaxHeight
  BY BoundsAssumption DEF Init
<1>2. round \in Rounds
  BY BoundsAssumption, TimeoutAssumption DEF Init, Rounds
<1>3. cap = 0 /\ entered \subseteq Stages /\ committed \in BOOLEAN /\ aborted \in BOOLEAN
  BY DEF Init
<1>4. gaveUp \in [Heights -> {0} \cup Rounds]
  BY DEF Init
<1> QED
  BY <1>1, <1>2, <1>3, <1>4 DEF CapInv

LEMMA ScheduleType ==
  ASSUME height' \in Heights, round' \in Rounds, NEW stages, Schedule(stages),
         gaveUp \in [Heights -> {0} \cup Rounds]
  PROVE  aborted' \in BOOLEAN /\ gaveUp' \in [Heights -> {0} \cup Rounds]
  BY DEF Schedule

LEMMA CapNext == CapInv /\ [Next]_vars => CapInv'
<1> SUFFICES ASSUME CapInv, [Next]_vars
             PROVE  CapInv'
  OBVIOUS
<1> USE BoundsAssumption, TimeoutAssumption
<1>1. CASE StartHeight
  <2>1. height' \in Heights /\ round' = StartRound
    BY <1>1 DEF StartHeight, CapInv, Heights
  <2>2. cap' \in Caps /\ cap' >= LeastCap(round' - StartRound)
    BY <1>1, <2>1 DEF StartHeight, CapInv, FirstCap, DefaultCap, Caps, LeastCap
  <2>3. aborted' \in BOOLEAN /\ gaveUp' \in [Heights -> {0} \cup Rounds]
    BY <1>1, <2>1, ScheduleType DEF StartHeight, CapInv, Rounds
  <2>4. entered' \subseteq Stages /\ committed' \in BOOLEAN
    BY <1>1 DEF StartHeight, Stages
  <2>5. height' \in 0 .. MaxHeight /\ round' \in Rounds
    BY <2>1 DEF Heights, Rounds
  <2> QED
    BY <2>2, <2>3, <2>4, <2>5 DEF CapInv
<1>2. ASSUME NEW stages, Enter(stages)
      PROVE  CapInv'
  <2>1. height \in Heights
    BY <1>2 DEF Enter, Running, CapInv, Heights
  <2>2. aborted' \in BOOLEAN /\ gaveUp' \in [Heights -> {0} \cup Rounds]
    BY <1>2, <2>1, ScheduleType DEF Enter, CapInv
  <2>3. committed' \in BOOLEAN /\ entered' \subseteq Stages
    BY <1>2 DEF Enter, CapInv, Stages
  <2> QED
    BY <1>2, <2>2, <2>3 DEF Enter, CapInv
<1>3. CASE Commit
  BY <1>3 DEF Commit, CapInv
<1>4. CASE NextRound
  <2>1. height \in Heights /\ round' \in Rounds
    BY <1>4 DEF NextRound, Running, CapInv, Heights, Rounds
  <2>2. aborted' \in BOOLEAN /\ gaveUp' \in [Heights -> {0} \cup Rounds]
    BY <1>4, <2>1, ScheduleType DEF NextRound, CapInv
  <2>3. cap' \in Caps /\ cap' >= LeastCap(round - StartRound + 1)
    BY <1>4, CapKeepsUp DEF NextRound, Running, CapInv, Rounds
  <2>4. round - StartRound + 1 = round' - StartRound
    BY <1>4 DEF NextRound, CapInv, Rounds
  <2>5. cap' >= LeastCap(round' - StartRound)
    BY <2>3, <2>4
  <2> QED
    BY <1>4, <2>1, <2>2, <2>3, <2>5 DEF NextRound, CapInv, Stages
<1>5. CASE UNCHANGED vars
  BY <1>5 DEF vars, CapInv
<1> QED
  BY <1>1, <1>2, <1>3, <1>4, <1>5 DEF Next

LEMMA CapAlways == Spec => []CapInv
  BY CapInit, CapNext, PTL DEF Spec

\* The cap takes only the values that doubling reaches (escalateTimeoutCap).
THEOREM CapTypeCorrect == Spec => []TypeOK
<1>1. CapInv => TypeOK
  BY CapsArePowers DEF CapInv, TypeOK
<1> QED
  BY <1>1, CapAlways, PTL
-----------------------------------------------------------------------------
\* The provers evaluate 2 ^ 3 but know nothing of 2 ^ o: o is given its values one by one.
PowerOfTwo(o) == 2 ^ o

LEMMA Powers ==
  ASSUME NEW o \in 0 .. 16
  PROVE  /\ PowerOfTwo(o) \in Nat \ {0}
         /\ o <= 4 => PowerOfTwo(o) <= 16
         /\ o <= 7 => PowerOfTwo(o) <= 128
         /\ o <= 8 => PowerOfTwo(o) <= 256
         /\ o = 16 => PowerOfTwo(o) = 65536
<1>1. /\ PowerOfTwo(0) = 1 /\ PowerOfTwo(1) = 2 /\ PowerOfTwo(2) = 4
      /\ PowerOfTwo(3) = 8 /\ PowerOfTwo(4) = 16 /\ PowerOfTwo(5) = 32
      /\ PowerOfTwo(6) = 64 /\ PowerOfTwo(7) = 128 /\ PowerOfTwo(8) = 256
      /\ PowerOfTwo(9) = 512 /\ PowerOfTwo(10) = 1024 /\ PowerOfTwo(11) = 2048
      /\ PowerOfTwo(12) = 4096 /\ PowerOfTwo(13) = 8192 /\ PowerOfTwo(14) = 16384
      /\ PowerOfTwo(15) = 32768 /\ PowerOfTwo(16) = 65536
  BY DEF PowerOfTwo
<1>2. o \in {0, 1, 2, 3, 4, 5, 6, 7, 8, 9, 10, 11, 12, 13, 14, 15, 16}
  OBVIOUS
<1> QED
  BY <1>1, <1>2

LEMMA Shifted ==
  ASSUME NEW o \in 0 .. 16, o < WordBits - 1
  PROVE  ShiftedOne(o) = PowerOfTwo(o) /\ ShiftedOne(o) \in Nat \ {0}
<1>1. ShiftedOne(o) = PowerOfTwo(o)
  BY DEF ShiftedOne, PowerOfTwo
<1> QED
  BY <1>1, Powers

\* Without an overflow the multiplier is the smaller of power and cap.
LEMMA MultiplierIs ==
  ASSUME NEW o \in 0 .. 16, o < WordBits - 1, NEW c \in Caps
  PROVE  Multiplier(StartRound + o, c)
           = IF PowerOfTwo(o) > c THEN c ELSE PowerOfTwo(o)
<1>1. Offset(StartRound + o) = o
  BY TimeoutAssumption DEF Offset
<1>2. Multiplier(StartRound + o, c)
        = LET capped == IF ShiftedOne(o) > c THEN c ELSE ShiftedOne(o)
          IN  IF capped < 1 THEN 1 ELSE capped
  BY <1>1 DEF Multiplier
<1>3. ShiftedOne(o) = PowerOfTwo(o) /\ PowerOfTwo(o) \in Nat \ {0}
  BY Shifted
<1>4. c \in Nat /\ c >= 1
  BY DEF Caps
<1> QED
  BY <1>2, <1>3, <1>4

\* The back-off of the first rounds is below the cap that escalation has reached.
LEMMA BelowCap ==
  ASSUME NEW o \in 0 .. 8, NEW c \in Caps, c >= LeastCap(o)
  PROVE  Multiplier(StartRound + o, c) = PowerOfTwo(o)
<1>1. o \in 0 .. 16 /\ o < WordBits - 1
  BY TimeoutAssumption
<1>2. PowerOfTwo(o) \in Nat \ {0} /\ PowerOfTwo(o) <= c
  BY <1>1, Powers DEF LeastCap, Caps
<1> QED
  BY <1>1, <1>2, MultiplierIs DEF Caps

\* The cap that earlier heights leave behind, which configureTimeouts does not reset,
\* changes no timeout of the first nine rounds of a height.
THEOREM CapLeavesFirstRounds == Spec => []FirstRoundsAsIfNew
<1>1. ASSUME CapInv
      PROVE  FirstRoundsAsIfNew
  <2> SUFFICES ASSUME Running, round <= StartRound + 8, NEW stage \in entered
               PROVE  TimeoutFor(stage, round, cap)
                        = 2 ^ (round - StartRound) * BaseTimeout[stage]
    BY DEF FirstRoundsAsIfNew
  <2> DEFINE o == round - StartRound
  <2>1. o \in 0 .. 8 /\ round = StartRound + o
    BY <1>1, TimeoutAssumption DEF CapInv, Rounds
  <2>2. cap \in Caps /\ cap >= LeastCap(o)
    BY <1>1 DEF CapInv, Running
  <2>3. Multiplier(StartRound + o, cap) = 2 ^ o
    BY <2>1, <2>2, BelowCap DEF PowerOfTwo
  <2>4. Multiplier(round, cap) = 2 ^ o
    BY <2>1, <2>3
  <2> QED
    BY <2>4 DEF TimeoutFor
<1> QED
  BY <1>1, CapAlways, PTL
-----------------------------------------------------------------------------
\* A limit within reach of escalation, on ints wide enough not to lose the shifted
\* bit before it is reached.
Reachable ==
  /\ MaxTimeout < LargestCap * BaseTimeout["proposal"]
  /\ WordBits > 17

BoundInv == CapInv /\ (MaxTimeout > 0 /\ Running => round < StartRound + 16)

\* In the seventeenth round of a height the cap is the largest, and the back-off beyond it.
LEMMA SeventeenthExceeds ==
  ASSUME Reachable, MaxTimeout > 0
  PROVE  ExceedsMax("proposal", StartRound + 16, 512)
<1>1. 16 \in 0 .. 16 /\ 16 < WordBits - 1 /\ 512 \in Caps
  BY TimeoutAssumption DEF Reachable, Caps
<1>2. PowerOfTwo(16) = 65536
  BY Powers
<1>3. Multiplier(StartRound + 16, 512) = 512
  BY <1>1, <1>2, MultiplierIs
<1> QED
  BY <1>3 DEF Reachable, ExceedsMax, TimeoutFor, LargestCap

LEMMA BoundNext ==
  ASSUME Reachable
  PROVE  BoundInv /\ [Next]_vars => BoundInv'
<1> SUFFICES ASSUME BoundInv, [Next]_vars, (MaxTimeout > 0)', Running'
             PROVE  round' < StartRound + 16
  BY CapNext DEF BoundInv
<1>1. MaxTimeout > 0
  OBVIOUS
<1>2. CapInv'
  BY CapNext DEF BoundInv
<1>3. CASE StartHeight
  BY <1>3, TimeoutAssumption DEF StartHeight
<1>4. ASSUME NEW stages, Enter(stages)
      PROVE  round' < StartRound + 16
  BY <1>1, <1>4 DEF Enter, BoundInv
<1>5. CASE Commit
  BY <1>5 DEF Commit, Running
<1>6. CASE NextRound
  <2>1. round < StartRound + 16 /\ round' = round + 1 /\ round \in Nat
    BY <1>1, <1>6, TimeoutAssumption DEF NextRound, BoundInv, CapInv, Rounds
  <2>2. ASSUME round' = StartRound + 16
        PROVE  FALSE
    <3>1. round' - StartRound = 16
      BY <2>2, TimeoutAssumption
    <3>2. cap' = 512
      BY <1>2, <3>1 DEF CapInv, Running, LeastCap, Caps
    <3>3. ExceedsMax("proposal", round', cap')
      BY <1>1, <2>2, <3>2, SeventeenthExceeds
    <3>4. Schedule(entered') /\ entered' = {"proposal"}
      BY <1>6 DEF NextRound
    <3> QED
      BY <3>3, <3>4 DEF Schedule, Running
  <2> QED
    BY <2>1, <2>2, TimeoutAssumption
<1>7. CASE UNCHANGED vars
  BY <1>1, <1>7 DEF vars, BoundInv, Running
<1> QED
  BY <1>3, <1>4, <1>5, <1>6, <1>7 DEF Next

LEMMA BoundAlways == ASSUME Reachable PROVE Spec => []BoundInv
<1>1. Init => BoundInv
  BY CapInit DEF BoundInv, Init, Running
<1>2. BoundInv /\ [Next]_vars => BoundInv'
  BY BoundNext
<1> QED
  BY <1>1, <1>2, PTL DEF Spec

\* Under a limit that escalation reaches no height gets to its seventeenth round
\* (scheduleStageTimeout aborts it there at the latest).
THEOREM HeightsAreBounded ==
  ASSUME WordBits > 17
  PROVE  Spec => []RoundsBounded
<1>1. CASE MaxTimeout \in 1 .. LargestCap * BaseTimeout["proposal"] - 1
  <2>1. Reachable
    BY <1>1, TimeoutAssumption DEF Reachable, LargestCap, Stages
  <2>2. BoundInv => RoundsBounded
    BY <1>1 DEF BoundInv, RoundsBounded
  <2> QED
    BY <2>1, <2>2, BoundAlways, PTL
<1>2. CASE MaxTimeout \notin 1 .. LargestCap * BaseTimeout["proposal"] - 1
  <2>1. RoundsBounded
    BY <1>2 DEF RoundsBounded
  <2> QED
    BY <2>1, PTL
<1> QED
  BY <1>1, <1>2
-----------------------------------------------------------------------------
\* As with the default configuration of a simulation.
EqualTimeouts == \A stage \in Stages : BaseTimeout[stage] = BaseTimeout["proposal"]

Exceeded(r, c) ==
  r \in StartRound .. StartRound + 16 /\ ExceedsMax("proposal", r, c)

GaveUpInv ==
  /\ BoundInv
  /\ \A h \in Heights : gaveUp[h] # 0 => h <= height /\ Exceeded(gaveUp[h], cap)
  /\ GivesUpNoLater

LEMMA LargerCapExceeds ==
  ASSUME Reachable, NEW c \in Caps, NEW d \in Caps, c <= d, NEW r, Exceeded(r, c)
  PROVE  Exceeded(r, d)
<1> DEFINE o == r - StartRound
           m(k) == IF PowerOfTwo(o) > k THEN k ELSE PowerOfTwo(o)
           B == BaseTimeout["proposal"]
<1>1. o \in 0 .. 16 /\ o < WordBits - 1 /\ r = StartRound + o
  BY TimeoutAssumption DEF Exceeded, Reachable
<1>2. Multiplier(r, c) = m(c) /\ Multiplier(r, d) = m(d)
  <2>1. Multiplier(StartRound + o, c) = m(c) /\ Multiplier(StartRound + o, d) = m(d)
    BY <1>1, MultiplierIs
  <2> QED
    BY <1>1, <2>1
<1>3. PowerOfTwo(o) \in Nat
  BY <1>1, Powers
<1>4. m(c) \in Nat /\ m(d) \in Nat /\ m(c) <= m(d)
  BY <1>3 DEF Caps
<1>5. B \in Nat
  BY TimeoutAssumption DEF Stages
<1>6. m(c) * B <= m(d) * B /\ m(c) * B \in Nat /\ m(d) * B \in Nat
  <2> HIDE DEF m, B
  <2>1. m(d) = m(c) + (m(d) - m(c)) /\ m(d) - m(c) \in Nat
    BY <1>4
  <2> QED
    BY <1>4, <1>5, <2>1
<1>7. MaxTimeout > 0 /\ m(c) * B > MaxTimeout
  BY <1>2 DEF Exceeded, ExceedsMax, TimeoutFor
<1>8. m(d) * B > MaxTimeout
  BY <1>6, <1>7, TimeoutAssumption
<1> QED
  BY <1>2, <1>7, <1>8 DEF Exceeded, ExceedsMax, TimeoutFor

LEMMA AnyStageExceeds ==
  ASSUME EqualTimeouts, NEW stage \in Stages, NEW r, NEW c
  PROVE  ExceedsMax(stage, r, c) <=> ExceedsMax("proposal", r, c)
  BY DEF EqualTimeouts, ExceedsMax, TimeoutFor

\* A step that starts timers: heights given up before are still exceeded, and one
\* that is given up now is.
LEMMA ScheduleGivesUp ==
  ASSUME Reachable, EqualTimeouts, GaveUpInv, CapInv', [Next]_vars,
         NEW stages \in SUBSET Stages, Schedule(stages),
         height' \in Heights, height' >= height,
         cap' \in Caps, height > 0 => cap' >= cap,
         MaxTimeout > 0 => round' <= StartRound + 16
  PROVE  /\ \A h \in Heights : gaveUp'[h] # 0 => h <= height' /\ Exceeded(gaveUp'[h], cap')
         /\ \A h \in Heights : h # height' => gaveUp'[h] = gaveUp[h]
         /\ stages # {} /\ Exceeded(round', cap') => aborted'
<1>1. gaveUp \in [Heights -> {0} \cup Rounds] /\ cap \in {0} \cup Caps
      /\ (height > 0 => cap \in Caps) /\ height \in Nat
  BY BoundsAssumption DEF GaveUpInv, BoundInv, CapInv
<1>2. ASSUME NEW h \in Heights, gaveUp[h] # 0
      PROVE  h <= height' /\ Exceeded(gaveUp[h], cap')
  <2>1. h <= height /\ Exceeded(gaveUp[h], cap)
    BY <1>2 DEF GaveUpInv
  <2>2. height > 0
    BY <1>1, <2>1 DEF Heights
  <2>3. Exceeded(gaveUp[h], cap')
    BY <1>1, <2>1, <2>2, LargerCapExceeds DEF Caps
  <2> QED
    BY <1>1, <2>1, <2>3, BoundsAssumption DEF Heights
<1>3. round' \in Rounds
  BY DEF CapInv
<1>4. CASE \E stage \in stages : ExceedsMax(stage, round', cap')
  <2>1. aborted' = TRUE /\ gaveUp' = [gaveUp EXCEPT ![height'] = round']
    BY <1>4 DEF Schedule
  <2>2. ExceedsMax("proposal", round', cap')
    BY <1>4, AnyStageExceeds
  <2>3. Exceeded(round', cap')
    BY <1>3, <2>2, TimeoutAssumption DEF Exceeded, ExceedsMax, Rounds
  <2> QED
    BY <1>1, <1>2, <2>1, <2>3, BoundsAssumption DEF Heights
<1>5. CASE ~\E stage \in stages : ExceedsMax(stage, round', cap')
  <2>1. gaveUp' = gaveUp
    BY <1>5 DEF Schedule
  <2>2. stages # {} => ~ExceedsMax("proposal", round', cap')
    BY <1>5, AnyStageExceeds
  <2> QED
    BY <1>2, <2>1, <2>2 DEF Exceeded
<1> QED
  BY <1>4, <1>5

LEMMA GaveUpNext ==
  ASSUME Reachable, EqualTimeouts
  PROVE  GaveUpInv /\ [Next]_vars => GaveUpInv'
<1> SUFFICES ASSUME GaveUpInv, [Next]_vars
             PROVE  GaveUpInv'
  OBVIOUS
<1> DEFINE Past(h) == gaveUp[h] # 0 => h <= height /\ Exceeded(gaveUp[h], cap)
<1>1. BoundInv /\ BoundInv' /\ CapInv /\ CapInv'
  BY BoundNext DEF GaveUpInv, BoundInv
<1>2. height \in Nat /\ round \in Nat /\ MaxHeight \in Nat /\ StartRound \in Nat
      /\ gaveUp \in [Heights -> {0} \cup Rounds]
  BY <1>1, BoundsAssumption, TimeoutAssumption DEF CapInv, Rounds
<1>3. CASE StartHeight
  <2>1. /\ height' \in Heights /\ height' = height + 1 /\ height' >= height
        /\ round' = StartRound /\ round' <= StartRound + 16
    BY <1>2, <1>3 DEF StartHeight, Heights
  <2>2. cap' \in Caps /\ (height > 0 => cap' >= cap)
    BY <1>1, <1>3 DEF StartHeight, CapInv, FirstCap, DefaultCap, Caps
  <2>3. entered' = {"proposal"} /\ Schedule(entered')
    BY <1>3 DEF StartHeight
  <2>4. {"proposal"} \in SUBSET Stages /\ Schedule({"proposal"})
    BY <2>3 DEF Stages
  <2>5. /\ \A h \in Heights : gaveUp'[h] # 0 => h <= height' /\ Exceeded(gaveUp'[h], cap')
        /\ \A h \in Heights : h # height' => gaveUp'[h] = gaveUp[h]
        /\ Exceeded(round', cap') => aborted'
    BY <1>1, <1>2, <2>1, <2>2, <2>4, ScheduleGivesUp
  <2>6. ASSUME Running', NEW h \in 1 .. height' - 1, gaveUp'[h] # 0
        PROVE  round' < gaveUp'[h]
    <3>1. h \in Heights /\ Exceeded(gaveUp'[h], cap')
      BY <1>2, <2>1, <2>5, <2>6 DEF Heights
    <3>2. gaveUp'[h] # round'
      BY <2>5, <2>6, <3>1 DEF Running
    <3> QED
      BY <1>2, <2>1, <3>1, <3>2 DEF Exceeded
  <2> QED
    BY <1>1, <2>5, <2>6 DEF GaveUpInv, GivesUpNoLater
<1>4. ASSUME NEW stages, Enter(stages)
      PROVE  GaveUpInv'
  <2>1. height \in Heights /\ height' = height /\ round' = round /\ cap' = cap /\ cap \in Caps
    BY <1>1, <1>2, <1>4 DEF Enter, Running, CapInv, Heights
  <2>2. stages \in SUBSET Stages /\ Schedule(stages) /\ Running
    BY <1>4 DEF Enter, Stages
  <2>3. MaxTimeout > 0 => round' <= StartRound + 16
    BY <1>1, <1>2, <2>1, <2>2 DEF BoundInv
  <2>4. cap' >= cap
    BY <2>1 DEF Caps
  <2>5. /\ \A h \in Heights : gaveUp'[h] # 0 => h <= height' /\ Exceeded(gaveUp'[h], cap')
        /\ \A h \in Heights : h # height' => gaveUp'[h] = gaveUp[h]
    BY <1>1, <1>2, <2>1, <2>2, <2>3, <2>4, ScheduleGivesUp
  <2>6. ASSUME NEW h \in 1 .. height' - 1, gaveUp'[h] # 0
        PROVE  round' < gaveUp'[h]
    <3>1. h \in Heights /\ h # height'
      BY <1>2, <2>1 DEF Heights
    <3>2. gaveUp[h] # 0 /\ gaveUp'[h] = gaveUp[h]
      BY <2>5, <2>6, <3>1
    <3> QED
      BY <2>1, <2>2, <3>2 DEF GaveUpInv, GivesUpNoLater
  <2> QED
    BY <1>1, <2>5, <2>6 DEF GaveUpInv, GivesUpNoLater
<1>5. CASE Commit
  BY <1>1, <1>5 DEF Commit, GaveUpInv, GivesUpNoLater, Running
<1>6. CASE NextRound
  <2>1. height \in Heights /\ height' = height /\ round' = round + 1 /\ Running
    BY <1>1, <1>2, <1>6 DEF NextRound, Running, CapInv, Heights
  <2>2. cap' \in Caps /\ cap' >= cap
    BY <1>1, <1>6, <2>1, CapKeepsUp, <1>2 DEF NextRound, CapInv, Rounds, Running
  <2>3. entered' = {"proposal"} /\ Schedule(entered')
    BY <1>6 DEF NextRound
  <2>4. {"proposal"} \in SUBSET Stages /\ Schedule({"proposal"})
    BY <2>3 DEF Stages
  <2>5. (MaxTimeout > 0 => round' <= StartRound + 16) /\ height' >= height
    BY <1>1, <1>2, <2>1 DEF BoundInv
  <2>6. /\ \A h \in Heights : gaveUp'[h] # 0 => h <= height' /\ Exceeded(gaveUp'[h], cap')
        /\ \A h \in Heights : h # height' => gaveUp'[h] = gaveUp[h]
        /\ Exceeded(round', cap') => aborted'
    BY <1>1, <1>2, <2>1, <2>2, <2>4, <2>5, ScheduleGivesUp
  <2>7. ASSUME Running', NEW h \in 1 .. height' - 1, gaveUp'[h] # 0
        PROVE  round' < gaveUp'[h]
    <3>1. h \in Heights /\ h # height'
      BY <1>2, <2>1 DEF Heights
    <3>2. gaveUp[h] # 0 /\ gaveUp'[h] = gaveUp[h] /\ Exceeded(gaveUp'[h], cap')
      BY <2>6, <2>7, <3>1
    <3>3. round < gaveUp[h]
      BY <2>1, <3>2 DEF GaveUpInv, GivesUpNoLater
    <3>4. gaveUp[h] # round'
      BY <2>6, <2>7, <3>2 DEF Running
    <3> QED
      BY <1>2, <2>1, <3>1, <3>2, <3>3, <3>4 DEF Exceeded
  <2> QED
    BY <1>1, <2>6, <2>7 DEF GaveUpInv, GivesUpNoLater
<1>7. CASE UNCHANGED vars
  BY <1>1, <1>7 DEF vars, GaveUpInv, GivesUpNoLater, Running
<1> QED
  BY <1>3, <1>4, <1>5, <1>6, <1>7 DEF Next

\* With equal timeouts of the stages, a height that follows one that was given up is
\* given up in the same round or sooner, unless it commits: the cap that is carried over
\* never makes the limit come later.
THEOREM LaterHeightsGiveUpNoLater ==
  ASSUME Reachable, EqualTimeouts
  PROVE  Spec => []GivesUpNoLater
<1>1. Init => GaveUpInv
  <2>1. Init => BoundInv
    BY CapInit DEF BoundInv, Init, Running
  <2> QED
    BY <2>1 DEF Init, GaveUpInv, GivesUpNoLater, Running
<1>2. GaveUpInv /\ [Next]_vars => GaveUpInv'
  BY GaveUpNext
<1>3. GaveUpInv => GivesUpNoLater
  BY DEF GaveUpInv
<1> QED
  BY <1>1, <1>2, <1>3, PTL DEF Spec
=============================================================================

SPECIFICATION Spec
CONSTANTS
  Validators <- Three
  Power <- UnitPower
  Behavior <- AllHonest
  Nil = Nil
  NoVote = NoVote
  BaseTimeout <- UnitTimeouts
  MaxTimeout = 0
  StartRound = 1
  WordBits = 16
  MaxStrikes = 3
  MaxHeight = 1
  MaxRound = 3
CHECK_DEADLOCK FALSE
CONSTRAINTS OneMissesFirstRound ZeroStaysInFirstRound SecondRoundIsNil
INVARIANT Agreement

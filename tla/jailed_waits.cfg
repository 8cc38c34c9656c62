SPECIFICATION DeliverySpec
CONSTANTS
  Validators <- Two
  Power <- UnitPower
  Behavior <- LastDoubleSigns
  Nil = Nil
  NoVote = NoVote
  BaseTimeout <- UnitTimeouts
  MaxTimeout = 2
  StartRound = 1
  WordBits = 16
  MaxStrikes = 3
  MaxHeight = 1
  MaxRound = 4
CHECK_DEADLOCK FALSE
PROPERTY Termination

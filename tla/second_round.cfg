SPECIFICATION ReportsSpec
CONSTANTS
  Validators <- Three
  Power <- UnitPower
  Behavior <- AllHonest
  Nil = Nil
  NoVote = NoVote
  NoProposer = NoProposer
  BaseTimeout <- UnitTimeouts
  MaxTimeout = 0
  StartRound = 1
  WordBits = 16
  MaxStrikes = 3
  MaxHeight = 1
  MaxRound = 2
CHECK_DEADLOCK FALSE
CONSTRAINTS ZeroMissesFirstRound TwoFollowsCommit
INVARIANT ReportTrueUnlessNilPolka

SPECIFICATION ReportsSpec
CONSTANTS
  Validators <- Two
  Power <- UnitPower
  Behavior <- AllHonest
  Nil = Nil
  NoVote = NoVote
  NoProposer = NoProposer
  BaseTimeout <- UnitTimeouts
  MaxTimeout = 2
  StartRound = 1
  WordBits = 16
  MaxStrikes = 3
  MaxHeight = 2
  MaxRound = 2
CHECK_DEADLOCK FALSE
INVARIANTS CountedVotesWereCast RoundEntryJustified NoHonestJailed MetricsTypeOK TimeoutsExplainRounds
PROPERTY ImplementsLockedVoting

SPECIFICATION ReportsFairSpec
CONSTANTS
  Validators <- Two
  Power <- UnitPower
  Behavior <- ZeroMisbehaves
  Nil = Nil
  NoVote = NoVote
  NoProposer = NoProposer
  BaseTimeout <- UnitTimeouts
  MaxTimeout = 1
  StartRound = 1
  WordBits = 16
  MaxStrikes = 1
  MaxHeight = 2
  MaxRound = 2
CHECK_DEADLOCK FALSE
INVARIANTS NeverStranded FailureMeansAbort SuccessMeansHonestCommits
PROPERTY TerminationUnlessJailed

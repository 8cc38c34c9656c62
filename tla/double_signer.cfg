SPECIFICATION Spec
CONSTANTS
  Validators <- Three
  Power <- UnitPower
  Behavior <- OneDoublePrevotes
  Nil = Nil
  NoVote = NoVote
  BaseTimeout <- UnitTimeouts
  MaxTimeout = 0
  StartRound = 1
  WordBits = 16
  MaxStrikes = 2
  MaxHeight = 1
  MaxRound = 1
CHECK_DEADLOCK FALSE
CONSTRAINTS OneIsDeaf CutOffLate
INVARIANTS CommitCertified NoHonestJailed OneVotePerRound Validity

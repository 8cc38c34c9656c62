SPECIFICATION FairSpec
CONSTANTS
  BaseTimeout <- UnitTimeouts
  MaxTimeout = 300
  StartRound = 1
  WordBits = 31
  MaxHeight = 3
  MaxRound = 18
CHECK_DEADLOCK FALSE
INVARIANTS TypeOK FirstRoundsAsIfNew RoundsBounded GivesUpNoLater
PROPERTY HeightEnds

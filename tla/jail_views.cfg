SPECIFICATION Spec
CONSTANTS
  Validators <- Four
  Suspects <- TwoSuspects
  MaxPower = 6
CHECK_DEADLOCK FALSE
INVARIANTS QuorumsShareThird QuorumsShareHonest ProposersTakeTurns

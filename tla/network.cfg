SPECIFICATION FairSpec
CONSTANTS
  Nodes <- Four
  Honest <- AllButThree
  PeerList <- Ring
  NewLists <- TwoLists
  MaxStrikes = 2
  RetryLimit = 1
  MaxSends = 1
  MaxChanges = 2
CHECK_DEADLOCK FALSE
INVARIANTS TypeOK LinksSymmetric EachOnce HonestStruckByStaleLink GossipSurvivesOneLoss
PROPERTY WorkEnds

CONSTANTS
  Requests = {r1}
  Kids = {k1, k2}
  WriteTimeouts = {0, 2}
  HeaderTime = 1
  ReadTime = 1
  LimiterTime = 0
  TotalDeadline = 2
  defaultWriteTimeout = 1
  defaultDrainTimeout = 3
  drainGrace = 2
SPECIFICATION FairSpec
INVARIANTS ReadyMeansAble
PROPERTIES ReadinessNeverFlaps WithdrawnKeysGo RotationIsPickedUp DrainCutsNothingOwed ShutdownEnds

SPECIFICATION FairSpec
CONSTANTS
  Admissions = {w, a1, a2}
  NoPump = NoPump
  Warm = {w}
INVARIANTS
  TypeOK
  ReclaimedIsTrue
  EveryHoldIsRenewed
  RenewsOnlyHeld
  CloseReachesThePump
PROPERTIES
  CloseEnds
CHECK_DEADLOCK FALSE

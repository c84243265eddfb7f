SPECIFICATION FairSpec
CONSTANTS
  Admissions = {a1, a2, b}
  Renewed = {a1, a2}
INVARIANTS
  TypeOK
  ReclaimedIsTrue
  EveryHoldIsRenewed
  RenewsOnlyHeld
  NoBeatOnClosedChannel
PROPERTIES
  SlotsComeBack
  ReclaimIsSignalled
CHECK_DEADLOCK FALSE

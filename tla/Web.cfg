SPECIFICATION FairSpec
CONSTANTS
  Requests = {r1, r2}
  Apps <- AllApps
  Quota = 1
  Window = 3
  Second = 2
  Skew = 1
  MaxTime = 4
INVARIANTS
  TypeOK
  UnpaidOnlyInOutage
  ViewRunsOnce
  AdviceIsEnough
  AdviceIsOwn
PROPERTIES
  HangsAreIsolated
CHECK_DEADLOCK FALSE

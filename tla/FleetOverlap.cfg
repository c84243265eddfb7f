SPECIFICATION FairSpec
CONSTANTS
  NoInstant = NoInstant
  NoSpender = NoSpender
  WindowCoupled = TRUE
  Limiters = {l1}
  Tasks = {t1, t2}
  LimiterOf <- SharedLimiter
  Costs = {0, 1, 2}
  Batch = 2
  MaxRounds = 2
  Drifts <- ExactClock
  Limit = 3
  WindowMs = 2
  MaxTime = 2
  Hanging = {t2}
INVARIANTS
  NeverCreatesBudget
  DenialIsServers
PROPERTIES
  GrantMakesProgress
  CheckReturns

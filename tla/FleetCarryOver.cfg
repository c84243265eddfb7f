SPECIFICATION Spec
CONSTANTS
  NoInstant = NoInstant
  NoSpender = NoSpender
  WindowCoupled = TRUE
  Limiters = {l1, l2}
  Tasks = {l1, l2}
  LimiterOf <- OwnLimiter
  Costs = {1, 2}
  Batch = 2
  MaxRounds = 2
  Drifts <- ExactClock
  Limit = 2
  WindowMs = 2
  MaxTime = 2
  Hanging = {}
INVARIANTS
  FleetBound

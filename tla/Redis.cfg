SPECIFICATION Spec
CONSTANTS
  Limit = 3
  WindowMs = 4
  Buckets = 2
  PeriodMs = 3
  Cells = 2
  RefillTokens = 2
  RefillMs = 3
  Tasks = {t1, t2}
  Strategies <- AllKinds
  Costs = {1, 2}
  Explicit = {"gcra"}
  Drifts <- LateClocks
  MaxTime = 6
  Flushes = TRUE
SYMMETRY Symmetric
INVARIANTS
  TypeOK
  ChargedAsAnswered
  Ceiling
  
  
  
  
  ExpiryForgetsNothing

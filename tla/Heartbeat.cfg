SPECIFICATION Spec
CONSTANTS
  Interval = 10
  Ttl = 20
  MaxDelay = 3
INVARIANTS
  TypeOK
  NoMissNoLoss
  MissIsLoss

SPECIFICATION Spec
CONSTANTS
  Admissions = {a1, a2}
  NoPump = NoPump
  Warm = {}
PROPERTIES
  CloseStopsThread
CHECK_DEADLOCK FALSE

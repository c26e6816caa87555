SPECIFICATION Spec
CONSTANTS
  Call = {c1}
  Timed = {}
INVARIANTS StopEndsEveryCall
CHECK_DEADLOCK FALSE

CONSTANTS
  User = {u1, u2}
  Callers = {"dispatch"}
  Openers = {u1, "dispatch"}
  Closers = {u2, "dispatch"}
  Cancellers = {"dispatch"}
  Handle = {h1, h2}
  MaxItems = 1
  EarlyReentry = FALSE
SPECIFICATION FairSpec
INVARIANTS TypeOK CloseSilences ClosesInOrder
PROPERTY CallersReturn
CHECK_DEADLOCK FALSE

CONSTANTS
  User = {u1, u2}
  Callers = {"dispatch"}
  Openers = {u1}
  Closers = {u2, "dispatch"}
  Cancellers = {}
  Handle = {h1}
  MaxItems = 1
  EarlyReentry = TRUE
SPECIFICATION FairSpec
PROPERTY CallbacksMayCall
CHECK_DEADLOCK FALSE

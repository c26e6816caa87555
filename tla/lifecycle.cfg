\* Two connect(), two aclose() and one wait_closed(), with a background task.
SPECIFICATION FairSpec
CONSTANTS
  o1 = o1
  o2 = o2
  c1 = c1
  c2 = c2
  w1 = w1
  b1 = b1
  Opener = {o1, o2}
  Closer = {c1, c2}
  Waiter = {w1}
  Background = {b1}
INVARIANTS TypeOK ClosedIsOver NothingRunsAfterAclose
PROPERTIES StateOnlyAdvances EveryoneIsReleased
CHECK_DEADLOCK FALSE

\* A connect() cancelled while it discards its socket, and a wait_closed().
SPECIFICATION FairSpec
CONSTANTS
  o1 = o1
  c1 = c1
  w1 = w1
  Opener = {o1}
  Closer = {c1}
  Waiter = {w1}
  Background = {}

PROPERTIES WaitClosedReturns
CHECK_DEADLOCK FALSE

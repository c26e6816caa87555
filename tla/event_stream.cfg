SPECIFICATION FairSpec
CONSTANTS
  Getter = {g1, g2}
  Timed = {g1}
  MaxPending = 2
  MaxEvents = 3
INVARIANTS TypeOK NoLostWakeup NoStaleWaiter
PROPERTIES ImplementsFeed
CHECK_DEADLOCK FALSE

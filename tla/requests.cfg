\* Two concurrent requests, one of them with a deadline; the bridge may answer
\* each of them twice.
SPECIFICATION FairSpec
CONSTANTS
  Req = {r1, r2}
  Timed = {r1}
  MaxAnswers = 2
INVARIANTS TypeOK NoOrphanedWaiter NothingLeaks FirstAnswerWins
PROPERTIES ImplementsContract
\* Every request may be settled and the connection closed.
CHECK_DEADLOCK FALSE

SPECIFICATION FairSpec
CONSTANTS
  Call = {c1, c2}
  Timed = {c1}
INVARIANTS TypeOK StopEndsCalls OutcomeIsTrue
PROPERTIES StopReleasesCallers
CHECK_DEADLOCK FALSE

SPECIFICATION FairSpec
CONSTANTS
  s1 = s1
  a = a
  b = b
  Stream = {s1}
  Sid = {a, b}
  Parts <- MergedParts
  MaxPending <- MergedLimit
  MaxEvents <- MergedEvents
INVARIANTS TypeOK LiveStreamsAreRouted NothingLostOrReordered NoOrphan UnsubscribeAcknowledged
PROPERTIES UnwantedIsReleased
CHECK_DEADLOCK FALSE

SPECIFICATION FairSpec
CONSTANTS
  MaxItems = 2
INVARIANTS TypeOK CancelSilences DeliveredInOrder FinishedIsLast
PROPERTIES CancelledPumpFinishes
CHECK_DEADLOCK FALSE

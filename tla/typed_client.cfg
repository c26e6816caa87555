SPECIFICATION Spec
CONSTANTS
  Absent = Absent
  Bad = Bad
  NotIdentifiers = {"no identifier"}
  IntBits = 3
  Base64 <- MCBase64
  RejectionCodes = {"dispatch_failed"}
  Builds <- MCBuilds
  Clients <- MCClients
  Hidden <- MCHidden
  Values <- MCValues
  MaxReplacements = 1
  MaxChecks = 2
  MaxRoundTrip = 1
  Depth = 1
INVARIANTS WaitEndsInTime OwnContractIsCompatible TypedCallsAgree
PROPERTIES WaitTerminates
CHECK_DEADLOCK FALSE

SPECIFICATION Spec
CONSTANTS
  Absent = Absent
  Bad = Bad
  NotIdentifiers = {"no identifier"}
  IntBits = 3
  Base64 <- MCBase64
  RejectionCodes = {"DENIED"}
  WordsOf <- MCWordsOf
  UpperOf <- MCUpperOf
  Keywords <- MCKeywords
  NotPython <- MCNotPython
  Invocations <- MCInvocations
  Ast <- MCAst
  BridgeAst <- MCBridgeAst
  Canonical <- MCCanonical
  Files <- MCFiles
  MaxChanges = 1
  RenameOK <- Parses
  Identified <- IdentifiedJson
  Served <- ServedJson
  Reading <- ReadContract
  Legal <- Passes
  Naming <- PlanNames
  Unmapped <- HasUnmappable
  PythonText <- GeneratePython
  MarkdownText <- MarkdownPage
  Imports <- ImportsWell
  Digest <- IdentityDigest
  ServedDigest <- DocumentDigest
INVARIANTS Importable TextMatchesInterface TargetIsWhole

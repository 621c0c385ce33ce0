CONSTANTS
  Name <- MCName
  RootName <- MCRootName
  MaxCalls = 5
SPECIFICATION Spec
INVARIANTS
  TypeOK
  AcceptedIsChart
  BuildReturns
CHECK_DEADLOCK FALSE

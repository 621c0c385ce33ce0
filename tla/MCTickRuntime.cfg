CONSTANTS
  State <- OutsideState
  NoState <- MCNoState
  Root = "root"
  Parent <- OutsideParent
  Initial <- OutsideInitial
  Parallel = {}
  Final = {}
  ShallowHistory = {}
  DeepHistory = {}
  HistoryDefault <- MCHistoryDefault
  Event = {"go", "back"}
  NoEvent = "NO_EVENT"
  AnyEvent = "ANY_EVENT"
  DoneEvent <- OutsideDoneEvent
  Guard = {"ok"}
  NoGuard = "nil"
  Transitions <- OutsideTransitions
  BatchCap = 2
  MaxMicrosteps = 3
  Priority = {1}
  Before <- OutsideBefore
  MaxClients = 1
  MaxSends = 2
SPECIFICATION FairSpec
PROPERTIES
  TickStopTerminates
  EventuallyHandled
CHECK_DEADLOCK FALSE

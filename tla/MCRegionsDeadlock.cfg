CONSTANTS
  State <- MCState
  NoState <- MCNoState
  Root = "root"
  Parent <- MCParent
  Initial <- MCInitial
  Parallel = {"par"}
  Final = {"af", "bf"}
  ShallowHistory = {}
  DeepHistory = {}
  HistoryDefault <- MCHistoryDefault
  Event = {"go", "early"}
  NoEvent = "NO_EVENT"
  AnyEvent = "ANY_EVENT"
  DoneEvent <- MCDoneEvent
  Guard = {}
  NoGuard = "nil"
  Transitions <- MCTransitions
  Par = "par"
  Loop = "loop"
  Client = {"client"}
  Cap = 1
  EarlyEvent = {"early"}
  MaxSends = 1
  Nobody = "nobody"
SPECIFICATION Spec
INVARIANT NoLockCycle
CHECK_DEADLOCK FALSE

CONSTANTS
  State <- MCState
  NoState <- MCNoState
  Root <- MCRoot
  Parent <- MCParent
  Initial <- MCInitial
  Parallel = {}
  Final = {}
  ShallowHistory = {"hs"}
  DeepHistory = {"hd"}
  HistoryDefault <- MCHistoryDefault
  Event <- MCEvent
  NoEvent = "NO_EVENT"
  AnyEvent = "ANY_EVENT"
  DoneEvent <- MCDoneEvent
  Guard = {"warm", "idle"}
  NoGuard = "nil"
  Transitions <- MCTransitionsDeep
  QueueCap = 2
  MaxMicrosteps = 3
  MaxSends = 4
  StopDuringStart = FALSE
SPECIFICATION Spec
INVARIANT DeepHistoryFaithful
CHECK_DEADLOCK FALSE

CONSTANTS
  State <- MCState
  NoState <- MCNoState
  Root <- MCRoot
  Parent <- MCParent
  Initial <- MCInitial
  Parallel = {}
  Final <- MCFinal
  ShallowHistory = {}
  DeepHistory = {}
  HistoryDefault <- MCHistoryDefault
  Event <- MCEvent
  NoEvent = "NO_EVENT"
  AnyEvent = "ANY_EVENT"
  DoneEvent <- MCDoneEvent
  Guard = {"spin"}
  NoGuard = "nil"
  Transitions <- MCTransitions
  QueueCap = 2
  MaxMicrosteps = 2
  MaxSends = 3
  StopDuringStart = FALSE
SPECIFICATION FairSpec
INVARIANTS
  DoneExactlyOnce
PROPERTIES
  StopIsFinal
  StopTerminates
  SendersEnd
  QueueGetsRoom
CHECK_DEADLOCK FALSE

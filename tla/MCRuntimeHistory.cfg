CONSTANTS
  State <- MCState
  NoState <- MCNoState
  Root <- MCRoot
  Parent <- MCParent
  Initial <- MCInitial
  Parallel = {}
  Final = {}
  ShallowHistory = {"hs"}
  DeepHistory = {"hd"}
  HistoryDefault <- MCHistoryDefault
  Event <- MCEvent
  NoEvent = "NO_EVENT"
  AnyEvent = "ANY_EVENT"
  DoneEvent <- MCDoneEvent
  Guard = {"warm", "idle"}
  NoGuard = "nil"
  Transitions <- MCTransitions
  QueueCap = 2
  MaxMicrosteps = 3
  MaxSends = 4
  StopDuringStart = TRUE
SPECIFICATION FairSpec
INVARIANTS
  TypeOK
  StableConfiguration
  ShallowHistoryFaithful
  HistoryWithin
  RunToCompletion
  ReportedIsActive
PROPERTIES
  StopTerminates
  LateLoopEnds
  RefinesConfiguration
CHECK_DEADLOCK FALSE

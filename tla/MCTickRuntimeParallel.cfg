CONSTANTS
  State <- MCState
  NoState <- MCNoState
  Root = "root"
  Parent <- MCParent
  Initial <- InitialBoth
  Parallel = {"both"}
  Final = {}
  ShallowHistory = {}
  DeepHistory = {}
  HistoryDefault <- MCHistoryDefault
  Event = {"go", "back"}
  NoEvent = "NO_EVENT"
  AnyEvent = "ANY_EVENT"
  DoneEvent <- MCDoneEvent
  Guard = {"ok"}
  NoGuard = "nil"
  Transitions <- MCTransitions
  BatchCap = 2
  MaxMicrosteps = 3
  Priority = {1}
  Before <- MCBefore
  MaxClients = 1
  MaxSends = 3
SPECIFICATION Spec
INVARIANTS
  TypeOK
  HandledOnce
  BatchOrder
  TickCompletes
  TickConfiguration
  RegionsFollowParallel
PROPERTIES
  RefinesParallel
CHECK_DEADLOCK FALSE

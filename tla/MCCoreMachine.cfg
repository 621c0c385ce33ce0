CONSTANTS
  Path <- MCPath
  Place <- MCPlace
  Initial <- MCInitial
  InitialChild <- MCInitialChild
  Transitions <- MCTransitions
  Event = {"go", "halt"}
  NoEvent = "none"
  Guard = {"g"}
  NoGuard = "nil"
  Cap = 1
  Stopper = {"s1", "s2"}
  MaxStarts = 2
  MaxSends = 2
  MaxRestores = 1
  MaxCrashes = 1
SPECIFICATION FairSpec
INVARIANTS
  TypeOK
  ConfigurationIsPath
  SavedIsStored
PROPERTIES
  StopEnds
  QueueDrains
CHECK_DEADLOCK FALSE

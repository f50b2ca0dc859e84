SPECIFICATION Spec
CONSTANTS
  MaxJobs = 3
  go = go
  drogon = drogon
  naive = naive
  Targets <- MCTargets
  StackLists <- MCStackLists
  VariantLists <- MCVariantLists
  Clients = {c1}
  NoTarget = NoTarget
  NoRun = NoRun
  Offline = Offline
INVARIANTS
  TypeOK
  OneRunAtATime
  NoLostWakeup
  RunningIsAlive
  ViewsInSync
  OwnRunIsFound
PROPERTIES
  StatusOnlyAdvances
  EveryJobEnds
  ImplementsSerialExecutor

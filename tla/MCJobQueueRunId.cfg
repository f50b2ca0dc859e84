SPECIFICATION SafetySpec
CONSTANTS
  MaxJobs = 2
  go = go
  drogon = drogon
  naive = naive
  Targets <- MCTargets
  StackLists <- MCStackLists
  VariantLists <- MCVariantLists
  Clients = {}
  NoTarget = NoTarget
  NoRun = NoRun
  Offline = Offline
INVARIANTS
  RunIdIsNewRun
CHECK_DEADLOCK FALSE

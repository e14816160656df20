SPECIFICATION FairSpec
CHECK_DEADLOCK FALSE
CONSTANTS
  PreLoads = {c1, c2}
  Locates = {l1}
  Targets <- AllTargets
  MaxReplicas = 2
  InitDocs = 1
  MaxDocs = 5
  MaxTries = 2
  MaxFaults = 2
INVARIANTS
  IInv
PROPERTIES
  AdjustExact
  DeletingIgnored
  LiveRequestEnds

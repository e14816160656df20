SPECIFICATION Spec
CHECK_DEADLOCK FALSE
CONSTANTS
  PreLoads = {c1, c2}
  Locates = {}
  Targets = {2}
  MaxReplicas = 2
  InitDocs = 0
  MaxDocs = 4
  MaxTries = 2
  MaxFaults = 0
SYMMETRY Symmetry
INVARIANTS
  ReplicasAsAsked

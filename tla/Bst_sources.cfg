SPECIFICATION Spec
CHECK_DEADLOCK FALSE
CONSTANTS
  Clients = {c1}
  Ids = {a}
  Sizes = {3}
  Locations = {l1, l2}
  MaxSid = 1
  Span = 4
  MaxRuns = 2
  MaxFaults = 0
SYMMETRY Symmetry
INVARIANTS
  AnswersLocations

SPECIFICATION Spec
CHECK_DEADLOCK FALSE
CONSTANTS
  Clients = {c1, c2}
  Ids = {a, b}
  Sizes = {3}
  Locations = {l1, l2}
  MaxSid = 2
  Span = 4
  MaxRuns = 2
  MaxFaults = 2
SYMMETRY Symmetry
INVARIANTS
  TypeOK
  LSComplete
  StatRight
  SourcesKept

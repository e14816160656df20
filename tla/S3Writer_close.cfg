SPECIFICATION Spec
CHECK_DEADLOCK FALSE
CONSTANTS
  Alignment = 4
  HeaderSize = 1
  MetaLine = 2
  IdxHeader = 1
  IdxSize = 2
  Writers = {w1}
  Sizes = {1, 4}
  MaxData = 5
  MaxSid = 2
  MaxPuts = 1
  MaxFaults = 1
SYMMETRY Symmetry
INVARIANTS
  CloseUploads

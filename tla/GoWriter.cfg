SPECIFICATION Spec
CHECK_DEADLOCK FALSE
CONSTANTS
  Alignment = 4
  HeaderSize = 1
  MetaLine = 2
  IdxHeader = 2
  IdxSize = 3
  Writers = {w1, w2}
  Sizes = {1, 4}
  MaxData = 5
  MaxSid = 3
  MaxPuts = 3
  MaxFaults = 2
SYMMETRY Symmetry
INVARIANTS
  TypeOK
  IndexAfterData
  AckedKept

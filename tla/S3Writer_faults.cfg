SPECIFICATION Spec
CHECK_DEADLOCK FALSE
CONSTANTS
  Alignment = 4
  HeaderSize = 1
  MetaLine = 2
  IdxHeader = 1
  IdxSize = 2
  Writers = {w1, w2}
  Sizes = {1, 4}
  MaxData = 5
  MaxSid = 4
  MaxPuts = 4
  MaxFaults = 2
SYMMETRY Symmetry
INVARIANTS
  TypeOK
  IndexAfterData
  AckedKept
  ClosedPublished
  AckedIdsUnique
PROPERTIES
  PublishedStays

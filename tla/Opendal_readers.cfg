SPECIFICATION Spec
CHECK_DEADLOCK FALSE
CONSTANTS
  Alignment = 4
  HeaderSize = 1
  MetaLine = 2
  IdxHeader = 1
  IdxSize = 2
  CookieSpan = 16
  Writers = {w1, w2}
  Sizes = {1, 6}
  Cookies = {7}
  MaxData = 5
  MaxSid = 2
  MaxPuts = 3
  MaxFaults = 1
SYMMETRY Symmetry
INVARIANTS
  ReaderTypeOK
  ReadIInv
  PublishedWhole
  AckedIdsUnique
  ClosedPublished
  IterateRight
  FetchRight
PROPERTIES
  PublishedStays
  ImplementsStore

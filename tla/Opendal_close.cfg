SPECIFICATION Spec
CHECK_DEADLOCK FALSE
CONSTANTS
  Alignment = 4
  HeaderSize = 1
  MetaLine = 2
  IdxHeader = 1
  IdxSize = 2
  CookieSpan = 16
  Writers = {w1}
  Sizes = {1, 6}
  Cookies = {7}
  MaxData = 5
  MaxSid = 3
  MaxPuts = 3
  MaxFaults = 1
INVARIANTS
  CloseFlushes

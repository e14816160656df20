SPECIFICATION Spec
CHECK_DEADLOCK FALSE
CONSTANTS
  Alignment = 4
  HeaderSize = 1
  MetaLine = 2
  IdxHeader = 1
  IdxSize = 2
  Writers = {w1}
  Sizes = {1}
  MaxData = 5
  Remote = {w1}
  Clock = {1}
  MaxSid = 2
  MaxPuts = 2
  MaxOpens = 1
  MaxFaults = 1
INVARIANTS
  IdRetrieves

SPECIFICATION FairSpec
CHECK_DEADLOCK FALSE
CONSTANTS
  Alignment = 3
  HeaderSize = 1
  MetaLine = 2
  IdxHeader = 1
  IdxSize = 2
  Writers = {w1, w2, w3}
  Remote = {w3}
  Sizes = {1, 2}
  MaxData = 2
  Clock = {1}
  MaxSid = 3
  MaxPuts = 2
  MaxOpens = 2
  MaxFaults = 1
INVARIANTS
  TypeOK
  FilesIInv
  FilesInStep
  IndexAfterData
  AckedDurable
  AckedLocated
  AckedIdsUnique
  ExclusiveStack
PROPERTIES
  NeverRewritten
  SealedFrozen
  CallReturns

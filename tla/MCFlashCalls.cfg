SPECIFICATION HSpec
CONSTANTS
  EraseSize = 2
  EbCnt = 4
  Client = {c}
  Writers = {c}
  Seekers = {c}
  UserData <- MCUserData
  Lens = {1, 2, 3}
  Offsets <- MCAllOffsets
  MaxKmalloc = 2
  MaxCalls = 2
  MaxMtdFaults = 1
  MaxMemFaults = 1
  BadSets <- MCBadRun
  c = c
INVARIANTS
  NoLeak
  BufferFits
  FlashInv
  WriteLands
  WritePreserves
  ReadDelivers
PROPERTIES
  Confined
  StoreKept
CHECK_DEADLOCK FALSE

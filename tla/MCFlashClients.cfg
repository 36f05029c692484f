SPECIFICATION HSpec
CONSTANTS
  EraseSize = 2
  EbCnt = 3
  Client = {w, r}
  Writers = {w, r}
  Seekers = {}
  UserData <- MCUserData
  Lens = {1, 2}
  Offsets <- MCOffsets
  MaxKmalloc = 2
  MaxCalls = 2
  MaxMtdFaults = 0
  MaxMemFaults = 0
  BadSets <- MCBadSets
  w = w
  r = r
INVARIANTS
  WriteLands
  WritePreserves
  ReadDelivers
PROPERTY StoreKept
CHECK_DEADLOCK FALSE

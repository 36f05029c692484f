SPECIFICATION HSpec
CONSTANTS
  EraseSize = 2
  EbCnt = 4
  Client = {c}
  Writers = {c}
  Seekers = {}
  UserData <- MCUserData
  Lens = {1, 2, 3}
  Offsets <- MCDemoOffsets
  MaxKmalloc = 2
  MaxCalls = 1
  MaxMtdFaults = 0
  MaxMemFaults = 0
  BadSets <- MCBadSets
  c = c
INVARIANT OffsetHonoured
CHECK_DEADLOCK FALSE

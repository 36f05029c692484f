SPECIFICATION FairSpec
CONSTANTS
  EraseSize = 3
  EbCnt = 4
  MaxPos = 14
INVARIANTS
  ScanCorrect
  ScanInv
PROPERTY
  ScanTerminates
CHECK_DEADLOCK FALSE

SPECIFICATION Spec
CONSTANTS
  MaxTyped = 2
  MaxFd = 4
  MaxHeap = 2
  FlashLen = 2
  BuffSize = 2
INVARIANTS
  HwInv
  Tidy
  ShowsStored
  AnswersShown
PROPERTY
  Quits
CHECK_DEADLOCK FALSE

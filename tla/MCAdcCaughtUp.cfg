SPECIFICATION HSpec
CONSTANTS
  RingSize = 4
  Channels = 2
  MaxSample = 3
  Samples = {0, 3}
  Word = 16
  Reader = {r}
  MaxTicks = 6
  MaxReads = 1
  r = r
INVARIANTS
  NeverCaughtUp
CHECK_DEADLOCK FALSE

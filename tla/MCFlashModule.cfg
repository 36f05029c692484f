SPECIFICATION Spec
CONSTANTS
  EbCnt = 3
  Client = {c1, c2}
  MaxLoads = 3
INVARIANTS
  ModuleInv
  Serves
  Balanced
CHECK_DEADLOCK FALSE

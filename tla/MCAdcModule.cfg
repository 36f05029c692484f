SPECIFICATION Spec
CONSTANTS
  Rings = 3
  Client = {c1, c2}
  MaxLoads = 2
INVARIANTS
  ModuleInv
  IsrReady
  Serves
  GivenBack
CHECK_DEADLOCK FALSE

SPECIFICATION Spec
CONSTANTS
  Line <- MCLine
  Sensor <- MCSensor
  Low <- MCLow
  Requests <- MCRequests
  Pads <- MCPads
  MaxReads = 2
  MaxHits = 3
  DoubleCost = 3
INVARIANTS
  DsInv
  ChecksumsAgree
  AcceptedIntact
  QuietRead
  Delivered
CHECK_DEADLOCK FALSE

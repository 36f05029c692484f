SPECIFICATION Spec
CONSTANTS
  Requests <- MCRequests
  Wired <- MCWired
INVARIANTS
  TypeOK
  ModemUndisturbed
PROPERTY
  LinesKept
CHECK_DEADLOCK FALSE

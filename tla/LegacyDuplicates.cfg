SPECIFICATION Spec
CONSTANTS
  r1 = r1
  r2 = r2
  r3 = r3
  p1 = p1
  p2 = p2
  Reqs <- MCReqs
  Procs <- MCProcs
  ProcOf <- MCProcOf
  Server = 1
  EndIP = 3
  ValidateKeys = FALSE
  Operator = Operator
  Other = Other
  None = None
CHECK_DEADLOCK FALSE
INVARIANTS
  AddressesDiffer

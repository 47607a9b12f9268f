SPECIFICATION Spec
CONSTANTS
  q1 = q1
  q2 = q2
  Requests <- MCRequests
  MaxSignals = 2
SYMMETRY MCSymmetry
CHECK_DEADLOCK FALSE
INVARIANTS
  HandlersFinish

SPECIFICATION FairSpec
CONSTANTS
  q1 = q1
  q2 = q2
  Requests <- MCRequests
  MaxSignals = 2
CHECK_DEADLOCK FALSE
INVARIANTS
  TypeOK
  LoopQuietAfterStop
  OkMeansDrained
PROPERTIES
  SignalEnds

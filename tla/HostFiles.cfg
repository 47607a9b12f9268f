SPECIFICATION HFairSpec
CONSTANTS
  c1 = c1
  c2 = c2
  c3 = c3
  p1 = p1
  p2 = p2
  None = None
  Server = Server
  Piece = Piece
  Absent = Absent
  Calls <- MCCalls
  Procs <- MCProcs
  ProcOf <- MCProcOf
  Writers <- MCWriters
CHECK_DEADLOCK FALSE
INVARIANTS
  HTypeOK
  HeldIsOwned
  WritesAreSerial
  ReadersSeeCompleteText
  LastGoodText
  LeftoverTempExplained
PROPERTIES
  ImplementsLockService
  AbandonedLockIsFreed
  WaitersEnd

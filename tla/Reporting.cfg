SPECIFICATION FairSpec
CONSTANTS
  h1 = h1
  s1 = s1
  s2 = s2
  Handlers <- MCHandlers
  Senders <- MCSenders
  TTL = 2
  Interval = 12
  SendTimeout = 6
  MaxCollect = 1
  MaxPause = 1
  None = None
CHECK_DEADLOCK FALSE
INVARIANTS
  TypeOK
  SendsDoNotOverlap
PROPERTIES
  ServedIsFresh
  ReportsRepeat

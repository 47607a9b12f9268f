SPECIFICATION FairSpec
CONSTANTS
  s1 = s1
  s2 = s2
  s3 = s3
  host = host
  IPs = {host}
  Slots <- MCSlots
  IPOf <- MCIPOf
  None = None
  Threshold = 3
  Lockout = 5
  Window = 5
  Delays <- MCDelays
  BackoffMax = 2
  EntryTTL = 3
  Burst = 2
  Refill = 1
INVARIANTS
  TypeOK
  LockFollowsCount
PROPERTIES
  BlockRunsItsCourse
  ForgottenLimiterWasFull
  BlockEnds

SPECIFICATION FairSpecTTL
CONSTANTS
  r1 = r1
  r2 = r2
  r3 = r3
  alice = alice
  bob = bob
  i1 = i1
  i2 = i2
  a1 = a1
  a2 = a2
  a3 = a3
  b1 = b1
  None = None
  Reqs <- Reqs2
  Names <- MCNames
  NameOf <- NameOf2
  Attempts <- Attempts12
  Of <- Of12
  IPs = {i1}
  LockConfigured = TRUE
  ValidateKeys = FALSE
  Idempotency = "name"
CHECK_DEADLOCK FALSE
INVARIANTS
  AllocatedWasDelivered
PROPERTIES
  LockIsReleased
  FailedLeaseReclaimed
  UsesLockService
  ImplementsAddressBook

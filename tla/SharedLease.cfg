SPECIFICATION Spec
CONSTANTS
  r1 = r1
  r2 = r2
  r3 = r3
  alice = alice
  bob = bob
  i1 = i1
  i2 = i2
  a1 = a1
  a2 = a2
  a3 = a3
  b1 = b1
  None = None
  Reqs <- Reqs3
  Names <- MCNames
  NameOf <- NameOf3
  Attempts <- Attempts3
  Of <- Of3
  IPs = {i1, i2}
  LockConfigured = TRUE
  ValidateKeys = FALSE
  Idempotency = "name"
CHECK_DEADLOCK FALSE
PROPERTIES
  ConfirmedIsPermanent

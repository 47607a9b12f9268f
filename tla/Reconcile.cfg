SPECIFICATION TFairSpec
CONSTANTS
  r1 = r1
  r3 = r3
  alice = alice
  bob = bob
  a1 = a1
  a3 = a3
  Hand = hand
  None = None
  Reqs <- MCReqs
  Names <- MCNames
  NameOf <- MCNameOf
  Attempts <- MCAttempts
  Of <- MCOf
  IPs = {i1}
  LockConfigured = FALSE
  ValidateKeys = FALSE
  Idempotency = "none"
CHECK_DEADLOCK FALSE
INVARIANTS
  TTypeOK
PROPERTIES
  ConfirmedEndsForCause
  ConfirmedSurvivesRepair
  StrayPeerReported
  ImportedRouteKept

SPECIFICATION Spec
CONSTANTS
  q1 = q1
  q2 = q2
  Users = {"mo", "equities"}
  AuthorizedServices = {"svc-instruction", "svc-payment"}
  Requests <- MCRequests
  Kinds <- MCKinds
  Metadata <- MCMetadata
  StartAttempts = 2
  CallAttempts = 2
  MaxUserSessions = 1
  MaxOutages = 2
  MaxLosses = 1
INVARIANTS
  UseIsCheckedAsWritten
CHECK_DEADLOCK FALSE

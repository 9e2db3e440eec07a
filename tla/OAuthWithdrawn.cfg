\* One request at a time, no failures: an app the user has revoked.
CONSTANTS
  c1 = c1  c2 = c2  a1 = a1  a2 = a2
  Requests = {r1, r2, r3}
  Clients = {c1}
  Users = {u1}
  Apps = {a1}
  AppOf <- OneAppOf
  AuthMethod <- SecretClient
  Ops = {"consent", "exchange", "refresh", "withdraw"}
  MaxInFlight = 1
  Faults = FALSE
  None = None
SPECIFICATION FairSpec
PROPERTY WithdrawnGetsNothing
CHECK_DEADLOCK FALSE

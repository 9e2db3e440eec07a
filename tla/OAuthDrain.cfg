\* Disabled and deleted clients against requests in flight.
CONSTANTS
  c1 = c1  c2 = c2  a1 = a1  a2 = a2
  Requests = {r1, r2, r3, r4}
  Clients = {c1}
  Users = {u1}
  Apps = {a1}
  AppOf <- OneAppOf
  AuthMethod <- SecretClient
  Ops = {"consent", "exchange", "refresh", "deleteClient", "setActive"}
  MaxInFlight = 2
  Faults = FALSE
  None = None
SPECIFICATION FairSpec
PROPERTIES InactiveClientGetsNothing DeletedClientDrains
CHECK_DEADLOCK FALSE

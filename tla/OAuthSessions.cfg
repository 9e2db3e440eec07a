\* A confidential and a public client of different apps, no failures: whom a
\* token is for, how many a session has, what a 200 to a revocation means.
CONSTANTS
  c1 = c1  c2 = c2  a1 = a1  a2 = a2
  Requests = {r1, r2, r3, r4, r5}
  Clients = {c1, c2}
  Users = {u1}
  Apps = {a1, a2}
  AppOf <- TwoAppsOf
  AuthMethod <- SecretAndPublic
  Ops = {"consent", "silent", "exchange", "refresh", "revoke"}
  MaxInFlight = 2
  Faults = FALSE
  None = None
SPECIFICATION Spec
SYMMETRY RequestSymmetry
INVARIANTS ChainKeepsOwner OneAccessToken RevokedTokenIsGone
PROPERTIES ImplementsGrants
CHECK_DEADLOCK FALSE

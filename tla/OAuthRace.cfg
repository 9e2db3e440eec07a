\* One confidential client: every interleaving of authorization, exchange, refresh,
\* replay, revocation and administration, with failing statements.
CONSTANTS
  c1 = c1  c2 = c2  a1 = a1  a2 = a2
  Requests = {r1, r2, r3, r4}
  Clients = {c1}
  Users = {u1}
  Apps = {a1}
  AppOf <- OneAppOf
  AuthMethod <- SecretClient
  Ops = {"consent", "silent", "deleteClient", "regenerateSecret", "revokeClientTokens", "setActive", "withdraw", "exchange", "refresh", "revoke"}
  MaxInFlight = 3
  Faults = TRUE
  None = None
SPECIFICATION Spec
SYMMETRY RequestSymmetry
INVARIANTS TypeOK IssuedOnlyWithConsent ForkOnlyByRace ReplayedCodeIsDead
CHECK_DEADLOCK FALSE

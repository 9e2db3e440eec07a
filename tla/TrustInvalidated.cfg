\* An exchange that begins after the admin was told the trust is deleted.
SPECIFICATION Spec
CONSTANTS
  Requests = {r1, r2, r3, r4}
  Apps = {"a", "b"}
  Pairs <- OneWay
  Users = {u1}
  Scopes = {"read"}
  AnyScope = "*"
  Allowances <- ReadOnly
  CacheTTL = 1
  Stall = 1
  MaxTime = 2
  Ops = {"exchange", "create", "delete", "member"}
  Faults = FALSE
  None = None
SYMMETRY RequestSymmetry
INVARIANTS InvalidatedTrustUnused
CHECK_DEADLOCK FALSE

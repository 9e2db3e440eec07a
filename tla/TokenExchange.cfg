\* Admins create, change and delete a trust while apps exchange tokens by it.
SPECIFICATION Spec
CONSTANTS
  Requests = {r1, r2, r3, r4}
  Apps = {"a", "b"}
  Pairs <- OneWay
  Users = {u1}
  Scopes = {"read", "write"}
  AnyScope = "*"
  Allowances <- ReadOrAny
  CacheTTL = 1
  Stall = 1
  MaxTime = 4
  Ops = {"exchange", "create", "update", "delete", "member"}
  Faults = TRUE
  None = None
SYMMETRY RequestSymmetry
INVARIANTS TypeOK GrantsAreFresh DuplicateOnlyByRace
CHECK_DEADLOCK FALSE

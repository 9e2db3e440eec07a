\* One rotation while an id_token is being signed, nothing fails.
CONSTANTS
  p1 = p1  p2 = p2  p3 = p3  h1 = h1  h2 = h2
  Procs = {p1, p2}
  Hosts = {h1}
  HostOf <- OneHost
  Keys = {k1, k2, k3}
  TokenTTL = 1
  Retention = 2
  Stall = 1
  MaxTime = 2
  MaxTokens = 2
  Faults = FALSE
  None = None
SPECIFICATION Spec
SYMMETRY KeySymmetry
INVARIANT KidNamesSigner
CHECK_DEADLOCK FALSE

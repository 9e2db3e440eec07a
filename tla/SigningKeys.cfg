\* Two server processes sign, rotate and publish.
CONSTANTS
  p1 = p1  p2 = p2  p3 = p3  h1 = h1  h2 = h2
  Procs = {p1, p2, p3}
  Hosts = {h1, h2}
  HostOf <- TwoHosts
  Keys = {k1, k2, k3}
  TokenTTL = 1
  Retention = 2
  Stall = 1
  MaxTime = 2
  MaxTokens = 2
  Faults = TRUE
  None = None
SPECIFICATION Spec
SYMMETRY KeySymmetry
INVARIANTS TypeOK PublishedUntilExpiry
CHECK_DEADLOCK FALSE

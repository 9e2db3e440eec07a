SPECIFICATION FairSpec
CONSTANTS
  o1 = o1
  p1 = p1
  None = None
  Orders = {o1}
  Plans = {p1}
  MaxSessions = 2
  Wares <- OrderFirst
  Deliveries = {h1, h2}
  Visits = {v1}
  MaxEvents = 2
  Faults = TRUE
INVARIANTS
  TypeOK
  CreditedOnce
  OneSubscription
  PaidWasPaid
PROPERTIES
  PaidIsBooked

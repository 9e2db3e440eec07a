SPECIFICATION Spec
CONSTANTS
  o1 = o1
  c1 = c1
  Owners = {o1}
  Cards = {c1}
  Requests = {r1, r2, r3}
  Amounts = {1}
  Worth <- OneEach
  MaxInt = 2
  NoRow = none
INVARIANTS
  TypeOK
  LedgerAddsUp
  NeverNegative
  CardPaysOnce
  OrdersStand
  DeletedIsEmpty
  OneWalletEach
SYMMETRY SameRequests
CHECK_DEADLOCK FALSE

SPECIFICATION Spec
CONSTANTS
  p1 = p1
  p2 = p2
  o1 = o1
  l1 = l1
  NoPayment = NoPayment
  NoOrder = NoOrder
  NoLink = NoLink
  NoKey = NoKey
  Payments = {p1, p2}
  Orders = {o1}
  Links = {l1}
  OrderOf <- AttemptOrderOf
  ViaLink <- InstalmentLink
  LinkOrder <- LinkOfOrder
  PaymentAmount <- InstalmentAmount
  OrderAmount <- OrderOfTwo
  Refundable = {p2}
  SeededOrders = {o1}
  MayChange = {}
  Account = "none"
  Workers = {w1}
  Window = 1
  MinAge = 0
  MaxTime = 1
  MaxPending = 2
  MaxRequests = 0
  PostedAmounts = {1}
  PostedEnds = {1}
INVARIANTS
  TypeOK
  RecoveredHasEvidence
  PaidResourceEndsOwnCase
PROPERTIES
  LocalNeverRegresses
  ImplementsRegister

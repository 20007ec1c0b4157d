SPECIFICATION Spec
CONSTANTS
  p1 = p1
  p2 = p2
  o1 = o1
  l1 = l1
  NoPayment = NoPayment
  NoOrder = NoOrder
  NoLink = NoLink
  NoKey = NoKey
  Payments = {p1, p2}
  Orders = {o1}
  Links = {}
  OrderOf <- AttemptOrderOf
  ViaLink <- AttemptLink
  LinkOrder <- NoLinks
  PaymentAmount <- AttemptAmount
  OrderAmount <- OrderOfTwo
  Refundable = {}
  SeededOrders = {}
  MayChange = {}
  Account = "mapped"
  Workers = {w1}
  Window = 2
  MinAge = 1
  MaxTime = 2
  MaxPending = 2
  MaxRequests = 0
  PostedAmounts = {1}
  PostedEnds = {1}
INVARIANTS
  PaidOrderEndsItsCases

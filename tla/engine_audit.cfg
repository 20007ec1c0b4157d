SPECIFICATION Spec
CONSTANTS
  p1 = p1
  p2 = p2
  o1 = o1
  l1 = l1
  NoPayment = NoPayment
  NoOrder = NoOrder
  NoLink = NoLink
  NoKey = NoKey
  Payments = {p1}
  Orders = {o1}
  Links = {}
  OrderOf <- OneOrderOf
  ViaLink <- OneLink
  LinkOrder <- NoLinks
  PaymentAmount <- OneAmount
  OrderAmount <- OrderOfOne
  Refundable = {}
  SeededOrders = {o1}
  MayChange = {"merchant", "consent"}
  Account = "none"
  Workers = {w1}
  Window = 1
  MinAge = 0
  MaxTime = 1
  MaxPending = 2
  MaxRequests = 1
  PostedAmounts = {1}
  PostedEnds = {1}
INVARIANTS
  AuditTellsStatus

SPECIFICATION Spec
CONSTANTS
  p1 = p1
  p2 = p2
  o1 = o1
  l1 = l1
  a1 = a1
  a2 = a2
  m2 = m2
  Merchants = {m1, m2}
  Accounts = {a1, a2}
  Payments = {p1, p2}
  Orders = {o1}
  Links = {l1}
  OrderOf <- OrderOfP1
  LinkOrder <- LinkOfOrder
  AccountOf <- Home
  Imported <- OrderKnown
  NoMerchant = NoMerchant
  NoAccount = NoAccount
  NoOrder = NoOrder
  NoCase = NoCase
  MaxPosts = 1
CHECK_DEADLOCK FALSE
INVARIANTS
  OwnersAgree
  CasesFollowOwners

-------------------------- MODULE MCMerchantOwnership --------------------------
(* An instance of MerchantOwnership for TLC: a payment and a link of one   *)
(* order in one account, a payment without order in another.  The order    *)
(* may be known from the start to a merchant without an account.           *)
EXTENDS MerchantOwnership, TLC

CONSTANTS p1, p2, o1, l1, a1, a2, m2

OrderOfP1 == (p1 :> o1) @@ (p2 :> NoOrder)
LinkOfOrder == l1 :> o1
Home == [x \in Sources |-> IF x = p2 THEN a2 ELSE a1]
OrderKnown == [x \in Sources |-> IF x = o1 THEN m2 ELSE NoMerchant]
===============================================================================

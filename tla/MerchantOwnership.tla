--------------------------- MODULE MerchantOwnership ---------------------------
(***************************************************************************)
(* Which merchant a webhook acts for (RecoveryCaseEngine._resolve_merchant *)
(* and _ensure_resources), and whose cases it finds: cases are looked up   *)
(* by their source alone, while their key begins with the merchant.        *)
(*                                                                         *)
(* One webhook or request is one step.  What resources and cases are worth *)
(* and how cases end is left to RecoveryEngine: here a webhook about a     *)
(* resource settles it, puts it at risk, or does neither.                  *)
(***************************************************************************)
EXTENDS Naturals, FiniteSets

CONSTANTS
  Merchants, Accounts,
  Payments, Orders, Links,     \* provider resource ids
  OrderOf,       \* payment -> its order or NoOrder
  LinkOrder,     \* link -> the order behind it
  AccountOf,     \* resource -> the account it was made in
  Imported,      \* merchant of the rows that are there from the start
  NoMerchant, NoAccount, NoOrder, NoCase,
  MaxPosts       \* bound: POST /api/cases

Sources == Payments \cup Orders \cup Links
CaseKeys == Merchants \X Sources

ASSUME ProviderAssumption ==
  /\ Payments \cap (Orders \cup Links) = {} /\ Orders \cap Links = {}
  /\ OrderOf \in [Payments -> Orders \cup {NoOrder}] /\ NoOrder \notin Orders
  /\ LinkOrder \in [Links -> Orders]
  /\ AccountOf \in [Sources -> Accounts]
  /\ \A p \in Payments : OrderOf[p] # NoOrder => AccountOf[p] = AccountOf[OrderOf[p]]
  /\ \A l \in Links : AccountOf[l] = AccountOf[LinkOrder[l]]
ASSUME RowsAssumption ==
  /\ Imported \in [Sources -> Merchants \cup {NoMerchant}]
  /\ \A p \in Payments : Imported[p] = NoMerchant
  /\ NoMerchant \notin Merchants /\ NoAccount \notin Accounts
  /\ NoCase \notin CaseKeys /\ MaxPosts \in Nat

VARIABLES
  account,   \* merchants.razorpay_account_id
  owner,     \* payments, orders, payment_links: merchant_id
  linked,    \* payment_links.recovery_case_id
  status,    \* recovery_cases
  writer,    \* history: the merchant for which a webhook last wrote a case
  posted     \* history: the cases created by POST /api/cases

vars == <<account, owner, linked, status, writer, posted>>

Init ==
  /\ account = [m \in Merchants |-> NoAccount]
  /\ owner = Imported
  /\ linked = [l \in Links |-> NoCase]
  /\ status = [k \in CaseKeys |-> "none"]
  /\ writer = [k \in CaseKeys |-> NoMerchant]
  /\ posted = {}

-------------------------------------------------------------------------------
(* A merchant without an account gets one; two merchants share none.       *)
MapAccount(m, a) ==
  /\ account[m] = NoAccount
  /\ \A n \in Merchants : account[n] # a
  /\ account' = [account EXCEPT ![m] = a]
  /\ UNCHANGED <<owner, linked, status, writer, posted>>

(* POST /api/cases: any merchant, any source.                              *)
PostCase(m, x) ==
  /\ status[<<m, x>>] = "none" /\ Cardinality(posted) < MaxPosts
  /\ status' = [status EXCEPT ![<<m, x>>] = "live"]
  /\ posted' = posted \cup {<<m, x>>}
  /\ UNCHANGED <<account, owner, linked, writer>>

(* PATCH, or the end of the window.                                        *)
EndCase(k) ==
  /\ status[k] = "live"
  /\ status' = [status EXCEPT ![k] = "ended"]
  /\ UNCHANGED <<account, owner, linked, writer, posted>>

(* The scan finds order o abandoned; it may be stopped at once.            *)
ScanOrder(o) ==
  LET k == <<owner[o], o>> IN
  /\ owner[o] # NoMerchant /\ status[k] = "none"
  /\ \E now \in {"live", "ended"} : status' = [status EXCEPT ![k] = now]
  /\ UNCHANGED <<account, owner, linked, writer, posted>>

-------------------------------------------------------------------------------
(* A webhook: the resource it is about, the others that are read with it.  *)
OrderIn(p) == {OrderOf[p]} \ {NoOrder}

PaymentWebhooks == {[about |-> p, others |-> OrderIn(p)] : p \in Payments}

LinkWebhooks ==
  {[about |-> l, others |-> {}] : l \in Links}
    \cup {[about |-> l, others |-> {LinkOrder[l]}] : l \in Links}
    \cup UNION {{[about |-> l, others |-> {p, LinkOrder[l]}] :
                   p \in {q \in Payments : OrderOf[q] = LinkOrder[l]}} : l \in Links}

Resources(e) == {e.about} \cup e.others

(* The account_id of a webhook: its own or none.                           *)
AccountIds(e) == {AccountOf[e.about], NoAccount}

AccountMerchant(a) == {m \in Merchants : a # NoAccount /\ account[m] = a}

(* Seeded fault: only the resource the webhook is about is looked up.      *)
MutLocalOwners(e) == {owner[e.about]} \ {NoMerchant}
LocalOwners(e) == {owner[x] : x \in Resources(e)} \ {NoMerchant}

(* _resolve_merchant raises, and nothing changes.  Seeded fault: several   *)
(* merchants are accepted.                                                 *)
MutConflict(e, a) ==
  /\ a # NoAccount /\ AccountMerchant(a) = {}
  /\ \E m \in LocalOwners(e) : account[m] # NoAccount

Conflict(e, a) ==
  \/ /\ a # NoAccount /\ AccountMerchant(a) = {}
     /\ \E m \in LocalOwners(e) : account[m] # NoAccount
  \/ \E m, n \in AccountMerchant(a) \cup LocalOwners(e) : m # n

(* Without a conflict it is one merchant or none.  When none, no row is    *)
(* there or stored, and no case but one whose window is over is written:   *)
(* EndCase.                                                                *)
Resolved(e, a) == AccountMerchant(a) \cup LocalOwners(e)

(* _ensure_resources: rows that are not there are stored for the merchant. *)
Stored(e, m) ==
  [x \in Sources |->
     IF x \in Resources(e) /\ owner[x] = NoMerchant THEN m ELSE owner[x]]

(* The case a webhook is about: the one its link is bound to, or one whose *)
(* source is the link, the payment or the order, whoever its merchant is.  *)
CasesOf(x) == {k \in CaseKeys : k[2] = x /\ status[k] # "none"}

FirstOf(x, y) == IF x # {} THEN x ELSE y
CasesIn(xs) == UNION {CasesOf(x) : x \in xs}

Correlated(e) ==
  FirstOf(IF e.about \in Links THEN {linked[e.about]} \ {NoCase} ELSE {},
  FirstOf(CasesOf(e.about),
  FirstOf(CasesIn(e.others \cap Payments), CasesIn(e.others \cap Orders))))

(* Payment captured, order or link paid, or link cancelled or expired: a   *)
(* live correlated case ends.                                              *)
Settle(e, m) ==
  /\ Correlated(e) # {}
  /\ \E k \in Correlated(e) :
       /\ status' = [status EXCEPT ![k] = "ended"]
       /\ writer' = IF status[k] = "live" THEN [writer EXCEPT ![k] = m] ELSE writer
  /\ UNCHANGED linked

(* Its case, new or old, gets the amount at risk and may be stopped.       *)
Write(k, m) ==
  /\ \E now \in IF status[k] = "ended" THEN {"ended"} ELSE {"live", "ended"} :
       status' = [status EXCEPT ![k] = now]
  /\ writer' = IF status[k] = "ended" THEN writer ELSE [writer EXCEPT ![k] = m]

(* A failed payment: the correlated case, or one of its own.               *)
PutPaymentAtRisk(e, m) ==
  /\ e.about \in Payments
  /\ \E k \in FirstOf(Correlated(e), {<<m, e.about>>}) : Write(k, m)
  /\ UNCHANGED linked

(* An unpaid link: always its own case, to which it is bound from then on. *)
PutLinkAtRisk(e, m) ==
  /\ e.about \in Links
  /\ Write(<<m, e.about>>, m)
  /\ linked' = [linked EXCEPT ![e.about] = <<m, e.about>>]

HandleWebhook(e, a) ==
  /\ ~Conflict(e, a)
  /\ \E m \in Resolved(e, a) :
       /\ owner' = Stored(e, m)
       /\ \/ Settle(e, m)
          \/ PutPaymentAtRisk(e, m)
          \/ PutLinkAtRisk(e, m)
          \/ UNCHANGED <<linked, status, writer>>
  /\ UNCHANGED <<account, posted>>

Next ==
  \/ \E m \in Merchants, a \in Accounts : MapAccount(m, a)
  \/ \E m \in Merchants, x \in Sources : PostCase(m, x)
  \/ \E k \in CaseKeys : EndCase(k)
  \/ \E o \in Orders : ScanOrder(o)
  \/ \E e \in PaymentWebhooks \cup LinkWebhooks : \E a \in AccountIds(e) :
       HandleWebhook(e, a)

Spec == Init /\ [][Next]_vars
-------------------------------------------------------------------------------

(* docs/recovery-cases.md:30 -- the local owners must agree: a payment and *)
(* its order never belong to two merchants, whichever of them came first,  *)
(* under which account, and when that account got its merchant.            *)
OwnersAgree ==
  \A p \in Payments :
    owner[p] # NoMerchant /\ OrderOf[p] # NoOrder =>
      owner[OrderOf[p]] = owner[p]

(* docs/recovery-cases.md:31 -- no cross-merchant case: a case that did    *)
(* not come from POST belongs to the owner of its source, and no webhook   *)
(* handled for one merchant writes a case of another, except one of the    *)
(* same source or order that was posted.                                   *)
CasesFollowOwners ==
  \A k \in CaseKeys \ posted : status[k] # "none" =>
    /\ owner[k[2]] = k[1]
    /\ writer[k] \in {k[1], NoMerchant}
===============================================================================

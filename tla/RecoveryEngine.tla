---------------------------- MODULE RecoveryEngine ----------------------------
(***************************************************************************)
(* RecoveryCaseEngine with the webhook reconciler in front of it           *)
(* (app/recovery/engine.py, app/webhooks/reconciliation.py), the endpoints *)
(* that write recovery cases, and the payment provider.                    *)
(*                                                                         *)
(* A webhook only names resources: the handler reads their current state   *)
(* from the provider, one read after the other while the provider moves    *)
(* on, and decides and commits in one transaction.  Deliveries arrive in   *)
(* any order; one that raises is rolled back and delivered again           *)
(* (WebhookInbox).  The endpoints run between the reads.                   *)
(***************************************************************************)
EXTENDS Integers, Sequences, FiniteSets, CaseLifecycle

CONSTANTS
  Payments, Orders, Links,           \* provider resource ids
  NoPayment, NoOrder, NoLink, NoKey, \* "none"
  OrderOf,        \* payment -> its order or NoOrder
  ViaLink,        \* payment -> the link it was made through or NoLink
  LinkOrder,      \* link -> the order behind it
  PaymentAmount,  \* payment -> amount
  OrderAmount,    \* order -> amount; a link asks for its order's amount
  Refundable,     \* payments the merchant may refund
  SeededOrders,   \* orders with a local row and a customer from the start
  MayChange,      \* rows others may change: subset of {"merchant", "consent"}
  Account,        \* account_id of the events: "mapped" to the merchant, or "none"
  Workers,        \* API processes handling webhooks; shipped: one
  Window,         \* RECOVERY_WINDOW_DAYS
  MinAge,         \* ABANDONED_ORDER_AGE_MINUTES
  MaxTime,        \* bound on the clock
  MaxPending,     \* bound: the provider rests while so many webhooks wait
  MaxRequests,    \* bound: requests that name cases: POST, PATCH, the baseline
  PostedAmounts, PostedEnds  \* bound: amounts and window ends that POST names

CaseKeys == ({"PAYMENT"} \X Payments) \cup ({"ORDER"} \X Orders)
              \cup ({"PAYMENT_LINK"} \X Links)

ASSUME ResourcesAssumption ==
  /\ OrderOf \in [Payments -> Orders \cup {NoOrder}]
  /\ ViaLink \in [Payments -> Links \cup {NoLink}]
  /\ LinkOrder \in [Links -> Orders]
  /\ \A p \in Payments : ViaLink[p] # NoLink => OrderOf[p] = LinkOrder[ViaLink[p]]
  /\ PaymentAmount \in [Payments -> Nat \ {0}]
  /\ OrderAmount \in [Orders -> Nat \ {0}]
  /\ Refundable \subseteq Payments /\ SeededOrders \subseteq Orders
  /\ NoPayment \notin Payments /\ NoOrder \notin Orders
  /\ NoLink \notin Links /\ NoKey \notin CaseKeys

ASSUME TimesAssumption ==
  /\ Window \in Nat \ {0}
  /\ MinAge \in Nat
  /\ MaxTime \in Nat /\ MaxPending \in Nat /\ MaxRequests \in Nat
  /\ PostedAmounts \subseteq Nat \ {0} /\ PostedEnds \subseteq Nat

ASSUME AccountAssumption == Account \in {"mapped", "none"}

VARIABLES
  \* the provider
  pay,           \* payment -> status
  paid,          \* order -> amount captured on it
  link,          \* link -> status
  pending,       \* webhooks not yet handled
  \* the handlers
  reading,       \* worker -> its webhook and what it has read so far
  \* the database
  localPayment,  \* payment -> status in `payments', "unknown" without a row
  localOrder,    \* order -> row of `orders'
  localLink,     \* link -> row of `payment_links'
  cases,         \* case key -> row of `recovery_cases' and its audit_events
  assigned,      \* cases that name an experiment
  openActions,   \* cases with a recovery action whose outcome is not known
  merchantActive, optedOut,  \* merchant status, customer consent
  clock,
  requests       \* how many requests named cases

provider == <<pay, paid, link>>
local == <<localPayment, localOrder, localLink>>
baseline == <<assigned, openActions>>
owner == <<merchantActive, optedOut>>
vars == <<provider, pending, reading, local, cases, baseline, owner, clock, requests>>

-------------------------------------------------------------------------------
(* Data *)

EventKinds == {"payment.failed", "payment.authorized", "payment.captured",
               "payment_link.paid", "payment_link.partially_paid",
               "payment_link.cancelled", "payment_link.expired"}

(* The envelope: what happened, to what, and created_at.                   *)
Event ==
  {ev \in [kind : EventKinds, payment : Payments \cup {NoPayment},
           link : Links \cup {NoLink}, at : 0 .. MaxTime] :
     ev.payment # NoPayment \/ ev.link # NoLink}

PaymentEvent(kind, p) ==
  [kind |-> kind, payment |-> p, link |-> NoLink, at |-> clock]

LinkEvent(kind, l, p) ==
  [kind |-> kind, payment |-> p, link |-> l, at |-> clock]

(* Cancelled and expired link events carry the link only.                  *)
PaymentStatuses == {"created", "failed", "authorized", "captured", "refunded"}
LinkStatuses == {"created", "partially_paid", "paid", "cancelled", "expired"}
OpenLink == {"created", "partially_paid"}

Due(o) == OrderAmount[o] - paid[o]

(* max(amount - amount_paid, 0) of a link.  Seeded fault: swapped operands.*)
MutRemaining(l) == paid[LinkOrder[l]] - OrderAmount[LinkOrder[l]]
Remaining(l) == Due(LinkOrder[l])

(* A handler's reads; "unread" is a resource not read yet.                 *)
NotReading == [busy |-> FALSE]

Reading ==
  {s \in [busy : {TRUE}, event : Event,
          payment : PaymentStatuses \cup {"unread"},
          link : LinkStatuses \cup {"unread"}, linkDue : Nat] :
     s.event.link # NoLink => s.link # "unread"}

(* Why a case is created, and why the engine closes it.                    *)
Triggers == {"PAYMENT_FAILED", "UNPAID_ORDER_SCAN", "UNPAID_PAYMENT_LINK"}
ClosingReasons ==
  {"PAYMENT_CAPTURED", "ORDER_ALREADY_PAID", "PAYMENT_LINK_PAID_RECONCILED",
   "MERCHANT_INACTIVE", "CUSTOMER_OPTED_OUT", "PAYMENT_LINK_CANCELLED",
   "RECOVERY_LINK_EXPIRED", "RECOVERY_WINDOW_EXPIRED"}

(* An audit_events row: RECOVERY_CASE_CREATED from "NONE", or a change.    *)
AuditEntry == [from : CaseStatuses \cup {"NONE"}, to : CaseStatuses,
               reason : Triggers \cup ClosingReasons]

NoCase == [status |-> "NONE", amount |-> 0, end |-> 0, customer |-> FALSE,
           log |-> <<>>]

Case == [status : CaseStatuses \cup {"NONE"}, amount : Nat, end : Nat,
         customer : BOOLEAN, log : Seq(AuditEntry)]

NewCase(amount, start, customer, trigger) ==
  [status |-> "AT_RISK", amount |-> amount, end |-> start + Window,
   customer |-> customer,
   log |-> <<[from |-> "NONE", to |-> "AT_RISK", reason |-> trigger]>>]

Exists(k) == k \in CaseKeys /\ cases[k].status # "NONE"
IsActive(c) == c.status \in ActiveStatuses

-------------------------------------------------------------------------------
(* Initially nothing has happened, but for the seeded orders.              *)
Init ==
  /\ clock = 0 /\ requests = 0
  /\ pay = [p \in Payments |-> "created"]
  /\ paid = [o \in Orders |-> 0]
  /\ link = [l \in Links |-> "created"]
  /\ pending = {}
  /\ reading = [w \in Workers |-> NotReading]
  /\ localPayment = [p \in Payments |-> "unknown"]
  /\ localOrder = [o \in Orders |->
       [known |-> o \in SeededOrders, due |-> OrderAmount[o], since |-> 0,
        customer |-> o \in SeededOrders]]
  /\ localLink = [l \in Links |-> [status |-> "unknown", case |-> NoKey]]
  /\ cases = [k \in CaseKeys |-> NoCase]
  /\ assigned = {} /\ openActions = {}
  /\ merchantActive = TRUE /\ optedOut = FALSE

-------------------------------------------------------------------------------
(* The provider (external).                                                *)

Unhandled == <<reading, local, cases, baseline, owner, clock, requests>>

MayEmit == Cardinality(pending) < MaxPending

(* A payment can still succeed: its order is not paid, its link is open.   *)
Payable(p) ==
  /\ OrderOf[p] # NoOrder => PaymentAmount[p] <= Due(OrderOf[p])
  /\ ViaLink[p] # NoLink => link[ViaLink[p]] \in OpenLink

FailPayment(p) ==
  /\ MayEmit
  /\ pay[p] = "created"
  /\ pay' = [pay EXCEPT ![p] = "failed"]
  /\ pending' = pending \cup {PaymentEvent("payment.failed", p)}
  /\ UNCHANGED <<paid, link, Unhandled>>

(* A failed payment may still be authorized late.                          *)
AuthorizePayment(p) ==
  /\ MayEmit
  /\ pay[p] \in {"created", "failed"}
  /\ Payable(p)
  /\ pay' = [pay EXCEPT ![p] = "authorized"]
  /\ pending' = pending \cup {PaymentEvent("payment.authorized", p)}
  /\ UNCHANGED <<paid, link, Unhandled>>

(* Capturing pays the order, and the link it was made through.             *)
CapturePayment(p) ==
  LET o == OrderOf[p]
      l == ViaLink[p]
      linkStatus == IF PaymentAmount[p] = Due(o) THEN "paid" ELSE "partially_paid"
      captured == PaymentEvent("payment.captured", p)
  IN
  /\ MayEmit
  /\ pay[p] = "authorized"
  /\ Payable(p)
  /\ pay' = [pay EXCEPT ![p] = "captured"]
  /\ IF o = NoOrder THEN UNCHANGED paid
                    ELSE paid' = [paid EXCEPT ![o] = @ + PaymentAmount[p]]
  /\ IF l = NoLink
       THEN pending' = pending \cup {captured} /\ UNCHANGED link
       ELSE /\ link' = [link EXCEPT ![l] = linkStatus]
            /\ pending' = pending \cup
                 {captured, LinkEvent(IF linkStatus = "paid"
                                        THEN "payment_link.paid"
                                        ELSE "payment_link.partially_paid", l, p)}
  /\ UNCHANGED Unhandled

(* A refund takes nothing back from the order, and no event tells of it.   *)
RefundPayment(p) ==
  /\ pay[p] = "captured" /\ p \in Refundable
  /\ pay' = [pay EXCEPT ![p] = "refunded"]
  /\ UNCHANGED <<paid, link, pending, Unhandled>>

CancelLink(l) ==
  /\ MayEmit
  /\ link[l] \in OpenLink
  /\ link' = [link EXCEPT ![l] = "cancelled"]
  /\ pending' = pending \cup {LinkEvent("payment_link.cancelled", l, NoPayment)}
  /\ UNCHANGED <<pay, paid, Unhandled>>

ExpireLink(l) ==
  /\ MayEmit
  /\ link[l] \in OpenLink
  /\ link' = [link EXCEPT ![l] = "expired"]
  /\ pending' = pending \cup {LinkEvent("payment_link.expired", l, NoPayment)}
  /\ UNCHANGED <<pay, paid, Unhandled>>

Provider ==
  \/ \E p \in Payments : \/ FailPayment(p) \/ AuthorizePayment(p)
                         \/ CapturePayment(p) \/ RefundPayment(p)
  \/ \E l \in Links : CancelLink(l) \/ ExpireLink(l)

(* Rows nobody in this code writes: the merchant closes, a customer opts   *)
(* out (external); and time passes.                                        *)
CloseMerchant ==
  /\ merchantActive /\ "merchant" \in MayChange
  /\ merchantActive' = FALSE
  /\ UNCHANGED <<provider, pending, reading, local, cases, baseline, optedOut, clock,
                 requests>>

OptOut ==
  /\ ~optedOut /\ "consent" \in MayChange
  /\ optedOut' = TRUE
  /\ UNCHANGED <<provider, pending, reading, local, cases, baseline, merchantActive,
                 clock, requests>>

Tick ==
  /\ clock < MaxTime
  /\ clock' = clock + 1
  /\ UNCHANGED <<provider, pending, reading, local, cases, baseline, owner, requests>>

Surroundings == CloseMerchant \/ OptOut \/ Tick

-------------------------------------------------------------------------------
(* The engine's changes to one case, with the audit they add.              *)

(* _transition: nothing for a case that has ended.  Seeded faults: any     *)
(* case is transitioned; the audit is forgotten.                           *)
MutCloseSilently(c, target, reason) ==
  IF ~IsActive(c) THEN c ELSE [c EXCEPT !.status = target]

MutClose(c, target, reason) ==
  IF c.status = "NONE" THEN c
  ELSE [c EXCEPT !.status = target,
          !.log = Append(@, [from |-> c.status, to |-> target,
                             reason |-> reason])]

Close(c, target, reason) ==
  IF ~IsActive(c) THEN c
  ELSE [c EXCEPT !.status = target,
          !.log = Append(@, [from |-> c.status, to |-> target,
                             reason |-> reason])]

(* The check for an ended window.  Seeded fault: `>' for `>='.             *)
MutIsDue(c) == clock > c.end
IsDue(c) == clock >= c.end

ExpireIfDue(c) ==
  IF IsDue(c) THEN Close(c, "EXPIRED", "RECOVERY_WINDOW_EXPIRED") ELSE c

(* _apply_initial_stop_conditions.  Seeded fault: the consent check is     *)
(* reached only for an inactive merchant.                                  *)
MutApplyStops(c) ==
  IF merchantActive THEN c ELSE Close(c, "STOPPED", "MERCHANT_INACTIVE")

ApplyStops(c) ==
  IF ~merchantActive THEN Close(c, "STOPPED", "MERCHANT_INACTIVE")
  ELSE IF c.customer /\ optedOut THEN Close(c, "STOPPED", "CUSTOMER_OPTED_OUT")
  ELSE c

(* Overwriting amount_at_risk, unless the case has ended.                  *)
SetAmount(c, amount) == IF IsActive(c) THEN [c EXCEPT !.amount = amount] ELSE c

(* _get_or_create_case                                                     *)
GetOrCreate(k, new) == IF Exists(k) THEN cases[k] ELSE new

(* expire_due_cases, over every case.                                      *)
ExpireDue == [k \in CaseKeys |-> ExpireIfDue(cases[k])]

-------------------------------------------------------------------------------
(* Handling a webhook: the reads.                                          *)

(* The first read: the payment, or the link, that the event names.         *)
BeginHandling(w, ev) ==
  /\ ~reading[w].busy
  /\ pending' = pending \ {ev}
  /\ reading' = [reading EXCEPT ![w] =
       IF ev.link = NoLink
         THEN [busy |-> TRUE, event |-> ev, payment |-> pay[ev.payment],
               link |-> "unread", linkDue |-> 0]
         ELSE [busy |-> TRUE, event |-> ev, payment |-> "unread",
               link |-> link[ev.link], linkDue |-> Remaining(ev.link)]]
  /\ UNCHANGED <<provider, local, cases, baseline, owner, clock, requests>>

PaymentUnread(s) == s.event.payment # NoPayment /\ s.payment = "unread"

(* A link event may name a payment too.                                    *)
ReadLinkPayment(w) ==
  /\ reading[w].busy /\ PaymentUnread(reading[w])
  /\ reading' = [reading EXCEPT ![w].payment = pay[reading[w].event.payment]]
  /\ UNCHANGED <<provider, pending, local, cases, baseline, owner, clock, requests>>

(* The last read, of the order, falls together with the transaction.       *)
ReadOrder(s) ==
  IF s.event.link = NoLink THEN OrderOf[s.event.payment]
  ELSE IF s.event.payment # NoPayment THEN LinkOrder[s.event.link]
  ELSE NoOrder

(* _resolve_merchant for the one merchant, mapped to its account (see      *)
(* MerchantOwnership for several).                                         *)
HasLocalOwner(s) ==
  \/ s.event.payment # NoPayment /\ localPayment[s.event.payment] # "unknown"
  \/ ReadOrder(s) # NoOrder /\ localOrder[ReadOrder(s)].known
  \/ s.event.link # NoLink /\ localLink[s.event.link].status # "unknown"

MerchantKnown(s) == Account = "mapped" \/ HasLocalOwner(s)

(* Seeded fault: the order's case is looked for first, the link's last.    *)
MutCorrelated(s) ==
  LET linkKey == <<"PAYMENT_LINK", s.event.link>>
      paymentKey == <<"PAYMENT", s.event.payment>>
      orderKey == <<"ORDER", ReadOrder(s)>>
  IN IF Exists(orderKey) THEN orderKey
     ELSE IF Exists(paymentKey) THEN paymentKey
     ELSE IF Exists(linkKey) THEN linkKey
     ELSE NoKey

(* The case the resources belong to: the one the link was sent out for,    *)
(* else the link's, the payment's, the order's own.                        *)
Correlated(s) ==
  LET l == s.event.link
      sentFor == IF l = NoLink THEN NoKey ELSE localLink[l].case
      linkKey == <<"PAYMENT_LINK", l>>
      paymentKey == <<"PAYMENT", s.event.payment>>
      orderKey == <<"ORDER", ReadOrder(s)>>
  IN IF Exists(sentFor) THEN sentFor
     ELSE IF Exists(linkKey) THEN linkKey
     ELSE IF Exists(paymentKey) THEN paymentKey
     ELSE IF Exists(orderKey) THEN orderKey
     ELSE NoKey

-------------------------------------------------------------------------------
(* Handling a webhook: the transaction.                                    *)

(* Seeded fault: the status the event reports is stored, not the one read. *)
MutStoredStatus(s) ==
  IF s.event.kind = "payment.failed" THEN "failed" ELSE s.payment

StoredStatus(s) == s.payment

(* _sync_* and _ensure_resources: every resource read is stored.           *)
StoreResources(s, linkCase) ==
  LET o == ReadOrder(s) IN
  /\ localPayment' = IF s.event.payment = NoPayment THEN localPayment
       ELSE [localPayment EXCEPT ![s.event.payment] = StoredStatus(s)]
  /\ localOrder' = IF o = NoOrder THEN localOrder
       ELSE [localOrder EXCEPT ![o].known = TRUE, ![o].due = Due(o),
               ![o].since = IF localOrder[o].known THEN @ ELSE clock]
  /\ localLink' = IF s.event.link = NoLink THEN localLink
       ELSE [localLink EXCEPT ![s.event.link] =
               [status |-> s.link, case |-> linkCase]]

(* The end of handle_webhook: case k, now c, is expired if it is due.      *)
CommitCase(k, c) ==
  cases' = IF k = NoKey THEN cases ELSE [cases EXCEPT ![k] = ExpireIfDue(c)]

Finish(w) ==
  /\ reading' = [reading EXCEPT ![w] = NotReading]
  /\ UNCHANGED <<provider, baseline, owner, clock, requests>>

(* An exception rolls back; the provider will deliver the event again.     *)
Raise(w) ==
  /\ pending' = pending \cup {reading[w].event}
  /\ Finish(w)
  /\ UNCHANGED <<local, cases>>

HasReadAll(w) == reading[w].busy /\ ~PaymentUnread(reading[w])

CanHandle(w) == HasReadAll(w) /\ MerchantKnown(reading[w])

CorrelatedCase(w) == cases[Correlated(reading[w])]

(* The branches that touch only the correlated case, now c.                *)
CommitCorrelated(w, c) ==
  LET s == reading[w] IN
  /\ CommitCase(Correlated(s), c)
  /\ StoreResources(s, IF s.event.link = NoLink THEN NoKey
                       ELSE localLink[s.event.link].case)
  /\ Finish(w)
  /\ UNCHANGED pending

(* No merchant: nothing is stored, only a case at its end is expired.      *)
NoMerchant(w) ==
  LET k == Correlated(reading[w]) IN
  /\ HasReadAll(w)
  /\ ~MerchantKnown(reading[w])
  /\ CommitCase(k, cases[k])
  /\ Finish(w)
  /\ UNCHANGED <<pending, local>>

IsPaymentEvent(w) == reading[w].event.link = NoLink

ReportsFailure(s) == s.event.kind = "payment.failed" /\ s.payment = "failed"

(* Seeded fault: an authorized payment counts as money received.           *)
MutShowsCapture(s) == s.payment \in {"authorized", "captured"}
ShowsCapture(s) == s.payment = "captured"

PaymentCaptured(w) ==
  /\ CanHandle(w) /\ IsPaymentEvent(w)
  /\ ShowsCapture(reading[w])
  /\ CommitCorrelated(w, Close(CorrelatedCase(w), "RECOVERED", "PAYMENT_CAPTURED"))

OrderIsPaid(s) == ReadOrder(s) # NoOrder /\ Due(ReadOrder(s)) = 0

OrderAlreadyPaid(w) ==
  /\ CanHandle(w) /\ IsPaymentEvent(w)
  /\ ~ShowsCapture(reading[w]) /\ ReportsFailure(reading[w])
  /\ OrderIsPaid(reading[w])
  /\ CommitCorrelated(w, Close(CorrelatedCase(w), "RECOVERED", "ORDER_ALREADY_PAID"))

(* A failed payment puts what it would have paid at risk: in the case it   *)
(* belongs to, else in a new one whose window began with the event.        *)
PaymentAtRisk(w) ==
  LET s == reading[w]
      p == s.event.payment
      o == ReadOrder(s)
      amount == IF o # NoOrder /\ Due(o) < PaymentAmount[p]
                  THEN Due(o) ELSE PaymentAmount[p]
      customer == o # NoOrder /\ localOrder[o].customer
      k == IF Correlated(s) # NoKey THEN Correlated(s) ELSE <<"PAYMENT", p>>
      found == GetOrCreate(k, NewCase(amount, s.event.at, customer,
                                      "PAYMENT_FAILED"))
  IN
  /\ CanHandle(w) /\ IsPaymentEvent(w)
  /\ ~ShowsCapture(s) /\ ReportsFailure(s)
  /\ ~OrderIsPaid(s)
  /\ CommitCase(k, ApplyStops(SetAmount(found, amount)))
  /\ StoreResources(s, NoKey)
  /\ Finish(w)
  /\ UNCHANGED pending

(* A link asks for a case while it is partially paid, or when it expires   *)
(* without one.                                                            *)
LinkNeedsCase(s) ==
  /\ s.linkDue > 0
  /\ \/ s.link = "partially_paid"
     \/ s.link = "expired" /\ Correlated(s) = NoKey

LinkIsOver(s) ==
  s.link \in {"paid", "cancelled"} \/ (s.link = "expired" /\ Correlated(s) # NoKey)

(* What was read calls for no decision.                                    *)
NothingToDo(w) ==
  LET s == reading[w] IN
  /\ CanHandle(w)
  /\ IF IsPaymentEvent(w) THEN ~ShowsCapture(s) /\ ~ReportsFailure(s)
                          ELSE ~LinkIsOver(s) /\ ~LinkNeedsCase(s)
  /\ CommitCorrelated(w, CorrelatedCase(w))

LinkPaid(w) ==
  LET s == reading[w] IN
  /\ CanHandle(w) /\ ~IsPaymentEvent(w)
  /\ s.link = "paid" /\ s.payment = "captured" /\ OrderIsPaid(s)
  /\ CommitCorrelated(w, Close(CorrelatedCase(w), "RECOVERED", "PAYMENT_LINK_PAID_RECONCILED"))

(* A paid link without a captured payment and a paid order is an error.    *)
RaiseUnproven(w) ==
  LET s == reading[w] IN
  /\ CanHandle(w) /\ ~IsPaymentEvent(w)
  /\ s.link = "paid" /\ ~(s.payment = "captured" /\ OrderIsPaid(s))
  /\ Raise(w)

LinkCancelled(w) ==
  /\ CanHandle(w) /\ ~IsPaymentEvent(w)
  /\ reading[w].link = "cancelled"
  /\ CommitCorrelated(w, Close(CorrelatedCase(w), "STOPPED", "PAYMENT_LINK_CANCELLED"))

LinkExpired(w) ==
  /\ CanHandle(w) /\ ~IsPaymentEvent(w)
  /\ reading[w].link = "expired" /\ Correlated(reading[w]) # NoKey
  /\ CommitCorrelated(w, Close(CorrelatedCase(w), "EXPIRED", "RECOVERY_LINK_EXPIRED"))

(* A link with money left to pay gets a case of its own, and is now linked *)
(* to that one.                                                            *)
LinkAtRisk(w) ==
  LET s == reading[w]
      o == ReadOrder(s)
      k == <<"PAYMENT_LINK", s.event.link>>
      customer == o # NoOrder /\ localOrder[o].customer
      found == GetOrCreate(k, NewCase(s.linkDue, clock, customer,
                                      "UNPAID_PAYMENT_LINK"))
  IN
  /\ CanHandle(w) /\ ~IsPaymentEvent(w)
  /\ LinkNeedsCase(s)
  /\ CommitCase(k, ApplyStops(SetAmount(found, s.linkDue)))
  /\ StoreResources(s, k)
  /\ Finish(w)
  /\ UNCHANGED pending

HandleWebhook(w) ==
  \/ \E ev \in pending : BeginHandling(w, ev)
  \/ ReadLinkPayment(w)
  \/ NoMerchant(w)
  \/ PaymentCaptured(w) \/ NothingToDo(w) \/ OrderAlreadyPaid(w) \/ PaymentAtRisk(w)
  \/ LinkPaid(w) \/ RaiseUnproven(w) \/ LinkCancelled(w) \/ LinkExpired(w)
  \/ LinkAtRisk(w)

-------------------------------------------------------------------------------
(* The endpoints, one transaction each.                                    *)

Undisturbed == <<provider, pending, reading, local, owner, clock>>

(* GET /api/cases?active_only=true and GET /api/dashboard/summary          *)
ListActiveCases ==
  /\ cases' = ExpireDue
  /\ UNCHANGED <<Undisturbed, baseline, requests>>

(* Orders the scan picks.                                                  *)
IsAbandoned(o) ==
  /\ localOrder[o].known /\ localOrder[o].due > 0
  /\ localOrder[o].since + MinAge <= clock

(* POST /api/cases/scan-unpaid-orders: expire what is due, then a case for *)
(* every abandoned order.  A case that is already there keeps its amount.  *)
ScannedCase(o) ==
  LET k == <<"ORDER", o>>
      new == NewCase(localOrder[o].due, clock, localOrder[o].customer,
                     "UNPAID_ORDER_SCAN")
  IN ApplyStops(IF Exists(k) THEN ExpireDue[k] ELSE new)

ScanUnpaidOrders ==
  /\ cases' = [k \in CaseKeys |->
       IF k[1] = "ORDER" /\ IsAbandoned(k[2]) THEN ScannedCase(k[2])
                                              ELSE ExpireDue[k]]
  /\ UNCHANGED <<Undisturbed, baseline, requests>>

(* The requests that name cases or choose them for an experiment.  None of *)
(* them appends an audit event that tells a creation or a status.          *)
Request ==
  /\ requests < MaxRequests
  /\ requests' = requests + 1
  /\ UNCHANGED Undisturbed

(* POST /api/cases: a case as the request has it, its window over or not,  *)
(* its merchant active or not, its customer opted out or not; it may name  *)
(* an experiment there is.  The unique key refuses a second one.           *)
PostCase(k, amount, end, customer, inExperiment) ==
  /\ Request
  /\ ~Exists(k)
  /\ inExperiment => assigned # {}
  /\ cases' = [cases EXCEPT ![k] =
       [status |-> "AT_RISK", amount |-> amount, end |-> end,
        customer |-> customer, log |-> <<>>]]
  /\ assigned' = IF inExperiment THEN assigned \cup {k} ELSE assigned
  /\ UNCHANGED openActions

(* PATCH /api/cases/{case_id}/status: any transition the domain allows.    *)
UpdateStatus(k, target) ==
  /\ Request
  /\ Exists(k) /\ ValidTransition(cases[k].status, target)
  /\ cases' = [cases EXCEPT ![k].status = target]
  /\ UNCHANGED baseline

(* POST /api/baselines/batches: every eligible case joins an experiment;  *)
(* the treated ones go to DECISION_READY and get an action.  CaseSessions  *)
(* has the groups, and batches that overlap.                               *)
EligibleCases ==
  {k \in CaseKeys \ assigned : /\ cases[k].status \in EligibleStatuses
                               /\ clock < cases[k].end}

RunBatch(treated) ==
  /\ Request
  /\ merchantActive /\ EligibleCases # {}
  /\ cases' = [k \in CaseKeys |->
       IF k \in treated THEN [cases[k] EXCEPT !.status = "DECISION_READY"]
                        ELSE cases[k]]
  /\ assigned' = assigned \cup EligibleCases
  /\ openActions' = openActions \cup treated

(* POST /api/baselines/actions/{action_id}/outcomes: a recovered one needs *)
(* a payment stored as captured -- any -- and ends the case.               *)
RecordRecovered(k) ==
  /\ Request
  /\ k \in openActions
  /\ IsActive(cases[k]) \/ cases[k].status = "RECOVERED"
  /\ \E p \in Payments : localPayment[p] = "captured"
  /\ cases' = [cases EXCEPT ![k].status = "RECOVERED"]
  /\ openActions' = openActions \ {k}
  /\ UNCHANGED assigned

RecordNotRecovered(k) ==
  /\ Request
  /\ k \in openActions
  /\ openActions' = openActions \ {k}
  /\ UNCHANGED <<cases, assigned>>

Endpoints ==
  \/ ListActiveCases
  \/ ScanUnpaidOrders
  \/ \E k \in CaseKeys, amount \in PostedAmounts, end \in PostedEnds,
        customer, inExperiment \in BOOLEAN :
       PostCase(k, amount, end, customer, inExperiment)
  \/ \E k \in CaseKeys, target \in CaseStatuses : UpdateStatus(k, target)
  \/ \E treated \in SUBSET EligibleCases : RunBatch(treated)
  \/ \E k \in CaseKeys : RecordRecovered(k) \/ RecordNotRecovered(k)

Next ==
  \/ Provider
  \/ Surroundings
  \/ \E w \in Workers : HandleWebhook(w)
  \/ Endpoints

Spec == Init /\ [][Next]_vars

(* The dashboard page polls every three seconds (apps/web/app/page.tsx).   *)
FairSpec == Spec /\ WF_vars(ListActiveCases)

-------------------------------------------------------------------------------
(* Properties *)

ProviderOK ==
  /\ pay \in [Payments -> PaymentStatuses]
  /\ paid \in [Orders -> Nat] /\ \A o \in Orders : paid[o] <= OrderAmount[o]
  /\ link \in [Links -> LinkStatuses]
  /\ pending \subseteq Event

LocalOK ==
  /\ localPayment \in [Payments -> PaymentStatuses \cup {"unknown"}]
  /\ localOrder \in [Orders -> [known : BOOLEAN, due : Nat, since : Nat,
                                customer : BOOLEAN]]
  /\ localLink \in [Links -> [status : LinkStatuses \cup {"unknown"},
                              case : CaseKeys \cup {NoKey}]]

TypeOK ==
  /\ ProviderOK
  /\ reading \in [Workers -> Reading \cup {NotReading}]
  /\ LocalOK
  /\ cases \in [CaseKeys -> Case]
  /\ openActions \subseteq assigned /\ assigned \subseteq CaseKeys
  /\ merchantActive \in BOOLEAN /\ optedOut \in BOOLEAN
  /\ clock \in 0 .. MaxTime /\ requests \in 0 .. MaxRequests

(* docs/recovery-cases.md:30-48: every transaction, in any order of events,*)
(* is a step of CaseRegister: a terminal case never reopens, nor does any  *)
(* late event change where it ended or what it was worth.                  *)
EntryOf(c) ==
  IF c.status = "NONE" THEN [status |-> "NONE"]
  ELSE [status |-> c.status, amount |-> c.amount, end |-> c.end,
        customer |-> c.customer]

Register == INSTANCE CaseRegister
              WITH Keys <- CaseKeys, Amounts <- Nat \ {0}, Times <- Nat,
                   entry <- [k \in CaseKeys |-> EntryOf(cases[k])]

ImplementsRegister == Register!Spec

(* What the engine does to a case it tells in the audit: rows are appended, *)
(* never changed, and lead from the status before to the one after.  The   *)
(* requests append none (docs/recovery-cases.md:48-49, see AuditTellsStatus).*)
Told(c, d) ==
  LET After(i) == IF i = Len(c.log) THEN c.status ELSE d.log[i].to IN
  /\ Len(c.log) <= Len(d.log) /\ \A i \in DOMAIN c.log : d.log[i] = c.log[i]
  /\ \A i \in Len(c.log) + 1 .. Len(d.log) : d.log[i].from = After(i - 1)
  /\ After(Len(d.log)) = d.status

AuditIsAppended ==
  [][\A k \in CaseKeys :
       IF requests' = requests THEN Told(cases[k], cases'[k])
                               ELSE cases'[k].log = cases[k].log]_vars

(* The audit of every case, whoever opened it, is a lawful history: at most*)
(* one creation, and it comes first; at most one closing of an active case,*)
(* and it comes last and tells the status for good.                        *)
LastEntry(c) == c.log[Len(c.log)]

LawfulAudit(c) ==
  \A i \in DOMAIN c.log :
    \/ i = 1 /\ c.log[i].from = "NONE" /\ c.log[i].to = "AT_RISK"
    \/ /\ i = Len(c.log)
       /\ c.log[i].from \in ActiveStatuses /\ c.log[i].to \in ClosingStatuses
       /\ c.log[i].to = c.status

AuditIsLawful == \A k \in CaseKeys : LawfulAudit(cases[k])

(* What the provider must have for the engine to close case k as recovered *)
(* for this reason: the payment itself, the whole order, or the paid link. *)
(* An order's case ends with the first payment captured on it, whatever of *)
(* the order is still due (engine.py:166-175).                             *)
WasCaptured(p) == pay[p] \in {"captured", "refunded"}

OrderWasPaid(o) == o # NoOrder /\ Due(o) = 0

Evidence(k, reason) ==
  \/ /\ k[1] = "PAYMENT"
     /\ IF reason = "ORDER_ALREADY_PAID" THEN OrderWasPaid(OrderOf[k[2]])
                                         ELSE WasCaptured(k[2])
  \/ /\ k[1] = "ORDER"
     /\ IF reason = "PAYMENT_CAPTURED"
          THEN \E p \in Payments : OrderOf[p] = k[2] /\ WasCaptured(p)
          ELSE OrderWasPaid(k[2])
  \/ k[1] = "PAYMENT_LINK" /\ link[k[2]] = "paid" /\ OrderWasPaid(LinkOrder[k[2]])

(* The engine closes a case as recovered only on evidence the provider has,*)
(* whatever order the events came in.                                      *)
RecoveredHasEvidence ==
  \A k \in CaseKeys :
    cases[k].log # <<>> /\ LastEntry(cases[k]).to = "RECOVERED" =>
      Evidence(k, LastEntry(cases[k]).reason)

(* A case the engine opens comes into being active only inside its window, *)
(* with something at risk, for an active merchant and a customer who has   *)
(* not opted out.  (POST /api/cases opens one whatever these say.)         *)
OpenedByEngine(c) == c.log # <<>> /\ c.log[1].from = "NONE"

NewCasesAreLive ==
  [][\A k \in CaseKeys :
       /\ cases[k].status = "NONE"
       /\ cases'[k].status \in ActiveStatuses /\ OpenedByEngine(cases'[k])
       => /\ clock < cases'[k].end
          /\ cases'[k].amount > 0
          /\ merchantActive
          /\ ~(cases'[k].customer /\ optedOut)]_vars

(* docs/webhooks.md:56-57, docs/phase-status.md:127: a late webhook does   *)
(* not overwrite newer local state; no payment, order or link goes back.   *)
PaymentOrder(st) ==
  CASE st = "refunded" -> 4 [] st = "captured" -> 3 [] st = "authorized" -> 2
    [] st = "failed" -> 1 [] OTHER -> 0

LocalNeverRegresses ==
  [][/\ \A p \in Payments :
          PaymentOrder(localPayment'[p]) >= PaymentOrder(localPayment[p])
     /\ \A o \in Orders :
          localOrder[o].known => localOrder'[o].known
                                 /\ localOrder'[o].due <= localOrder[o].due
     /\ \A l \in Links :
          localLink[l].status \in {"paid", "cancelled", "expired"} =>
            localLink'[l].status = localLink[l].status]_vars

(* All webhooks handled, none in progress.                                 *)
Quiet == pending = {} /\ \A w \in Workers : ~reading[w].busy

(* However payment.failed and payment.captured were ordered, in the end a  *)
(* captured payment has no active case of its own, a paid link neither --  *)
(* but for one posted when all about the payment had been handled.         *)
PaidResourceEndsOwnCase ==
  LET StillAtRisk(k) == IsActive(cases[k]) /\ OpenedByEngine(cases[k]) IN
  Quiet =>
    /\ \A p \in Payments : pay[p] = "captured" => ~StillAtRisk(<<"PAYMENT", p>>)
    /\ \A l \in Links : link[l] = "paid" => ~StillAtRisk(<<"PAYMENT_LINK", l>>)

(* Every overdue case ends, as long as someone looks at the dashboard.     *)
OverdueCasesEnd ==
  \A k \in CaseKeys :
    (IsActive(cases[k]) /\ cases[k].end <= clock) ~> ~IsActive(cases[k])

-------------------------------------------------------------------------------
(* What the documents say and the code does not do.                        *)

(* docs/recovery-cases.md:48-49: creation and status changes append        *)
(* audit_events, so the last one tells the status.                         *)
AuditTellsStatus ==
  \A k \in CaseKeys :
    Exists(k) => cases[k].log # <<>> /\ LastEntry(cases[k]).to = cases[k].status

(* docs/recovery-cases.md:42: a case becomes terminal when the related     *)
(* payment/order/Payment Link is reconciled as paid.                       *)
PaidOrderEndsItsCases ==
  Quiet =>
    \A o \in Orders :
      Due(o) = 0 =>
        /\ ~IsActive(cases[<<"ORDER", o>>])
        /\ \A p \in Payments :
             OrderOf[p] = o => ~IsActive(cases[<<"PAYMENT", p>>])

===============================================================================

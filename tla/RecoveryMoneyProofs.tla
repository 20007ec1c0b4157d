-------------------------- MODULE RecoveryMoneyProofs --------------------------
(***************************************************************************)
(* What RecoveryEngine says about money, against what the provider has:    *)
(* RecoveredHasEvidence, NewCasesAreLive and AuditIsAppended, for any      *)
(* payments, orders, links and workers, and any bounds.                    *)
(*                                                                         *)
(* The argument goes in two steps.  Written lists what one transaction may *)
(* make of one case, and on what evidence; each property of cases follows  *)
(* from that list.  The evidence is what a worker has read, and Grounds    *)
(* says that it stays true while the provider moves on.                    *)
(***************************************************************************)
EXTENDS RecoveryEngineProofs, SequenceTheorems

(* What a worker has read as final is still so.                            *)
ReadsHold(s) ==
  /\ s.payment = "captured" =>
       s.event.payment # NoPayment /\ WasCaptured(s.event.payment)
  /\ s.link = "paid" => s.event.link # NoLink /\ link[s.event.link] = "paid"

ReadingsHold == \A w \in Workers : reading[w].busy => ReadsHold(reading[w])

(* A link leads to its own case or to none.                                *)
LinksPointHome ==
  \A l \in Links : localLink[l].case \in {NoKey, <<"PAYMENT_LINK", l>>}

(* Where there is no case, there is no audit either.                       *)
AbsentIsBlank ==
  \A k \in CaseKeys : cases[k].status = "NONE" => cases[k] = NoCase

Grounds == ReadingsHold /\ LinksPointHome /\ AbsentIsBlank

(* What the steps beside the handlers leave alone.                         *)
LEMMA EndpointsLeave == ASSUME Endpoints PROVE UNCHANGED Undisturbed
BY DEF Endpoints, ListActiveCases, ScanUnpaidOrders, PostCase, UpdateStatus,
       RunBatch, RecordRecovered, RecordNotRecovered, Request

LEMMA SurroundingsLeave ==
  ASSUME Surroundings PROVE UNCHANGED <<provider, pending, reading, local, cases>>
BY DEF Surroundings, CloseMerchant, OptOut, Tick

-------------------------------------------------------------------------------
(* What a transaction makes of case k.                                     *)

(* The engine closes it.                                                   *)
ClosedWith(k, new) ==
  \E target \in ClosingStatuses, reason \in ClosingReasons :
    /\ Exists(k)
    /\ target = "RECOVERED" => Evidence(k, reason)
    /\ new = ExpireIfDue(Close(cases[k], target, reason))

(* A worker that has read a failed payment, or a link that is not paid,    *)
(* opens the case of that resource; or it finds another one.               *)
OpenedFor(s, k) ==
  \/ Exists(k)
  \/ k = <<"PAYMENT", s.event.payment>> /\ s.event.link = NoLink
     /\ s.payment = "failed"
  \/ k = <<"PAYMENT_LINK", s.event.link>> /\ s.link # "paid"

PutAtRisk(k, new) ==
  \E w \in Workers, amount \in Nat \ {0}, start \in Nat, customer \in BOOLEAN,
     trigger \in Triggers :
    /\ HasReadAll(w) /\ OpenedFor(reading[w], k)
    /\ \E linkCase : StoreResources(reading[w], linkCase)
    /\ Finish(w) /\ UNCHANGED pending
    /\ new = ExpireIfDue(ApplyStops(SetAmount(
               GetOrCreate(k, NewCase(amount, start, customer, trigger)), amount)))

(* The scan finds or opens it.                                             *)
Scanned(k, new) ==
  \E amount \in Nat \ {0}, customer \in BOOLEAN, trigger \in Triggers :
    /\ k[1] = "ORDER" /\ UNCHANGED Undisturbed
    /\ new = ApplyStops(IF Exists(k) THEN ExpireIfDue(cases[k])
                        ELSE NewCase(amount, clock, customer, trigger))

ByEngine(k, new) ==
  /\ requests' = requests
  /\ \/ new = ExpireIfDue(cases[k])
     \/ ClosedWith(k, new)
     \/ PutAtRisk(k, new)
     \/ Scanned(k, new)

(* A request leaves the audit, or that there is none, as it was.           *)
ByRequest(k, new) == requests' # requests /\ new.log = cases[k].log

Written(k, new) == new = cases[k] \/ ByEngine(k, new) \/ ByRequest(k, new)

CasesWritten == \A k \in CaseKeys : Written(k, cases'[k])

LEMMA UnchangedWrites == ASSUME UNCHANGED cases PROVE CasesWritten
BY DEF CasesWritten, Written

(* CommitCase writes one case.                                             *)
LEMMA CommitWrites ==
  ASSUME Inv, NEW k \in CaseKeys \cup {NoKey}, NEW c, CommitCase(k, c),
         k # NoKey => Written(k, ExpireIfDue(c))
  PROVE  CasesWritten
<1>1. CASE k = NoKey
  BY <1>1, UnchangedWrites DEF CommitCase
<1>2. CASE k # NoKey
  <2>1. cases' = [cases EXCEPT ![k] = ExpireIfDue(c)] /\ k \in CaseKeys
    BY <1>2 DEF CommitCase
  <2>2. \A j \in CaseKeys : j # k => cases'[j] = cases[j]
    BY <2>1 DEF Inv, TypeOK
  <2>3. cases'[k] = ExpireIfDue(c)
    BY <2>1 DEF Inv, TypeOK
  <2> QED
    BY <1>2, <2>2, <2>3 DEF CasesWritten, Written
<1> QED
  BY <1>1, <1>2

(* The case found for the resources is there, and belongs to one of them.  *)
LEMMA CorrelatedIsThere ==
  ASSUME Inv, LinksPointHome, NEW s \in Reading, NEW k, k = Correlated(s),
         k # NoKey
  PROVE  /\ Exists(k)
         /\ \/ k = <<"PAYMENT_LINK", s.event.link>> /\ s.event.link \in Links
            \/ k = <<"PAYMENT", s.event.payment>> /\ s.event.payment \in Payments
            \/ k = <<"ORDER", ReadOrder(s)>> /\ ReadOrder(s) \in Orders
<1>1. s.event \in Event
  BY DEF Reading
<1> DEFINE l == s.event.link
           sentFor == IF l = NoLink THEN NoKey ELSE localLink[l].case
<1>2. sentFor \in {NoKey, <<"PAYMENT_LINK", l>>}
  BY <1>1 DEF LinksPointHome, Event
<1>3. Exists(k)
  BY DEF Correlated
<1>4. k \in {<<"PAYMENT_LINK", l>>, <<"PAYMENT", s.event.payment>>,
             <<"ORDER", ReadOrder(s)>>}
  BY <1>2 DEF Correlated
<1> QED
  BY <1>3, <1>4 DEF Exists, CaseKeys

-------------------------------------------------------------------------------
(* The evidence on which the engine reports money as recovered.            *)

LEMMA CaptureIsEvidence ==
  ASSUME Inv, Grounds, NEW w \in Workers, HasReadAll(w), IsPaymentEvent(w),
         ShowsCapture(reading[w]), NEW k, k = Correlated(reading[w]), k # NoKey
  PROVE  Evidence(k, "PAYMENT_CAPTURED")
<1> DEFINE s == reading[w]  p == s.event.payment
<1>1. s \in Reading /\ s.event \in Event
  BY BusyReads DEF Inv
<1>2. WasCaptured(p)
  BY DEF Grounds, ReadingsHold, ReadsHold, HasReadAll, ShowsCapture
<1>3. p \in Payments /\ s.event.link \notin Links
  BY <1>1, ResourcesAssumption DEF Event, IsPaymentEvent
<1>4. k = <<"PAYMENT", p>> \/ k = <<"ORDER", ReadOrder(s)>>
  BY <1>1, <1>3, CorrelatedIsThere DEF Grounds
<1>5. ReadOrder(s) = OrderOf[p]
  BY DEF ReadOrder, IsPaymentEvent
<1> HIDE DEF s, p
<1> QED
  BY <1>2, <1>3, <1>4, <1>5 DEF Evidence

LEMMA PaidOrderIsEvidence ==
  ASSUME Inv, Grounds, NEW w \in Workers, HasReadAll(w), IsPaymentEvent(w),
         OrderIsPaid(reading[w]), NEW k, k = Correlated(reading[w]), k # NoKey
  PROVE  Evidence(k, "ORDER_ALREADY_PAID")
<1> DEFINE s == reading[w]  p == s.event.payment
<1>1. s \in Reading /\ s.event \in Event
  BY BusyReads DEF Inv
<1>2. p \in Payments /\ s.event.link \notin Links
  BY <1>1, ResourcesAssumption DEF Event, IsPaymentEvent
<1>3. k \in {<<"PAYMENT", p>>, <<"ORDER", ReadOrder(s)>>}
  BY <1>1, <1>2, CorrelatedIsThere DEF Grounds
<1>4. ReadOrder(s) = OrderOf[p] /\ OrderWasPaid(ReadOrder(s))
  BY DEF ReadOrder, IsPaymentEvent, OrderIsPaid, OrderWasPaid
<1> HIDE DEF s, p
<1> QED
  BY <1>3, <1>4 DEF Evidence

LEMMA PaidLinkIsEvidence ==
  ASSUME Inv, Grounds, NEW w \in Workers, LinkPaid(w),
         NEW k, k = Correlated(reading[w]), k # NoKey
  PROVE  Evidence(k, "PAYMENT_LINK_PAID_RECONCILED")
<1> DEFINE s == reading[w]
<1>1. /\ HasReadAll(w) /\ s.link = "paid" /\ s.payment = "captured"
      /\ OrderIsPaid(s)
  BY DEF LinkPaid, CanHandle
<1>2. s \in Reading /\ s.event \in Event
  BY <1>1, BusyReads DEF Inv
<1>3. /\ s.event.payment # NoPayment /\ WasCaptured(s.event.payment)
      /\ s.event.link # NoLink /\ link[s.event.link] = "paid"
  BY <1>1 DEF Grounds, ReadingsHold, ReadsHold, HasReadAll
<1>4. k \in {<<"PAYMENT_LINK", s.event.link>>, <<"PAYMENT", s.event.payment>>,
             <<"ORDER", ReadOrder(s)>>}
  BY <1>2, CorrelatedIsThere DEF Grounds
<1>5. OrderWasPaid(ReadOrder(s)) /\ ReadOrder(s) = LinkOrder[s.event.link]
  BY <1>1, <1>3 DEF OrderIsPaid, OrderWasPaid, ReadOrder
<1> HIDE DEF s
<1> QED
  BY <1>3, <1>4, <1>5 DEF Evidence

-------------------------------------------------------------------------------
(* Every step writes cases in one of these ways.                           *)

LEMMA CorrelatedWrites ==
  ASSUME Inv, Grounds, NEW w \in Workers, HasReadAll(w),
         NEW target \in ClosingStatuses, NEW reason \in ClosingReasons,
         CommitCorrelated(w, Close(CorrelatedCase(w), target, reason)),
         ASSUME NEW k, k = Correlated(reading[w]), k # NoKey,
                target = "RECOVERED"
         PROVE  Evidence(k, reason)
  PROVE  CasesWritten
<1> DEFINE k == Correlated(reading[w])  c == Close(cases[k], target, reason)
<1>1. k \in CaseKeys \cup {NoKey} /\ CommitCase(k, c)
  BY CorrelatedType DEF CommitCorrelated, CorrelatedCase
<1>2. reading[w] \in Reading
  BY BusyReads DEF Inv
<1>3. ASSUME k # NoKey PROVE Written(k, ExpireIfDue(c))
  <2>1. Exists(k)
    BY <1>2, <1>3, CorrelatedIsThere DEF Grounds
  <2>2. target = "RECOVERED" => Evidence(k, reason)
    BY <1>3
  <2>3. requests' = requests
    BY DEF CommitCorrelated, Finish
  <2> QED
    BY <2>1, <2>2, <2>3 DEF Written, ByEngine, ClosedWith
<1> HIDE DEF k, c
<1> QED
  BY <1>1, <1>3, CommitWrites

LEMMA PaymentAtRiskWrites ==
  ASSUME Inv, Grounds, NEW w \in Workers, PaymentAtRisk(w)
  PROVE  CasesWritten
<1> DEFINE s == reading[w]
           p == s.event.payment
           o == ReadOrder(s)
           amount == IF o # NoOrder /\ Due(o) < PaymentAmount[p]
                       THEN Due(o) ELSE PaymentAmount[p]
           customer == o # NoOrder /\ localOrder[o].customer
           k == IF Correlated(s) # NoKey THEN Correlated(s) ELSE <<"PAYMENT", p>>
           start == s.event.at
           trigger == "PAYMENT_FAILED"
           c == ApplyStops(SetAmount(
                  GetOrCreate(k, NewCase(amount, start, customer, trigger)), amount))
<1>1. HasReadAll(w) /\ IsPaymentEvent(w) /\ s.payment = "failed"
  BY DEF PaymentAtRisk, CanHandle, ReportsFailure
<1>2. s \in Reading /\ s.event \in Event
  BY <1>1, BusyReads DEF Inv
<1>3. p \in Payments
  BY <1>1, <1>2 DEF IsPaymentEvent, Event
<1>4. o \in Orders \cup {NoOrder}
  BY <1>2, ReadOrderType
<1>5. amount \in Nat \ {0}
  BY <1>3, <1>4, DueType, ResourcesAssumption DEF Inv, PaymentAtRisk, OrderIsPaid
<1>6. customer \in BOOLEAN
  OBVIOUS
<1>7. start \in Nat /\ trigger \in Triggers
  BY <1>2, TimesAssumption DEF Event, Triggers
<1>8. k \in CaseKeys
  BY <1>3, CorrelatedType DEF CaseKeys
<1>9. /\ CommitCase(k, c)
      /\ StoreResources(s, NoKey) /\ Finish(w) /\ UNCHANGED pending
  BY DEF PaymentAtRisk
<1>10. OpenedFor(s, k)
  BY <1>1, <1>2, CorrelatedIsThere DEF OpenedFor, Grounds, IsPaymentEvent
<1> HIDE DEF amount, customer, k, start, trigger
<1>11. PutAtRisk(k, ExpireIfDue(c))
  BY <1>1, <1>5, <1>6, <1>7, <1>9, <1>10 DEF PutAtRisk
<1> QED
  BY <1>8, <1>9, <1>11, CommitWrites DEF Written, ByEngine, Finish

LEMMA LinkAtRiskWrites ==
  ASSUME Inv, NEW w \in Workers, LinkAtRisk(w)
  PROVE  CasesWritten
<1> DEFINE s == reading[w]
           o == ReadOrder(s)
           amount == s.linkDue
           customer == o # NoOrder /\ localOrder[o].customer
           k == <<"PAYMENT_LINK", s.event.link>>
           trigger == "UNPAID_PAYMENT_LINK"
           c == ApplyStops(SetAmount(
                  GetOrCreate(k, NewCase(amount, clock, customer, trigger)), amount))
<1>1. /\ HasReadAll(w) /\ ~IsPaymentEvent(w)
      /\ s.linkDue > 0 /\ s.link \in {"partially_paid", "expired"}
  BY DEF LinkAtRisk, CanHandle, LinkNeedsCase
<1>2. s \in Reading /\ s.event \in Event
  BY <1>1, BusyReads DEF Inv
<1>3. amount \in Nat \ {0}
  <2>1. s.linkDue \in Nat
    BY <1>2 DEF Reading
  <2> QED
    BY <1>1, <2>1
<1>4. customer \in BOOLEAN
  OBVIOUS
<1>5. clock \in Nat /\ trigger \in Triggers
  BY TimesAssumption DEF Inv, TypeOK, Triggers
<1>6. k \in CaseKeys
  BY <1>1, <1>2 DEF IsPaymentEvent, Event, CaseKeys
<1>7. /\ CommitCase(k, c)
      /\ StoreResources(s, k) /\ Finish(w) /\ UNCHANGED pending
  BY DEF LinkAtRisk
<1>8. OpenedFor(s, k)
  BY <1>1 DEF OpenedFor
<1> HIDE DEF amount, customer, k, trigger
<1>9. PutAtRisk(k, ExpireIfDue(c))
  BY <1>1, <1>3, <1>4, <1>5, <1>7, <1>8 DEF PutAtRisk
<1> QED
  BY <1>6, <1>7, <1>9, CommitWrites DEF Written, ByEngine, Finish

LEMMA HandleWrites ==
  ASSUME Inv, Grounds, NEW w \in Workers, HandleWebhook(w)
  PROVE  CasesWritten
<1> USE DEF ClosingStatuses, ClosingReasons
<1>1. CASE (\E ev \in pending : BeginHandling(w, ev)) \/ ReadLinkPayment(w)
  BY <1>1, UnchangedWrites DEF BeginHandling, ReadLinkPayment
<1>2. CASE NoMerchant(w)
  BY <1>2, CorrelatedType, CommitWrites DEF NoMerchant, Written, ByEngine, Finish
<1>3. CASE PaymentCaptured(w)
  <2>1. HasReadAll(w) /\ IsPaymentEvent(w) /\ ShowsCapture(reading[w])
    BY <1>3 DEF PaymentCaptured, CanHandle
  <2> QED
    BY <1>3, <2>1, CaptureIsEvidence, CorrelatedWrites DEF PaymentCaptured
<1>4. CASE NothingToDo(w)
  BY <1>4, CorrelatedType, CommitWrites DEF NothingToDo, CommitCorrelated,
                                            CorrelatedCase, Written, ByEngine, Finish
<1>5. CASE OrderAlreadyPaid(w)
  <2>1. HasReadAll(w) /\ IsPaymentEvent(w) /\ OrderIsPaid(reading[w])
    BY <1>5 DEF OrderAlreadyPaid, CanHandle
  <2> QED
    BY <1>5, <2>1, PaidOrderIsEvidence, CorrelatedWrites DEF OrderAlreadyPaid
<1>6. CASE PaymentAtRisk(w)
  BY <1>6, PaymentAtRiskWrites
<1>7. CASE LinkPaid(w)
  BY <1>7, PaidLinkIsEvidence, CorrelatedWrites DEF LinkPaid, CanHandle
<1>8. CASE RaiseUnproven(w)
  BY <1>8, UnchangedWrites DEF RaiseUnproven, Raise
<1>9. CASE LinkCancelled(w)
  BY <1>9, CorrelatedWrites DEF LinkCancelled, CanHandle
<1>10. CASE LinkExpired(w)
  BY <1>10, CorrelatedWrites DEF LinkExpired, CanHandle
<1>11. CASE LinkAtRisk(w)
  BY <1>11, LinkAtRiskWrites
<1> QED
  BY <1>1, <1>2, <1>3, <1>4, <1>5, <1>6, <1>7, <1>8, <1>9, <1>10, <1>11
     DEF HandleWebhook

LEMMA ScanWrites ==
  ASSUME Inv, ScanUnpaidOrders PROVE CasesWritten
<1> SUFFICES ASSUME NEW k \in CaseKeys PROVE Written(k, cases'[k])
  BY DEF CasesWritten
<1>1. CASE k[1] = "ORDER" /\ IsAbandoned(k[2])
  <2> DEFINE o == k[2]
             due == localOrder[o].due
             customer == localOrder[o].customer
             trigger == "UNPAID_ORDER_SCAN"
  <2>1. k = <<"ORDER", o>> /\ o \in Orders
    BY <1>1 DEF CaseKeys
  <2>2. due \in Nat \ {0} /\ customer \in BOOLEAN /\ trigger \in Triggers
    BY <1>1, <2>1 DEF Inv, TypeOK, LocalOK, IsAbandoned, Triggers
  <2>3. cases'[k] = ApplyStops(IF Exists(k) THEN ExpireIfDue(cases[k])
                               ELSE NewCase(due, clock, customer, trigger))
    BY <1>1, <2>1 DEF ScanUnpaidOrders, ScannedCase, ExpireDue
  <2>4. UNCHANGED Undisturbed /\ requests' = requests
    BY DEF ScanUnpaidOrders
  <2> HIDE DEF due, customer, trigger
  <2> QED
    BY <1>1, <2>2, <2>3, <2>4 DEF Written, ByEngine, Scanned
<1>2. CASE ~(k[1] = "ORDER" /\ IsAbandoned(k[2]))
  BY <1>2 DEF ScanUnpaidOrders, ExpireDue, Written, ByEngine
<1> QED
  BY <1>1, <1>2

LEMMA RequestWrites ==
  ASSUME Inv, Request, \A k \in CaseKeys : cases'[k].log = cases[k].log
  PROVE  CasesWritten
<1>1. requests' # requests
  BY DEF Inv, TypeOK, Request
<1> QED
  BY <1>1 DEF CasesWritten, Written, ByRequest

LEMMA EndpointsWrite ==
  ASSUME Inv, Grounds, Endpoints PROVE CasesWritten
<1>1. CASE ListActiveCases
  BY <1>1 DEF ListActiveCases, ExpireDue, CasesWritten, Written, ByEngine
<1>2. CASE ScanUnpaidOrders
  BY <1>2, ScanWrites
<1>3. ASSUME NEW k \in CaseKeys, NEW amount, NEW end, NEW customer,
             NEW inExperiment, PostCase(k, amount, end, customer, inExperiment)
      PROVE  CasesWritten
  <2>1. cases[k].log = <<>>
    BY <1>3 DEF PostCase, Exists, Grounds, AbsentIsBlank, NoCase
  <2>2. \A j \in CaseKeys : cases'[j].log = cases[j].log
    BY <1>3, <2>1 DEF PostCase, Inv, TypeOK
  <2> QED
    BY <1>3, <2>2, RequestWrites DEF PostCase
<1>4. ASSUME NEW k \in CaseKeys, NEW target \in CaseStatuses,
             UpdateStatus(k, target)
      PROVE  CasesWritten
  <2>1. \A j \in CaseKeys : cases'[j].log = cases[j].log
    BY <1>4 DEF UpdateStatus, Inv, TypeOK, Case
  <2> QED
    BY <1>4, <2>1, RequestWrites DEF UpdateStatus
<1>5. ASSUME NEW treated, RunBatch(treated) PROVE CasesWritten
  BY <1>5, RequestWrites DEF RunBatch, Inv, TypeOK, Case
<1>6. ASSUME NEW k \in CaseKeys, RecordRecovered(k) \/ RecordNotRecovered(k)
      PROVE  CasesWritten
  <2>1. \A j \in CaseKeys : cases'[j].log = cases[j].log
    <3>1. CASE RecordRecovered(k)
      BY <3>1 DEF RecordRecovered, Inv, TypeOK, Case
    <3>2. CASE RecordNotRecovered(k)
      BY <3>2 DEF RecordNotRecovered
    <3> QED
      BY <1>6, <3>1, <3>2
  <2> QED
    BY <1>6, <2>1, RequestWrites DEF RecordRecovered, RecordNotRecovered
<1> QED
  BY <1>1, <1>2, <1>3, <1>4, <1>5, <1>6 DEF Endpoints

LEMMA NextWrites ==
  ASSUME Inv, Grounds, [Next]_vars PROVE CasesWritten
<1>1. CASE Provider
  BY <1>1, ProviderStep, UnchangedWrites
<1>2. CASE Surroundings
  BY <1>2, SurroundingsLeave, UnchangedWrites
<1>3. CASE \E w \in Workers : HandleWebhook(w)
  BY <1>3, HandleWrites
<1>4. CASE Endpoints
  BY <1>4, EndpointsWrite
<1>5. CASE UNCHANGED vars
  BY <1>5, UnchangedWrites DEF vars
<1> QED
  BY <1>1, <1>2, <1>3, <1>4, <1>5 DEF Next

-------------------------------------------------------------------------------
(* Money that was received stays received.                                 *)

ProviderMovesOn ==
  /\ \A p \in Payments : WasCaptured(p) => WasCaptured(p)'
  /\ \A o \in Orders : paid'[o] \in Nat /\ paid[o] <= paid'[o]
                       /\ paid'[o] <= OrderAmount[o]
  /\ \A l \in Links : link[l] \in {"paid", "cancelled", "expired"} =>
                        link'[l] = link[l]

LEMMA ProviderGoesOn ==
  ASSUME Inv, [Next]_vars PROVE ProviderMovesOn
<1>0. ProviderOK
  BY DEF Inv, TypeOK
<1>1. ProviderOK'
  BY NextKeeps DEF TypeOK
<1>2. CASE UNCHANGED provider
  BY <1>0, <1>2 DEF ProviderMovesOn, provider, WasCaptured, ProviderOK
<1>3. ASSUME NEW p \in Payments, CapturePayment(p) PROVE ProviderMovesOn
  <2>1. \A q \in Payments : WasCaptured(q) => WasCaptured(q)'
    BY <1>0, <1>3 DEF CapturePayment, WasCaptured, ProviderOK
  <2>2. \A o \in Orders : paid[o] <= paid'[o]
    <3>1. CASE OrderOf[p] = NoOrder
      BY <1>0, <1>3, <3>1 DEF CapturePayment, ProviderOK
    <3>2. CASE OrderOf[p] # NoOrder
      <4>1. paid' = [paid EXCEPT ![OrderOf[p]] = @ + PaymentAmount[p]]
        BY <1>3, <3>2 DEF CapturePayment
      <4>2. PaymentAmount[p] \in Nat
        BY ResourcesAssumption
      <4> QED
        BY <1>0, <4>1, <4>2 DEF ProviderOK
    <3> QED
      BY <3>1, <3>2
  <2>3. \A l \in Links : link[l] \in {"paid", "cancelled", "expired"} =>
                           link'[l] = link[l]
    BY <1>0, <1>3 DEF CapturePayment, Payable, OpenLink, ProviderOK
  <2> QED
    BY <1>1, <2>1, <2>2, <2>3 DEF ProviderMovesOn, ProviderOK
<1>4. ASSUME NEW p \in Payments,
             FailPayment(p) \/ AuthorizePayment(p) \/ RefundPayment(p)
      PROVE  ProviderMovesOn
  <2>1. \A q \in Payments : WasCaptured(q) => WasCaptured(q)'
    BY <1>0, <1>4 DEF FailPayment, AuthorizePayment, RefundPayment, WasCaptured,
                      ProviderOK
  <2>2. UNCHANGED <<paid, link>>
    BY <1>4 DEF FailPayment, AuthorizePayment, RefundPayment
  <2> QED
    BY <1>0, <2>1, <2>2 DEF ProviderMovesOn, ProviderOK
<1>5. ASSUME NEW l \in Links, CancelLink(l) \/ ExpireLink(l)
      PROVE  ProviderMovesOn
  <2>1. \A j \in Links : link[j] \in {"paid", "cancelled", "expired"} =>
                           link'[j] = link[j]
    BY <1>0, <1>5 DEF CancelLink, ExpireLink, OpenLink, ProviderOK
  <2>2. UNCHANGED <<pay, paid>>
    BY <1>5 DEF CancelLink, ExpireLink
  <2> QED
    BY <1>0, <2>1, <2>2 DEF ProviderMovesOn, WasCaptured, ProviderOK
<1>6. CASE Surroundings \/ Endpoints \/ UNCHANGED vars
  BY <1>2, <1>6, SurroundingsLeave, EndpointsLeave DEF Undisturbed, vars
<1>7. ASSUME NEW w \in Workers, HandleWebhook(w) PROVE ProviderMovesOn
  BY <1>2, <1>7 DEF HandleWebhook, BeginHandling, ReadLinkPayment, NoMerchant,
     PaymentCaptured, NothingToDo, OrderAlreadyPaid, PaymentAtRisk, LinkPaid,
     RaiseUnproven, Raise, LinkCancelled, LinkExpired, LinkAtRisk,
     CommitCorrelated, Finish
<1> QED
  BY <1>3, <1>4, <1>5, <1>6, <1>7 DEF Next, Provider

LEMMA EvidenceStays ==
  ASSUME Inv, ProviderMovesOn, NEW k \in CaseKeys, NEW reason, Evidence(k, reason)
  PROVE  Evidence(k, reason)'
<1>1. ASSUME NEW o \in Orders \cup {NoOrder}, OrderWasPaid(o)
      PROVE  OrderWasPaid(o)'
  <2>1. o \in Orders /\ Due(o) = 0
    BY <1>1 DEF OrderWasPaid
  <2>2. /\ OrderAmount[o] \in Nat /\ paid[o] \in Nat /\ paid'[o] \in Nat
        /\ paid[o] <= paid'[o] /\ paid'[o] <= OrderAmount[o]
    BY <2>1, ResourcesAssumption DEF Inv, TypeOK, ProviderOK, ProviderMovesOn
  <2> QED
    BY <1>1, <2>1, <2>2 DEF OrderWasPaid, Due
<1>2. \A p \in Payments : WasCaptured(p) => WasCaptured(p)'
  BY DEF ProviderMovesOn
<1>3. CASE k[1] = "PAYMENT"
  <2>1. k[2] \in Payments /\ OrderOf[k[2]] \in Orders \cup {NoOrder}
    BY <1>3, ResourcesAssumption DEF CaseKeys
  <2> QED
    BY <1>1, <1>2, <1>3, <2>1 DEF Evidence
<1>4. CASE k[1] = "ORDER"
  <2>1. k[2] \in Orders
    BY <1>4 DEF CaseKeys
  <2> QED
    BY <1>1, <1>2, <1>4, <2>1 DEF Evidence
<1>5. CASE k[1] = "PAYMENT_LINK"
  <2>1. k[2] \in Links /\ LinkOrder[k[2]] \in Orders
    BY <1>5, ResourcesAssumption DEF CaseKeys
  <2>2. link[k[2]] = "paid" /\ OrderWasPaid(LinkOrder[k[2]])
    BY <1>5 DEF Evidence
  <2>3. link'[k[2]] = "paid"
    BY <2>1, <2>2 DEF ProviderMovesOn
  <2> QED
    BY <1>1, <1>5, <2>1, <2>2, <2>3 DEF Evidence
<1> QED
  BY <1>3, <1>4, <1>5 DEF CaseKeys

-------------------------------------------------------------------------------
(* The evidence stays true.                                                *)

(* What a step makes of a worker's reads.                                  *)
BegunWith(w, ev, new) ==
  /\ ~reading[w].busy /\ ev \in pending /\ ev \in Event
  /\ pending' = pending \ {ev}
  /\ new.busy /\ new.event = ev
  /\ ev.link = NoLink => ev.payment \in Payments /\ new.payment = pay[ev.payment]
                         /\ new.link = "unread"
  /\ ev.link # NoLink => ev.link \in Links /\ new.payment = "unread"
                         /\ new.link = link[ev.link]

PaymentReadBy(w, new) ==
  /\ HasReadAll(w) = FALSE /\ reading[w].busy /\ new.busy
  /\ UNCHANGED pending
  /\ new.event = reading[w].event /\ new.link = reading[w].link
  /\ new.event.payment \in Payments /\ new.payment = pay[new.event.payment]

(* Reads go with the state of the provider and the database unchanged.     *)
ReadsMove(w) ==
  \/ reading'[w] = reading[w]
  \/ reading'[w] = NotReading /\ UNCHANGED provider
  \/ /\ UNCHANGED <<provider, local, cases>>
     /\ \/ \E ev \in pending : BegunWith(w, ev, reading'[w])
        \/ PaymentReadBy(w, reading'[w])

LEMMA BeginBegins ==
  ASSUME Inv, NEW w \in Workers, NEW ev \in pending, BeginHandling(w, ev)
  PROVE  BegunWith(w, ev, reading'[w])
<1>1. ev \in Event
  BY DEF Inv, TypeOK, ProviderOK
<1>2. /\ ev.link = NoLink => ev.payment \in Payments
      /\ ev.link # NoLink => ev.link \in Links
  BY <1>1 DEF Event
<1>3. reading'[w] =
        IF ev.link = NoLink
          THEN [busy |-> TRUE, event |-> ev, payment |-> pay[ev.payment],
                link |-> "unread", linkDue |-> 0]
          ELSE [busy |-> TRUE, event |-> ev, payment |-> "unread",
                link |-> link[ev.link], linkDue |-> Remaining(ev.link)]
  BY DEF BeginHandling, Inv, TypeOK
<1> QED
  BY <1>1, <1>2, <1>3 DEF BegunWith, BeginHandling

LEMMA ReadingsMove ==
  ASSUME Inv, [Next]_vars PROVE \A v \in Workers : ReadsMove(v)
<1> SUFFICES ASSUME NEW v \in Workers PROVE ReadsMove(v)
  OBVIOUS
<1>1. CASE UNCHANGED reading
  BY <1>1 DEF ReadsMove
<1>2. ASSUME NEW w \in Workers, NEW ev \in pending, BeginHandling(w, ev)
      PROVE  ReadsMove(v)
  <2>1. CASE v # w
    BY <1>2, <2>1 DEF BeginHandling, Inv, TypeOK, ReadsMove
  <2>2. CASE v = w
    BY <1>2, <2>2, BeginBegins DEF ReadsMove, BeginHandling
  <2> QED
    BY <2>1, <2>2
<1>3. ASSUME NEW w \in Workers, ReadLinkPayment(w) PROVE ReadsMove(v)
  <2>1. CASE v # w
    BY <1>3, <2>1 DEF ReadLinkPayment, Inv, TypeOK, ReadsMove
  <2>2. CASE v = w
    <3>1. reading[w] \in Reading /\ reading[w].busy
      BY <1>3 DEF Inv, TypeOK, ReadLinkPayment, NotReading
    <3>2. reading[w].event.payment \in Payments
      BY <1>3, <3>1 DEF ReadLinkPayment, PaymentUnread, Reading, Event
    <3>3. reading'[w] = [reading[w] EXCEPT !.payment = pay[reading[w].event.payment]]
      BY <1>3 DEF ReadLinkPayment, Inv, TypeOK
    <3>4. /\ reading'[w].busy
          /\ reading'[w].event = reading[w].event
          /\ reading'[w].link = reading[w].link
          /\ reading'[w].payment = pay[reading[w].event.payment]
      BY <3>1, <3>3 DEF Reading
    <3>5. PaymentReadBy(w, reading'[w])
      BY <1>3, <3>1, <3>2, <3>4 DEF PaymentReadBy, ReadLinkPayment, HasReadAll
    <3> QED
      BY <1>3, <2>2, <3>5 DEF ReadsMove, ReadLinkPayment
  <2> QED
    BY <2>1, <2>2
<1>4. ASSUME NEW w \in Workers, Finish(w) PROVE ReadsMove(v)
  BY <1>4 DEF Finish, Inv, TypeOK, ReadsMove
<1>5. CASE Provider
  BY <1>1, <1>5 DEF Provider, FailPayment, AuthorizePayment, CapturePayment,
                    RefundPayment, CancelLink, ExpireLink, Unhandled
<1>6. CASE Surroundings \/ Endpoints \/ UNCHANGED vars
  BY <1>1, <1>6, SurroundingsLeave, EndpointsLeave DEF Undisturbed, vars
<1>7. ASSUME NEW w \in Workers, HandleWebhook(w) PROVE ReadsMove(v)
  BY <1>2, <1>3, <1>4, <1>7 DEF HandleWebhook, NoMerchant,
     PaymentCaptured, NothingToDo, OrderAlreadyPaid, PaymentAtRisk, LinkPaid,
     RaiseUnproven, Raise, LinkCancelled, LinkExpired, LinkAtRisk,
     CommitCorrelated
<1> QED
  BY <1>5, <1>6, <1>7 DEF Next

LEMMA ReadingsStayTrue ==
  ASSUME Inv, ReadingsHold, [Next]_vars PROVE ReadingsHold'
<1> SUFFICES ASSUME NEW w \in Workers, reading'[w].busy
             PROVE  ReadsHold(reading[w])'
  BY DEF ReadingsHold
<1>1. ProviderMovesOn /\ ReadsMove(w)
  BY ProviderGoesOn, ReadingsMove
<1>2. CASE reading'[w] = reading[w]
  <2>1. ReadsHold(reading[w]) /\ reading[w] \in Reading
    BY <1>2 DEF ReadingsHold, Inv, TypeOK, NotReading
  <2>2. reading[w].event \in Event
    BY <2>1 DEF Reading
  <2>3. /\ reading[w].event.payment # NoPayment =>
             reading[w].event.payment \in Payments
        /\ reading[w].event.link # NoLink => reading[w].event.link \in Links
    BY <2>2 DEF Event
  <2> QED
    BY <1>1, <1>2, <2>1, <2>3 DEF ReadsHold, ProviderMovesOn
<1>3. ASSUME NEW ev \in pending, BegunWith(w, ev, reading'[w]), UNCHANGED provider
      PROVE  ReadsHold(reading[w])'
  <2>1. ReadsHold(reading'[w])
    BY <1>3, ResourcesAssumption DEF BegunWith, ReadsHold, WasCaptured
  <2> QED
    BY <1>3, <2>1 DEF ReadsHold, WasCaptured, provider
<1>4. CASE PaymentReadBy(w, reading'[w]) /\ UNCHANGED provider
  <2>1. ReadsHold(reading'[w])
    BY <1>4, ResourcesAssumption DEF PaymentReadBy, ReadsHold, ReadingsHold,
                                     WasCaptured
  <2> QED
    BY <1>4, <2>1 DEF ReadsHold, WasCaptured, provider
<1> QED
  BY <1>1, <1>2, <1>3, <1>4 DEF ReadsMove, NotReading

(* What a step stores of the provider's resources: nothing, or what a      *)
(* worker read, as it ends.                                                *)
StoredBy(w) ==
  \E linkCase \in CaseKeys \cup {NoKey} :
    /\ HasReadAll(w) /\ Finish(w) /\ UNCHANGED pending
    /\ StoreResources(reading[w], linkCase)
    /\ reading[w].event.link # NoLink =>
         linkCase \in {localLink[reading[w].event.link].case,
                       <<"PAYMENT_LINK", reading[w].event.link>>}

LEMMA LocalMoves ==
  ASSUME Inv, [Next]_vars
  PROVE  UNCHANGED local \/ \E w \in Workers : StoredBy(w)
<1>1. CASE Provider \/ Surroundings \/ Endpoints \/ UNCHANGED vars
  BY <1>1, SurroundingsLeave, EndpointsLeave DEF Provider, FailPayment,
     AuthorizePayment, CapturePayment, RefundPayment, CancelLink, ExpireLink,
     Unhandled, Undisturbed, vars
<1>2. ASSUME NEW w \in Workers, HasReadAll(w), NEW c, CommitCorrelated(w, c)
      PROVE  StoredBy(w)
  <2> DEFINE linkCase == IF reading[w].event.link = NoLink THEN NoKey
                         ELSE localLink[reading[w].event.link].case
  <2>1. reading[w].event \in Event
    BY <1>2, BusyReads DEF Inv
  <2>2. linkCase \in CaseKeys \cup {NoKey}
    BY <2>1 DEF Event, Inv, TypeOK, LocalOK
  <2>3. /\ StoreResources(reading[w], linkCase) /\ Finish(w) /\ UNCHANGED pending
    BY <1>2 DEF CommitCorrelated
  <2>4. reading[w].event.link # NoLink =>
          linkCase = localLink[reading[w].event.link].case
    OBVIOUS
  <2> HIDE DEF linkCase
  <2> QED
    BY <1>2, <2>2, <2>3, <2>4 DEF StoredBy
<1>3. ASSUME NEW w \in Workers, PaymentAtRisk(w) PROVE StoredBy(w)
  BY <1>3 DEF PaymentAtRisk, CanHandle, IsPaymentEvent, StoredBy
<1>4. ASSUME NEW w \in Workers, LinkAtRisk(w) PROVE StoredBy(w)
  <2>1. HasReadAll(w) /\ ~IsPaymentEvent(w)
    BY <1>4 DEF LinkAtRisk, CanHandle
  <2>2. <<"PAYMENT_LINK", reading[w].event.link>> \in CaseKeys
    BY <2>1, BusyReads DEF Inv, IsPaymentEvent, Event, CaseKeys
  <2>3. /\ StoreResources(reading[w], <<"PAYMENT_LINK", reading[w].event.link>>)
        /\ Finish(w) /\ UNCHANGED pending
    BY <1>4 DEF LinkAtRisk
  <2> QED
    BY <2>1, <2>2, <2>3 DEF StoredBy
<1>5. ASSUME NEW w \in Workers, HandleWebhook(w)
      PROVE  UNCHANGED local \/ StoredBy(w)
  BY <1>2, <1>3, <1>4, <1>5 DEF HandleWebhook, BeginHandling, ReadLinkPayment,
     NoMerchant, PaymentCaptured, NothingToDo, OrderAlreadyPaid, LinkPaid,
     RaiseUnproven, Raise, LinkCancelled, LinkExpired, CanHandle
<1> QED
  BY <1>1, <1>5 DEF Next

LEMMA LinksStayHome ==
  ASSUME Inv, LinksPointHome, [Next]_vars PROVE LinksPointHome'
<1>1. CASE UNCHANGED local
  BY <1>1 DEF local, LinksPointHome
<1>2. ASSUME NEW w \in Workers, StoredBy(w) PROVE LinksPointHome'
  <2>1. HasReadAll(w)
    BY <1>2 DEF StoredBy
  <2>2. reading[w].event \in Event
    BY <2>1, BusyReads DEF Inv
  <2>3. reading[w].event.link # NoLink => reading[w].event.link \in Links
    BY <2>2 DEF Event
  <2> QED
    BY <1>2, <2>3 DEF StoredBy, StoreResources, LinksPointHome, Inv, TypeOK,
                      LocalOK
<1> QED
  BY <1>1, <1>2, LocalMoves

LEMMA BlanksStay ==
  ASSUME Inv, AbsentIsBlank, [Next]_vars PROVE AbsentIsBlank'
<1> SUFFICES ASSUME NEW k \in CaseKeys, cases'[k].status = "NONE"
             PROVE  cases'[k] = NoCase
  BY DEF AbsentIsBlank, NoCase
<1>1. Moved(cases[k], cases'[k])
  BY NextKeeps DEF CasesKept, Kept
<1>2. cases'[k] = cases[k]
  BY <1>1 DEF Moved, ActiveStatuses, ClosingStatuses, AllowedTransitions,
              WorkflowEdges, BatchMoves
<1> QED
  BY <1>2 DEF AbsentIsBlank

LEMMA GroundsInit == Init => Grounds
BY ResourcesAssumption
   DEF Init, Grounds, ReadingsHold, NotReading, LinksPointHome, AbsentIsBlank

LEMMA GroundsStand == ASSUME Inv, Grounds, [Next]_vars PROVE Grounds'
BY ReadingsStayTrue, LinksStayHome, BlanksStay DEF Grounds

LEMMA GroundsHold == Spec => [](Inv /\ Grounds)
<1>1. Grounds /\ Inv /\ [Next]_vars => Grounds'
  BY GroundsStand
<1> QED
  BY <1>1, GroundsInit, InvHolds, PTL DEF Spec

-------------------------------------------------------------------------------
(* What is reported as recovered.                                          *)

Stands(k, c) ==
  c.log # <<>> /\ LastEntry(c).to = "RECOVERED" => Evidence(k, LastEntry(c).reason)

LEMMA LastOfAppend ==
  ASSUME NEW log \in Seq(AuditEntry), NEW entry \in AuditEntry,
         NEW longer, longer = Append(log, entry)
  PROVE  longer # <<>> /\ longer[Len(longer)] = entry
BY AppendProperties

LEMMA CloseStands ==
  ASSUME NEW k, NEW c \in Case, Stands(k, c), NEW target \in ClosingStatuses,
         NEW reason \in ClosingReasons, target = "RECOVERED" => Evidence(k, reason)
  PROVE  Stands(k, Close(c, target, reason))
<1> DEFINE entry == [from |-> c.status, to |-> target, reason |-> reason]
           closed == Close(c, target, reason)
<1>1. CASE ~IsActive(c)
  BY <1>1 DEF Close
<1>2. CASE IsActive(c)
  <2>1. c.log \in Seq(AuditEntry) /\ c.status \in CaseStatuses
    BY <1>2 DEF Case, IsActive, CaseStatuses
  <2>2. closed.log = Append(c.log, entry)
    BY <1>2 DEF Close, Case
  <2>3. entry \in AuditEntry
    BY <2>1 DEF AuditEntry, ClosingStatuses, CaseStatuses, TerminalStatuses
  <2>4. entry.to = target /\ entry.reason = reason
    OBVIOUS
  <2> HIDE DEF entry, closed
  <2>5. LastEntry(closed) = entry
    BY <2>1, <2>2, <2>3, LastOfAppend DEF LastEntry
  <2> QED
    BY <2>4, <2>5 DEF Stands, closed
<1> QED
  BY <1>1, <1>2

(* The engine's other operations report no money.                          *)
LEMMA OthersStand ==
  ASSUME NEW k, NEW c \in Case, Stands(k, c)
  PROVE  /\ Stands(k, ExpireIfDue(c)) /\ Stands(k, ApplyStops(c))
         /\ \A amount : Stands(k, SetAmount(c, amount))
<1>1. Stands(k, ExpireIfDue(c)) /\ Stands(k, ApplyStops(c))
  BY CloseStands DEF ExpireIfDue, ApplyStops, ClosingStatuses, ClosingReasons
<1>2. ASSUME NEW amount PROVE Stands(k, SetAmount(c, amount))
  <2>1. SetAmount(c, amount).log = c.log
    BY DEF SetAmount, Case
  <2> QED
    BY <2>1 DEF Stands, LastEntry
<1> QED
  BY <1>1, <1>2

LEMMA NewStands ==
  ASSUME NEW k, NEW amount, NEW start, NEW customer, NEW trigger
  PROVE  Stands(k, NewCase(amount, start, customer, trigger))
BY DEF Stands, NewCase, LastEntry

(* Nothing is reported as recovered but what was already, or what there is *)
(* evidence for.                                                           *)
LEMMA WrittenStands ==
  ASSUME Inv, NEW k \in CaseKeys, Stands(k, cases[k]), NEW new, Written(k, new)
  PROVE  Stands(k, new)
<1> DEFINE old == cases[k]
<1>0. Kept(old, old) /\ old \in Case
  BY KeptAsItIs DEF Kept
<1>1. CASE new = old \/ new = ExpireIfDue(old)
  BY <1>0, <1>1, OthersStand
<1>2. CASE ClosedWith(k, new)
  <2>1. PICK target \in ClosingStatuses, reason \in ClosingReasons :
          /\ target = "RECOVERED" => Evidence(k, reason)
          /\ new = ExpireIfDue(Close(old, target, reason))
    BY <1>2 DEF ClosedWith
  <2>2. /\ Close(old, target, reason) \in Case
        /\ Stands(k, Close(old, target, reason))
    BY <1>0, <2>1, CloseType, CloseStands
  <2> QED
    BY <2>1, <2>2, OthersStand
<1>3. CASE PutAtRisk(k, new)
  <2>1. PICK amount \in Nat \ {0}, start \in Nat, customer \in BOOLEAN,
             trigger \in Triggers :
          new = ExpireIfDue(ApplyStops(SetAmount(
                  GetOrCreate(k, NewCase(amount, start, customer, trigger)), amount)))
    BY <1>3 DEF PutAtRisk
  <2> DEFINE found == GetOrCreate(k, NewCase(amount, start, customer, trigger))
  <2>2. Kept(old, found) /\ Stands(k, found)
    BY NewCaseKeeps, GetOrCreateKeeps, NewStands DEF GetOrCreate
  <2>3. new = ExpireIfDue(ApplyStops(SetAmount(found, amount)))
    BY <2>1
  <2> HIDE DEF found
  <2>4. Kept(old, SetAmount(found, amount)) /\ Stands(k, SetAmount(found, amount))
    BY <2>2, SetAmountKeeps, OthersStand DEF Kept
  <2>5. /\ Kept(old, ApplyStops(SetAmount(found, amount)))
        /\ Stands(k, ApplyStops(SetAmount(found, amount)))
    BY <2>4, ApplyStopsKeeps, OthersStand DEF Kept
  <2> QED
    BY <2>3, <2>5, OthersStand DEF Kept
<1>4. CASE Scanned(k, new)
  <2>1. PICK amount \in Nat \ {0}, customer \in BOOLEAN, trigger \in Triggers :
          new = ApplyStops(IF Exists(k) THEN ExpireIfDue(old)
                           ELSE NewCase(amount, clock, customer, trigger))
    BY <1>4 DEF Scanned
  <2> DEFINE found == IF Exists(k) THEN ExpireIfDue(old)
                      ELSE NewCase(amount, clock, customer, trigger)
  <2>2. clock \in Nat
    BY TimesAssumption DEF Inv, TypeOK
  <2>3. Kept(old, found) /\ Stands(k, found)
    BY <1>0, <2>2, NewCaseKeeps, ExpireIfDueKeeps, NewStands, OthersStand DEF Exists
  <2>4. new = ApplyStops(found)
    BY <2>1
  <2> HIDE DEF found
  <2> QED
    BY <2>3, <2>4, OthersStand DEF Kept
<1>5. CASE ByRequest(k, new)
  BY <1>5 DEF ByRequest, Stands, LastEntry
<1> QED
  BY <1>1, <1>2, <1>3, <1>4, <1>5 DEF Written, ByEngine

(* docs/recovery-cases.md:42: engine.py closes a case as recovered only    *)
(* where the provider has what the closing says -- the captured payment,   *)
(* the order paid in full, the paid link --, whatever order the webhooks   *)
(* came in, however many processes handle them and whatever the provider   *)
(* did between two of their reads.                                         *)
THEOREM RecoveredHasEvidenceHolds == Spec => []RecoveredHasEvidence
<1>1. RecoveredHasEvidence <=> \A k \in CaseKeys : Stands(k, cases[k])
  BY DEF RecoveredHasEvidence, Stands
<1>2. Init => RecoveredHasEvidence
  BY <1>1 DEF Init, Stands, NoCase
<1>3. ASSUME Inv, Grounds, RecoveredHasEvidence, [Next]_vars
      PROVE  RecoveredHasEvidence'
  <2>1. ProviderMovesOn /\ CasesWritten
    BY <1>3, ProviderGoesOn, NextWrites
  <2>2. ASSUME NEW k \in CaseKeys, NEW why, cases'[k].log # <<>>,
               LastEntry(cases'[k]).to = "RECOVERED",
               why = LastEntry(cases'[k]).reason
        PROVE  Evidence(k, why)'
    <3>1. Stands(k, cases'[k])
      BY <1>1, <1>3, <2>1, WrittenStands DEF CasesWritten
    <3>2. Evidence(k, why)
      BY <2>2, <3>1 DEF Stands
    <3> QED
      BY <1>3, <2>1, <3>2, EvidenceStays
  <2> QED
    BY <2>2 DEF RecoveredHasEvidence, LastEntry, Evidence, OrderWasPaid, WasCaptured,
                Due
<1> QED
  BY <1>2, <1>3, GroundsHold, PTL DEF Spec

-------------------------------------------------------------------------------
(* Cases that come into being.                                             *)

IsLive(c) ==
  clock < c.end /\ c.amount > 0 /\ merchantActive /\ ~(c.customer /\ optedOut)

LEMMA ClosedIsOver ==
  ASSUME NEW c \in Case, NEW target \in ClosingStatuses, NEW reason
  PROVE  ~IsActive(Close(c, target, reason))
BY DEF Close, Case, IsActive, ClosingStatuses, ActiveStatuses

LEMMA ActiveIsInItsWindow ==
  ASSUME Inv, NEW c \in Case, IsActive(ExpireIfDue(c))
  PROVE  ExpireIfDue(c) = c /\ clock < c.end
<1>1. ~IsDue(c)
  BY ClosedIsOver DEF ExpireIfDue, ClosingStatuses
<1>2. clock \in Nat /\ c.end \in Nat
  BY TimesAssumption DEF Inv, TypeOK, Case
<1> QED
  BY <1>1, <1>2 DEF ExpireIfDue, IsDue

LEMMA ActiveIsNotStopped ==
  ASSUME Inv, NEW c \in Case, IsActive(ApplyStops(c))
  PROVE  ApplyStops(c) = c /\ merchantActive /\ ~(c.customer /\ optedOut)
<1>1. ~IsActive(Close(c, "STOPPED", "MERCHANT_INACTIVE"))
      /\ ~IsActive(Close(c, "STOPPED", "CUSTOMER_OPTED_OUT"))
  BY ClosedIsOver DEF ClosingStatuses
<1> QED
  BY <1>1 DEF ApplyStops

LEMMA OpenedIsLive ==
  ASSUME Inv, Grounds, NEW k \in CaseKeys, cases[k].status = "NONE", NEW new,
         Written(k, new), IsActive(new), OpenedByEngine(new)
  PROVE  IsLive(new)
<1>0. ~Exists(k) /\ ~IsActive(cases[k])
  BY DEF Exists, IsActive, ActiveStatuses
<1>1. new # cases[k] /\ new # ExpireIfDue(cases[k])
  BY <1>0 DEF ExpireIfDue, Close
<1>2. ~ClosedWith(k, new) /\ ~ByRequest(k, new)
  BY <1>0 DEF ClosedWith, ByRequest, OpenedByEngine, Grounds, AbsentIsBlank, NoCase
<1>3. CASE PutAtRisk(k, new)
  <2>1. PICK amount \in Nat \ {0}, start \in Nat, customer \in BOOLEAN,
             trigger \in Triggers :
          new = ExpireIfDue(ApplyStops(SetAmount(
                  GetOrCreate(k, NewCase(amount, start, customer, trigger)), amount)))
    BY <1>3 DEF PutAtRisk
  <2> DEFINE c == SetAmount(
               GetOrCreate(k, NewCase(amount, start, customer, trigger)), amount)
  <2>2. Kept(cases[k], c)
    BY NewCaseKeeps, GetOrCreateKeeps, SetAmountKeeps
  <2> HIDE DEF c
  <2>3. Kept(cases[k], ApplyStops(c))
    BY <2>2, ApplyStopsKeeps
  <2>4. new = ExpireIfDue(ApplyStops(c))
    BY <2>1 DEF c
  <2>5. new = ApplyStops(c) /\ clock < new.end
    BY <2>3, <2>4, ActiveIsInItsWindow DEF Kept
  <2>6. new = c /\ merchantActive /\ ~(c.customer /\ optedOut)
    BY <2>2, <2>5, ActiveIsNotStopped DEF Kept
  <2>7. new.amount > 0
    BY <2>2, <2>6 DEF Kept, IsWorth, IsActive, ActiveStatuses
  <2> QED
    BY <2>5, <2>6, <2>7 DEF IsLive
<1>4. CASE Scanned(k, new)
  <2>1. PICK amount \in Nat \ {0}, customer \in BOOLEAN, trigger \in Triggers :
          new = ApplyStops(NewCase(amount, clock, customer, trigger))
    BY <1>0, <1>4 DEF Scanned
  <2>2. clock \in Nat
    BY TimesAssumption DEF Inv, TypeOK
  <2> DEFINE c == NewCase(amount, clock, customer, trigger)
  <2>3. c \in Case
    BY <2>2, NewCaseType
  <2>4. c.amount = amount /\ c.end = clock + Window
    BY DEF NewCase
  <2> HIDE DEF c
  <2>5. new = c /\ merchantActive /\ ~(c.customer /\ optedOut)
    BY <2>1, <2>3, ActiveIsNotStopped DEF c
  <2>6. clock < new.end /\ new.amount > 0
    BY <2>2, <2>4, <2>5, TimesAssumption
  <2> QED
    BY <2>5, <2>6 DEF IsLive
<1> QED
  BY <1>1, <1>2, <1>3, <1>4 DEF Written, ByEngine

(* engine.py:449-516: whichever transaction of the engine opens a case, a  *)
(* late webhook or a scan, the case is active only inside its window, for  *)
(* money that is at risk, and where neither the merchant nor the customer  *)
(* has ended recovery.                                                     *)
THEOREM NewCasesAreLiveHolds == Spec => NewCasesAreLive
<1>1. ASSUME Inv, Grounds, [Next]_vars, NEW k \in CaseKeys,
             cases[k].status = "NONE", cases'[k].status \in ActiveStatuses,
             OpenedByEngine(cases'[k])
      PROVE  IsLive(cases'[k])
  <2>1. Written(k, cases'[k])
    BY <1>1, NextWrites DEF CasesWritten
  <2> QED
    BY <1>1, <2>1, OpenedIsLive DEF IsActive
<1>2. Inv /\ Grounds /\ [Next]_vars =>
        [\A k \in CaseKeys :
           /\ cases[k].status = "NONE"
           /\ cases'[k].status \in ActiveStatuses /\ OpenedByEngine(cases'[k])
           => /\ clock < cases'[k].end
              /\ cases'[k].amount > 0
              /\ merchantActive
              /\ ~(cases'[k].customer /\ optedOut)]_vars
  BY <1>1 DEF IsLive
<1> QED
  BY <1>2, GroundsHold, PTL DEF NewCasesAreLive, Spec

-------------------------------------------------------------------------------
(* What a transaction of the engine does to a case, its audit tells.       *)

LEMMA ToldAsItIs == ASSUME NEW c \in Case PROVE Told(c, c)
<1>1. Len(c.log) \in Nat
  BY DEF Case
<1> QED
  BY <1>1 DEF Told

LEMMA CloseTells ==
  ASSUME NEW c \in Case, NEW d \in Case, Told(c, d),
         NEW target \in ClosingStatuses, NEW reason \in ClosingReasons
  PROVE  Told(c, Close(d, target, reason))
<1> DEFINE entry == [from |-> d.status, to |-> target, reason |-> reason]
           closed == Close(d, target, reason)
<1>1. CASE ~IsActive(d)
  BY <1>1 DEF Close
<1>2. CASE IsActive(d)
  <2>1. /\ c.log \in Seq(AuditEntry) /\ d.log \in Seq(AuditEntry)
        /\ d.status \in CaseStatuses
    BY <1>2 DEF Case, IsActive, CaseStatuses
  <2>2. closed.log = Append(d.log, entry) /\ closed.status = target
    BY <1>2 DEF Close, Case
  <2>3. entry \in AuditEntry
    BY <2>1 DEF AuditEntry, ClosingStatuses, CaseStatuses, TerminalStatuses
  <2>4. entry.from = d.status /\ entry.to = target
    OBVIOUS
  <2> HIDE DEF entry, closed
  <2>5. /\ Len(c.log) \in Nat /\ Len(d.log) \in Nat
        /\ Len(closed.log) = Len(d.log) + 1
        /\ \A i \in 1 .. Len(d.log) : closed.log[i] = d.log[i]
        /\ closed.log[Len(d.log) + 1] = entry
    BY <2>1, <2>2, <2>3, AppendProperties
  <2>6. DOMAIN c.log = 1 .. Len(c.log)
    BY <2>1
  <2>7. Told(c, closed)
    BY <2>2, <2>4, <2>5, <2>6 DEF Told
  <2> QED
    BY <2>7 DEF closed
<1> QED
  BY <1>1, <1>2

LEMMA OthersTell ==
  ASSUME NEW c \in Case, NEW d \in Case, Told(c, d)
  PROVE  /\ Told(c, ExpireIfDue(d)) /\ Told(c, ApplyStops(d))
         /\ \A amount : Told(c, SetAmount(d, amount))
<1>1. Told(c, ExpireIfDue(d)) /\ Told(c, ApplyStops(d))
  BY CloseTells DEF ExpireIfDue, ApplyStops, ClosingStatuses, ClosingReasons
<1>2. ASSUME NEW amount PROVE Told(c, SetAmount(d, amount))
  <2>1. /\ SetAmount(d, amount).status = d.status
        /\ SetAmount(d, amount).log = d.log
    BY DEF SetAmount, Case
  <2> QED
    BY <2>1 DEF Told
<1> QED
  BY <1>1, <1>2

LEMMA NewTells ==
  ASSUME NEW amount, NEW start, NEW customer, NEW trigger
  PROVE  Told(NoCase, NewCase(amount, start, customer, trigger))
BY DEF Told, NewCase, NoCase

LEMMA WrittenTells ==
  ASSUME Inv, AbsentIsBlank, NEW k \in CaseKeys, NEW new, Written(k, new)
  PROVE  IF requests' = requests THEN Told(cases[k], new)
                                 ELSE new.log = cases[k].log
<1> DEFINE old == cases[k]
<1>0. Kept(old, old) /\ old \in Case /\ Told(old, old)
  BY KeptAsItIs, ToldAsItIs DEF Kept
<1>1. ~Exists(k) => old = NoCase
  BY DEF Exists, AbsentIsBlank
<1>2. CASE new = old \/ (new = ExpireIfDue(old) /\ requests' = requests)
  BY <1>0, <1>2, OthersTell
<1>3. CASE ClosedWith(k, new) /\ requests' = requests
  <2>1. PICK target \in ClosingStatuses, reason \in ClosingReasons :
          new = ExpireIfDue(Close(old, target, reason))
    BY <1>3 DEF ClosedWith
  <2>2. Close(old, target, reason) \in Case /\ Told(old, Close(old, target, reason))
    BY <1>0, CloseType, CloseTells
  <2> QED
    BY <1>0, <1>3, <2>1, <2>2, OthersTell
<1>4. CASE PutAtRisk(k, new) /\ requests' = requests
  <2>1. PICK amount \in Nat \ {0}, start \in Nat, customer \in BOOLEAN,
             trigger \in Triggers :
          new = ExpireIfDue(ApplyStops(SetAmount(
                  GetOrCreate(k, NewCase(amount, start, customer, trigger)), amount)))
    BY <1>4 DEF PutAtRisk
  <2> DEFINE found == GetOrCreate(k, NewCase(amount, start, customer, trigger))
  <2>2. Kept(old, found)
    BY NewCaseKeeps, GetOrCreateKeeps
  <2>3. Told(old, found)
    BY <1>0, <1>1, NewTells DEF GetOrCreate
  <2>4. new = ExpireIfDue(ApplyStops(SetAmount(found, amount)))
    BY <2>1
  <2> HIDE DEF found
  <2>5. Kept(old, SetAmount(found, amount)) /\ Told(old, SetAmount(found, amount))
    BY <1>0, <2>2, <2>3, SetAmountKeeps, OthersTell DEF Kept
  <2>6. /\ Kept(old, ApplyStops(SetAmount(found, amount)))
        /\ Told(old, ApplyStops(SetAmount(found, amount)))
    BY <1>0, <2>5, ApplyStopsKeeps, OthersTell DEF Kept
  <2> QED
    BY <1>0, <1>4, <2>4, <2>6, OthersTell DEF Kept
<1>5. CASE Scanned(k, new) /\ requests' = requests
  <2>1. PICK amount \in Nat \ {0}, customer \in BOOLEAN, trigger \in Triggers :
          new = ApplyStops(IF Exists(k) THEN ExpireIfDue(old)
                           ELSE NewCase(amount, clock, customer, trigger))
    BY <1>5 DEF Scanned
  <2> DEFINE found == IF Exists(k) THEN ExpireIfDue(old)
                      ELSE NewCase(amount, clock, customer, trigger)
  <2>2. clock \in Nat
    BY TimesAssumption DEF Inv, TypeOK
  <2>3. Kept(old, found)
    BY <1>0, <2>2, NewCaseKeeps, ExpireIfDueKeeps DEF Exists
  <2>4. Told(old, found)
    BY <1>0, <1>1, NewTells, OthersTell
  <2>5. new = ApplyStops(found)
    BY <2>1
  <2> HIDE DEF found
  <2> QED
    BY <1>0, <1>5, <2>3, <2>4, <2>5, OthersTell DEF Kept
<1>6. CASE ByRequest(k, new)
  BY <1>6 DEF ByRequest
<1> QED
  BY <1>2, <1>3, <1>4, <1>5, <1>6 DEF Written, ByEngine

LEMMA StepTells ==
  ASSUME Inv, Grounds, [Next]_vars, NEW k \in CaseKeys
  PROVE  IF requests' = requests THEN Told(cases[k], cases'[k])
                                 ELSE cases'[k].log = cases[k].log
<1>1. Written(k, cases'[k])
  BY NextWrites DEF CasesWritten
<1> QED
  BY <1>1, WrittenTells DEF Grounds

(* docs/recovery-cases.md:48-49, of the engine: what a webhook, a scan, an  *)
(* expiry does to a case, audit_events tells, from the status the case had *)
(* to the one it has; no row is ever changed or lost, and an ended case    *)
(* gets none.  POST and PATCH of a case and the baseline leave the audit.  *)
THEOREM AuditIsAppendedHolds == Spec => AuditIsAppended
<1>1. Inv /\ Grounds /\ [Next]_vars =>
        [\A k \in CaseKeys :
           IF requests' = requests THEN Told(cases[k], cases'[k])
                                   ELSE cases'[k].log = cases[k].log]_vars
  BY StepTells
<1> QED
  BY <1>1, GroundsHold, PTL DEF AuditIsAppended, Spec

===============================================================================

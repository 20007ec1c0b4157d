-------------------------- MODULE RecoveryOrderProofs --------------------------
(***************************************************************************)
(* What RecoveryEngine promises about webhooks that come late or in the    *)
(* wrong order: LocalNeverRegresses and PaidResourceEndsOwnCase, for any   *)
(* payments, orders and links, as long as one worker handles the webhooks, *)
(* as the application is shipped.  With two workers both fail: one stores  *)
(* what it read before the other read something newer.                     *)
(*                                                                         *)
(* The arguments: what is stored lies behind what a worker has read, and   *)
(* that behind the provider; and as long as a captured payment or a paid   *)
(* link has an active case, the webhook that tells of it is still to come. *)
(***************************************************************************)
EXTENDS RecoveryMoneyProofs

OneWorker == \A v, w \in Workers : v = w

FinalLink == {"paid", "cancelled", "expired"}

StoreIsBehind ==
  /\ \A p \in Payments : PaymentOrder(localPayment[p]) <= PaymentOrder(pay[p])
  /\ \A o \in Orders : localOrder[o].known => Due(o) <= localOrder[o].due
  /\ \A l \in Links :
       localLink[l].status \in FinalLink => link[l] = localLink[l].status

IsBetween(s) ==
  /\ s.event.payment # NoPayment /\ s.payment # "unread" =>
       /\ PaymentOrder(localPayment[s.event.payment]) <= PaymentOrder(s.payment)
       /\ PaymentOrder(s.payment) <= PaymentOrder(pay[s.event.payment])
  /\ s.event.link # NoLink =>
       /\ s.link \in FinalLink => link[s.event.link] = s.link
       /\ localLink[s.event.link].status \in FinalLink =>
            s.link = localLink[s.event.link].status

ReadingsBetween == \A w \in Workers : reading[w].busy => IsBetween(reading[w])

Behind == StoreIsBehind /\ ReadingsBetween

LEMMA PaymentOrderType == \A st : PaymentOrder(st) \in Nat
BY DEF PaymentOrder

(* No payment goes back at the provider.                                   *)
LEMMA PaymentsMoveOn ==
  ASSUME Inv, [Next]_vars, NEW q \in Payments
  PROVE  PaymentOrder(pay[q]) <= PaymentOrder(pay'[q])
<1>0. ProviderOK
  BY DEF Inv, TypeOK
<1>1. CASE UNCHANGED pay
  BY <1>1, PaymentOrderType
<1>2. ASSUME NEW p \in Payments,
             \/ FailPayment(p) \/ AuthorizePayment(p) \/ CapturePayment(p)
             \/ RefundPayment(p)
      PROVE  PaymentOrder(pay[q]) <= PaymentOrder(pay'[q])
  <2>1. /\ pay[p] = "created" => PaymentOrder(pay[p]) = 0
        /\ pay[p] = "failed" => PaymentOrder(pay[p]) = 1
        /\ pay[p] = "authorized" => PaymentOrder(pay[p]) = 2
        /\ pay[p] = "captured" => PaymentOrder(pay[p]) = 3
    BY DEF PaymentOrder
  <2>2. /\ pay'[p] = "failed" => PaymentOrder(pay'[p]) = 1
        /\ pay'[p] = "authorized" => PaymentOrder(pay'[p]) = 2
        /\ pay'[p] = "captured" => PaymentOrder(pay'[p]) = 3
        /\ pay'[p] = "refunded" => PaymentOrder(pay'[p]) = 4
    BY DEF PaymentOrder
  <2>3. q # p => pay'[q] = pay[q]
    BY <1>0, <1>2 DEF FailPayment, AuthorizePayment, CapturePayment,
                      RefundPayment, ProviderOK
  <2>4. \/ pay[p] = "created" /\ pay'[p] = "failed"
        \/ pay[p] \in {"created", "failed"} /\ pay'[p] = "authorized"
        \/ pay[p] = "authorized" /\ pay'[p] = "captured"
        \/ pay[p] = "captured" /\ pay'[p] = "refunded"
    BY <1>0, <1>2 DEF FailPayment, AuthorizePayment, CapturePayment,
                      RefundPayment, ProviderOK
  <2> QED
    BY <2>1, <2>2, <2>3, <2>4, PaymentOrderType
<1>3. ASSUME NEW l \in Links, CancelLink(l) \/ ExpireLink(l) PROVE UNCHANGED pay
  BY <1>3 DEF CancelLink, ExpireLink
<1>4. CASE Surroundings \/ Endpoints \/ UNCHANGED vars
  BY <1>1, <1>4, SurroundingsLeave, EndpointsLeave DEF Undisturbed, vars, provider
<1>5. ASSUME NEW w \in Workers, HandleWebhook(w) PROVE UNCHANGED pay
  BY <1>5 DEF HandleWebhook, BeginHandling, ReadLinkPayment, NoMerchant,
     PaymentCaptured, NothingToDo, OrderAlreadyPaid, PaymentAtRisk, LinkPaid,
     RaiseUnproven, Raise, LinkCancelled, LinkExpired, LinkAtRisk,
     CommitCorrelated, Finish, provider
<1> QED
  BY <1>1, <1>2, <1>3, <1>4, <1>5 DEF Next, Provider

(* What a worker stores, in terms of what it has read.                     *)
Stores(s) ==
  /\ \A p \in Payments :
       \/ localPayment'[p] = localPayment[p]
       \/ p = s.event.payment /\ s.payment # "unread" /\ localPayment'[p] = s.payment
  /\ s.event.payment # NoPayment => localPayment'[s.event.payment] = s.payment
  /\ \A o \in Orders :
       \/ localOrder'[o] = localOrder[o]
       \/ localOrder'[o].known /\ localOrder'[o].due = Due(o)
  /\ \A l \in Links :
       \/ localLink'[l] = localLink[l]
       \/ l = s.event.link /\ localLink'[l].status = s.link
  /\ s.event.link # NoLink => localLink'[s.event.link].status = s.link

LEMMA StoredByStores ==
  ASSUME Inv, NEW w \in Workers, StoredBy(w)
  PROVE  /\ reading[w] \in Reading /\ reading[w].event \in Event
         /\ reading[w].busy
         /\ reading[w].payment # "unread" \/ reading[w].event.payment = NoPayment
         /\ UNCHANGED <<provider, pending>>
         /\ reading' = [reading EXCEPT ![w] = NotReading]
         /\ Stores(reading[w])
<1> DEFINE s == reading[w]
<1>1. HasReadAll(w) /\ Finish(w) /\ UNCHANGED pending
  BY DEF StoredBy
<1>2. s \in Reading /\ s.event \in Event
  BY <1>1, BusyReads DEF Inv
<1>3. PICK linkCase : StoreResources(s, linkCase)
  BY DEF StoredBy
<1>4. /\ s.event.payment \in Payments \cup {NoPayment}
      /\ s.event.link \in Links \cup {NoLink}
      /\ s.payment # "unread" \/ s.event.payment = NoPayment
  BY <1>1, <1>2 DEF Event, HasReadAll, PaymentUnread
<1>5. LocalOK
  BY DEF Inv, TypeOK
<1>6. /\ \A p \in Payments :
           \/ localPayment'[p] = localPayment[p]
           \/ p = s.event.payment /\ s.payment # "unread"
              /\ localPayment'[p] = s.payment
      /\ s.event.payment # NoPayment => localPayment'[s.event.payment] = s.payment
  BY <1>3, <1>4, <1>5, ResourcesAssumption DEF StoreResources, StoredStatus, LocalOK
<1>7. \A o \in Orders : \/ localOrder'[o] = localOrder[o]
                        \/ localOrder'[o].known /\ localOrder'[o].due = Due(o)
  <2>1. CASE ReadOrder(s) = NoOrder
    BY <1>3, <2>1 DEF StoreResources
  <2>2. CASE ReadOrder(s) # NoOrder
    <3> DEFINE r == ReadOrder(s)
    <3>1. localOrder' =
            [localOrder EXCEPT ![r].known = TRUE, ![r].due = Due(r),
               ![r].since = IF localOrder[r].known THEN @ ELSE clock]
      BY <1>3, <2>2 DEF StoreResources
    <3>2. /\ \A o \in Orders : o # r => localOrder'[o] = localOrder[o]
          /\ r \in Orders => localOrder'[r].known /\ localOrder'[r].due = Due(r)
      BY <1>5, <3>1 DEF LocalOK
    <3> QED
      BY <3>2
  <2> QED
    BY <2>1, <2>2
<1>8. /\ \A l \in Links : \/ localLink'[l] = localLink[l]
                          \/ l = s.event.link /\ localLink'[l].status = s.link
      /\ s.event.link # NoLink => localLink'[s.event.link].status = s.link
  BY <1>3, <1>4, <1>5 DEF StoreResources, LocalOK
<1>9. UNCHANGED <<provider, pending>> /\ reading' = [reading EXCEPT ![w] = NotReading]
  BY <1>1 DEF Finish
<1> HIDE DEF s
<1> QED
  BY <1>1, <1>2, <1>4, <1>6, <1>7, <1>8, <1>9 DEF Stores, HasReadAll, s

-------------------------------------------------------------------------------
(* What is stored stays behind what is read, and that behind the provider. *)

LEMMA BehindInit == Init => Behind
BY ResourcesAssumption
   DEF Init, Behind, StoreIsBehind, ReadingsBetween, NotReading, PaymentOrder, Due,
       FinalLink

(* The provider moves on, nothing is stored.                               *)
LEMMA StoreFallsBehind ==
  ASSUME Inv, StoreIsBehind, [Next]_vars, UNCHANGED local
  PROVE  StoreIsBehind'
<1>1. ProviderMovesOn /\ TypeOK
  BY ProviderGoesOn DEF Inv
<1>2. ASSUME NEW p \in Payments
      PROVE  PaymentOrder(localPayment'[p]) <= PaymentOrder(pay'[p])
  <2>1. PaymentOrder(localPayment[p]) <= PaymentOrder(pay[p])
    BY DEF StoreIsBehind
  <2> QED
    BY <2>1, PaymentsMoveOn, PaymentOrderType DEF local
<1>3. ASSUME NEW o \in Orders, localOrder'[o].known
      PROVE  Due(o)' <= localOrder'[o].due
  <2>1. Due(o) <= localOrder[o].due /\ localOrder'[o] = localOrder[o]
    BY <1>3 DEF StoreIsBehind, local
  <2>2. /\ OrderAmount[o] \in Nat /\ paid[o] \in Nat /\ paid'[o] \in Nat
        /\ localOrder[o].due \in Nat /\ paid[o] <= paid'[o]
    BY <1>1, ResourcesAssumption DEF TypeOK, ProviderOK, LocalOK, ProviderMovesOn
  <2> QED
    BY <2>1, <2>2 DEF Due
<1>4. \A l \in Links :
        localLink'[l].status \in FinalLink => link'[l] = localLink'[l].status
  BY <1>1 DEF StoreIsBehind, ProviderMovesOn, FinalLink, local
<1> QED
  BY <1>2, <1>3, <1>4 DEF StoreIsBehind

LEMMA ReadsFallBehind ==
  ASSUME Inv, Behind, [Next]_vars, UNCHANGED local, NEW w \in Workers,
         reading'[w].busy
  PROVE  IsBetween(reading[w])'
<1>1. ProviderMovesOn /\ ReadsMove(w)
  BY ProviderGoesOn, ReadingsMove
<1>2. CASE reading'[w] = reading[w]
  <2> DEFINE s == reading[w]
  <2>1. IsBetween(s) /\ s \in Reading
    BY <1>2 DEF Behind, ReadingsBetween, Inv, TypeOK, NotReading
  <2>2. s.event.payment \in Payments \cup {NoPayment}
        /\ s.event.link \in Links \cup {NoLink}
    BY <2>1 DEF Reading, Event
  <2>3. s.event.payment # NoPayment =>
          PaymentOrder(pay[s.event.payment]) <= PaymentOrder(pay'[s.event.payment])
    BY <2>2, PaymentsMoveOn
  <2>4. s.event.link # NoLink /\ link[s.event.link] \in FinalLink =>
          link'[s.event.link] = link[s.event.link]
    BY <1>1, <2>2 DEF ProviderMovesOn, FinalLink
  <2> QED
    BY <1>2, <2>1, <2>3, <2>4, PaymentOrderType DEF IsBetween, local
<1>3. ASSUME NEW ev \in pending, BegunWith(w, ev, reading'[w]), UNCHANGED provider
      PROVE  IsBetween(reading[w])'
  <2>1. ev.payment \in Payments \cup {NoPayment} /\ ev.link \in Links \cup {NoLink}
    BY <1>3 DEF BegunWith, Event
  <2>2. IsBetween(reading'[w])
    BY <1>3, <2>1, PaymentOrderType DEF BegunWith, IsBetween, Behind, StoreIsBehind
  <2> QED
    BY <1>3, <2>2 DEF IsBetween, provider, local
<1>4. CASE PaymentReadBy(w, reading'[w]) /\ UNCHANGED provider
  <2>1. IsBetween(reading[w])
    BY <1>4 DEF PaymentReadBy, Behind, ReadingsBetween
  <2>2. IsBetween(reading'[w])
    BY <1>4, <2>1, PaymentOrderType DEF PaymentReadBy, IsBetween, Behind,
                                        StoreIsBehind
  <2> QED
    BY <1>4, <2>2 DEF IsBetween, provider, local
<1> QED
  BY <1>1, <1>2, <1>3, <1>4 DEF ReadsMove, NotReading

(* The only worker stores what it has read, and reads no more.             *)
LEMMA StoringStaysBehind ==
  ASSUME Inv, Behind, OneWorker, NEW w \in Workers, StoredBy(w)
  PROVE  Behind'
<1> DEFINE s == reading[w]
<1>1. /\ s \in Reading /\ s.event \in Event /\ s.busy
      /\ UNCHANGED provider /\ reading' = [reading EXCEPT ![w] = NotReading]
      /\ Stores(s)
  BY StoredByStores
<1>2. IsBetween(s)
  BY <1>1 DEF Behind, ReadingsBetween
<1>3. /\ s.event.payment \in Payments \cup {NoPayment}
      /\ s.event.link \in Links \cup {NoLink}
  BY <1>1 DEF Event
<1>4. ReadingsBetween'
  BY <1>1 DEF OneWorker, ReadingsBetween, NotReading, Inv, TypeOK
<1> HIDE DEF s
<1>5. \A p \in Payments : PaymentOrder(localPayment'[p]) <= PaymentOrder(pay[p])
  BY <1>1, <1>2, <1>3, ResourcesAssumption DEF Stores, IsBetween, Behind,
                                               StoreIsBehind
<1>6. ASSUME NEW o \in Orders, localOrder'[o].known
      PROVE  Due(o) <= localOrder'[o].due
  <2>1. Due(o) \in Nat
    BY DueType DEF Inv
  <2> QED
    BY <1>1, <1>6, <2>1 DEF Stores, Behind, StoreIsBehind
<1>7. \A l \in Links :
        localLink'[l].status \in FinalLink => link[l] = localLink'[l].status
  BY <1>1, <1>2, ResourcesAssumption DEF Stores, IsBetween, Behind, StoreIsBehind
<1>8. StoreIsBehind'
  BY <1>1, <1>5, <1>6, <1>7 DEF StoreIsBehind, provider, Due
<1> QED
  BY <1>4, <1>8 DEF Behind

LEMMA BehindStays ==
  ASSUME Inv, Behind, OneWorker, [Next]_vars PROVE Behind'
<1>1. CASE UNCHANGED local
  <2>1. StoreIsBehind'
    BY <1>1, StoreFallsBehind DEF Behind
  <2>2. ReadingsBetween'
    BY <1>1, ReadsFallBehind DEF ReadingsBetween
  <2> QED
    BY <2>1, <2>2 DEF Behind
<1> QED
  BY <1>1, LocalMoves, StoringStaysBehind

NothingGoesBack ==
  /\ \A p \in Payments :
       PaymentOrder(localPayment'[p]) >= PaymentOrder(localPayment[p])
  /\ \A o \in Orders :
       localOrder[o].known => localOrder'[o].known
                              /\ localOrder'[o].due <= localOrder[o].due
  /\ \A l \in Links :
       localLink[l].status \in {"paid", "cancelled", "expired"} =>
         localLink'[l].status = localLink[l].status

LEMMA StepGoesOn ==
  ASSUME Inv, Behind, [Next]_vars PROVE NothingGoesBack
<1>0. /\ \A o \in Orders : localOrder[o].due \in Nat
      /\ \A o \in Orders : Due(o) \in Nat
  BY DueType DEF Inv, TypeOK, LocalOK
<1>1. CASE UNCHANGED local
  BY <1>0, <1>1, PaymentOrderType DEF local, NothingGoesBack
<1>2. ASSUME NEW w \in Workers, StoredBy(w) PROVE NothingGoesBack
  <2> DEFINE s == reading[w]
  <2>1. s.busy /\ Stores(s)
    BY <1>2, StoredByStores
  <2>2. IsBetween(s)
    BY <2>1 DEF Behind, ReadingsBetween
  <2> HIDE DEF s
  <2>3. \A p \in Payments :
          PaymentOrder(localPayment'[p]) >= PaymentOrder(localPayment[p])
    BY <2>1, <2>2, ResourcesAssumption, PaymentOrderType DEF Stores, IsBetween
  <2>4. \A o \in Orders :
          localOrder[o].known => localOrder'[o].known
                                 /\ localOrder'[o].due <= localOrder[o].due
    BY <1>0, <2>1 DEF Stores, Behind, StoreIsBehind
  <2>5. \A l \in Links :
          localLink[l].status \in {"paid", "cancelled", "expired"} =>
            localLink'[l].status = localLink[l].status
    BY <2>1, <2>2, ResourcesAssumption DEF Stores, IsBetween, FinalLink
  <2> QED
    BY <2>3, <2>4, <2>5 DEF NothingGoesBack
<1> QED
  BY <1>1, <1>2, LocalMoves

(* docs/webhooks.md:56-57, docs/phase-status.md:127: whatever order the     *)
(* webhooks come in, one worker never puts a payment, an order or a link   *)
(* back to an older state than the one stored.                             *)
THEOREM LocalNeverRegressesHolds ==
  ASSUME OneWorker PROVE Spec => LocalNeverRegresses
<1>1. Inv /\ Behind /\ [Next]_vars => [NothingGoesBack]_vars
  BY StepGoesOn
<1>2. Inv /\ Behind /\ [Next]_vars => Behind'
  BY BehindStays
<1> QED
  BY <1>1, <1>2, BehindInit, InvHolds, PTL
     DEF Spec, LocalNeverRegresses, NothingGoesBack

-------------------------------------------------------------------------------
(* Several workers.  One may store what it read before another read, and   *)
(* stored, something newer, so what is stored may go back; but what anybody*)
(* reads lies behind the provider, so what is stored never runs ahead.     *)
ReadIsBehind(s) ==
  /\ s.event.payment # NoPayment /\ s.payment # "unread" =>
       PaymentOrder(s.payment) <= PaymentOrder(pay[s.event.payment])
  /\ s.event.link # NoLink /\ s.link \in FinalLink => link[s.event.link] = s.link

ReadingsBehind == \A w \in Workers : reading[w].busy => ReadIsBehind(reading[w])

LEMMA ReadsStayBehind ==
  ASSUME Inv, ReadingsBehind, [Next]_vars PROVE ReadingsBehind'
<1> SUFFICES ASSUME NEW w \in Workers, reading'[w].busy
             PROVE  ReadIsBehind(reading[w])'
  BY DEF ReadingsBehind
<1>1. ProviderMovesOn /\ ReadsMove(w)
  BY ProviderGoesOn, ReadingsMove
<1>2. ASSUME reading[w].busy, reading'[w].event = reading[w].event,
             reading'[w].link = reading[w].link,
             \/ reading'[w].payment = reading[w].payment
             \/ /\ reading'[w].payment = pay[reading[w].event.payment]
                /\ UNCHANGED pay
      PROVE  ReadIsBehind(reading[w])'
  <2> DEFINE s == reading[w]
  <2>1. ReadIsBehind(s) /\ s \in Reading
    BY <1>2 DEF ReadingsBehind, Inv, TypeOK, NotReading
  <2>2. s.event.payment \in Payments \cup {NoPayment}
        /\ s.event.link \in Links \cup {NoLink}
    BY <2>1 DEF Reading, Event
  <2>3. s.event.payment # NoPayment =>
          PaymentOrder(pay[s.event.payment]) <= PaymentOrder(pay'[s.event.payment])
    BY <2>2, PaymentsMoveOn
  <2>4. s.event.link # NoLink /\ link[s.event.link] \in FinalLink =>
          link'[s.event.link] = link[s.event.link]
    BY <1>1, <2>2 DEF ProviderMovesOn, FinalLink
  <2> QED
    BY <1>2, <2>1, <2>3, <2>4, PaymentOrderType DEF ReadIsBehind
<1>3. ASSUME NEW ev \in pending, BegunWith(w, ev, reading'[w]), UNCHANGED provider
      PROVE  ReadIsBehind(reading[w])'
  BY <1>3, PaymentOrderType DEF BegunWith, ReadIsBehind, provider
<1>4. CASE PaymentReadBy(w, reading'[w]) /\ UNCHANGED provider
  BY <1>2, <1>4 DEF PaymentReadBy, provider
<1> QED
  BY <1>1, <1>2, <1>3, <1>4 DEF ReadsMove, NotReading

LEMMA StoringStaysReal ==
  ASSUME Inv, StoreIsBehind, ReadingsBehind, NEW w \in Workers, StoredBy(w)
  PROVE  StoreIsBehind'
<1> DEFINE s == reading[w]
<1>1. s.event \in Event /\ s.busy /\ UNCHANGED provider /\ Stores(s)
  BY StoredByStores
<1>2. ReadIsBehind(s)
  BY <1>1 DEF ReadingsBehind
<1>3. /\ s.event.payment \in Payments \cup {NoPayment}
      /\ s.event.link \in Links \cup {NoLink}
  BY <1>1 DEF Event
<1> HIDE DEF s
<1>4. \A p \in Payments : PaymentOrder(localPayment'[p]) <= PaymentOrder(pay[p])
  BY <1>1, <1>2, <1>3, ResourcesAssumption DEF Stores, ReadIsBehind, StoreIsBehind
<1>5. ASSUME NEW o \in Orders, localOrder'[o].known
      PROVE  Due(o) <= localOrder'[o].due
  <2>1. Due(o) \in Nat
    BY DueType DEF Inv
  <2> QED
    BY <1>1, <1>5, <2>1 DEF Stores, StoreIsBehind
<1>6. \A l \in Links :
        localLink'[l].status \in FinalLink => link[l] = localLink'[l].status
  BY <1>1, <1>2, ResourcesAssumption DEF Stores, ReadIsBehind, StoreIsBehind
<1> QED
  BY <1>1, <1>4, <1>5, <1>6 DEF StoreIsBehind, provider, Due

(* docs/webhooks.md:56-57: a webhook is a signal, the provider is asked.   *)
(* So, for any number of workers and whatever order and delay of their     *)
(* readings, no payment is stored in a state it has not reached, no order  *)
(* with less to pay than is left to pay, no link as over that is not.      *)
THEOREM StoreIsBehindHolds == Spec => []StoreIsBehind
<1>1. Init => StoreIsBehind /\ ReadingsBehind
  BY BehindInit DEF Init, Behind, ReadingsBehind, NotReading
<1>2. Inv /\ StoreIsBehind /\ ReadingsBehind /\ [Next]_vars
        => (StoreIsBehind /\ ReadingsBehind)'
  BY StoreFallsBehind, StoringStaysReal, ReadsStayBehind, LocalMoves
<1> QED
  BY <1>1, <1>2, InvHolds, PTL DEF Spec

-------------------------------------------------------------------------------
(* The webhooks that tell of captures and paid links.                      *)

TellsCapture(ev, p) ==
  ev.kind = "payment.captured" /\ ev.payment = p /\ ev.link = NoLink

TellsPaid(ev, l) == ev.kind = "payment_link.paid" /\ ev.link = l

CaptureToCome(p) == \E ev \in pending : TellsCapture(ev, p)
PaidToCome(l) == \E ev \in pending : TellsPaid(ev, l)

CaptureInHand(p) ==
  \E w \in Workers : reading[w].busy /\ TellsCapture(reading[w].event, p)
PaidInHand(l) ==
  \E w \in Workers : reading[w].busy /\ TellsPaid(reading[w].event, l)

IsTrue(ev) ==
  /\ ev.kind = "payment.captured" => ev.link = NoLink /\ WasCaptured(ev.payment)
  /\ ev.kind = "payment_link.paid" => ev.link # NoLink /\ link[ev.link] = "paid"

(* What a worker reads after such a webhook agrees with it.                *)
AgreesWith(s) ==
  /\ s.event.kind = "payment.captured" /\ pay[s.event.payment] = "captured" =>
       s.payment = "captured"
  /\ s.event.kind = "payment_link.paid" => s.link = "paid"

EventsAreTrue ==
  /\ \A ev \in pending : IsTrue(ev)
  /\ \A w \in Workers :
       reading[w].busy => IsTrue(reading[w].event) /\ AgreesWith(reading[w])

(* How webhooks come and go.                                               *)
PendingMoves ==
  /\ \A ev \in pending :
       ev \in pending' \/ \E w \in Workers : BegunWith(w, ev, reading'[w])
  /\ \A ev \in pending' :
       \/ ev \in pending
       \/ \E w \in Workers : reading[w].busy /\ ev = reading[w].event
       \/ ev \in Event /\ IsTrue(ev)'
  /\ \A p \in Payments :
       pay[p] # "captured" /\ pay'[p] = "captured" => CaptureToCome(p)'
  /\ \A l \in Links : link[l] # "paid" /\ link'[l] = "paid" => PaidToCome(l)'

LEMMA CaptureIsTold ==
  ASSUME Inv, NEW p \in Payments, CapturePayment(p) PROVE PendingMoves
<1> DEFINE l == ViaLink[p]
           captured == PaymentEvent("payment.captured", p)
           st == IF PaymentAmount[p] = Due(OrderOf[p]) THEN "paid"
                                                       ELSE "partially_paid"
           kind == IF st = "paid" THEN "payment_link.paid"
                                  ELSE "payment_link.partially_paid"
           told == LinkEvent(kind, l, p)
<1>0. ProviderOK /\ ProviderOK'
  BY ProviderStep DEF Inv, TypeOK, Next, Provider
<1>1. pay' = [pay EXCEPT ![p] = "captured"] /\ pay'[p] = "captured"
  BY <1>0 DEF CapturePayment, ProviderOK
<1>2. l \in Links \cup {NoLink} /\ NoLink \notin Links
  BY ResourcesAssumption
<1>3. CASE l = NoLink
  <2>1. pending' = pending \cup {captured} /\ UNCHANGED link
    BY <1>3 DEF CapturePayment
  <2>2. captured.kind = "payment.captured" /\ captured.payment = p
        /\ captured.link = NoLink
    BY DEF PaymentEvent
  <2>3. captured \in Event
    BY <1>0, <2>1 DEF ProviderOK
  <2> HIDE DEF captured
  <2>4. \A ev : ev = captured => IsTrue(ev)'
    BY <1>1, <2>2 DEF IsTrue, WasCaptured
  <2> QED
    BY <1>0, <1>1, <2>1, <2>2, <2>3, <2>4 DEF PendingMoves, CaptureToCome,
       TellsCapture, ProviderOK
<1>4. CASE l # NoLink
  <2>1. link' = [link EXCEPT ![l] = st] /\ link'[l] = st
    BY <1>0, <1>2, <1>4 DEF CapturePayment, ProviderOK
  <2>2. pending' = pending \cup {captured, told}
    BY <1>4, <2>1 DEF CapturePayment
  <2>3. /\ captured.kind = "payment.captured" /\ captured.payment = p
        /\ captured.link = NoLink
        /\ told.kind = kind /\ told.link = l
    BY DEF PaymentEvent, LinkEvent
  <2>4. captured \in Event /\ told \in Event
    BY <1>0, <2>2 DEF ProviderOK
  <2>5. kind = "payment_link.paid" <=> link'[l] = "paid"
    BY <2>1
  <2>6. kind # "payment.captured"
    OBVIOUS
  <2> HIDE DEF captured, told, kind, st, l
  <2>7. \A ev : ev \in {captured, told} => IsTrue(ev)'
    BY <1>1, <1>4, <2>3, <2>5, <2>6 DEF IsTrue, WasCaptured
  <2>8. CaptureToCome(p)' /\ (link'[l] = "paid" => PaidToCome(l)')
    BY <2>2, <2>3, <2>5 DEF CaptureToCome, TellsCapture, PaidToCome, TellsPaid
  <2>9. \A q \in Payments : q # p => pay'[q] = pay[q]
    BY <1>0, <1>1 DEF ProviderOK
  <2>10. \A j \in Links : j # l => link'[j] = link[j]
    BY <1>0, <2>1 DEF ProviderOK
  <2> QED
    BY <2>2, <2>4, <2>7, <2>8, <2>9, <2>10 DEF PendingMoves
<1> QED
  BY <1>3, <1>4

LEMMA WebhooksMove == ASSUME Inv, [Next]_vars PROVE PendingMoves
<1>0. ProviderOK /\ ProviderOK'
  BY NextKeeps DEF Inv, TypeOK
<1>1. ASSUME UNCHANGED <<pay, link>>, NEW w \in Workers,
             pending' \subseteq pending \cup {reading[w].event},
             reading[w].busy \/ pending' \subseteq pending,
             \A ev \in pending \ pending' : BegunWith(w, ev, reading'[w])
      PROVE  PendingMoves
  BY <1>1 DEF PendingMoves
<1>2. CASE UNCHANGED <<pay, link, pending>>
  BY <1>2 DEF PendingMoves
<1>3. ASSUME NEW p \in Payments, CapturePayment(p) PROVE PendingMoves
  BY <1>3, CaptureIsTold
<1>4. ASSUME NEW ev, pending' = pending \cup {ev},
             ev.kind \notin {"payment.captured", "payment_link.paid"},
             \A p \in Payments : pay[p] # "captured" => pay'[p] # "captured",
             \A l \in Links : link[l] # "paid" => link'[l] # "paid"
      PROVE  PendingMoves
  <2>1. ev \in Event
    BY <1>0, <1>4 DEF ProviderOK
  <2> QED
    BY <1>4, <2>1 DEF PendingMoves, IsTrue
<1>5. ASSUME NEW p \in Payments, FailPayment(p) \/ AuthorizePayment(p)
      PROVE  PendingMoves
  <2>1. PICK kind \in {"payment.failed", "payment.authorized"} :
          /\ pending' = pending \cup {PaymentEvent(kind, p)}
          /\ pay'[p] # "captured" /\ UNCHANGED link
          /\ \A q \in Payments : q # p => pay'[q] = pay[q]
    BY <1>0, <1>5 DEF FailPayment, AuthorizePayment, ProviderOK
  <2>2. PaymentEvent(kind, p).kind = kind
    BY DEF PaymentEvent
  <2> QED
    BY <1>4, <2>1, <2>2
<1>6. ASSUME NEW p \in Payments, RefundPayment(p) PROVE PendingMoves
  BY <1>0, <1>6 DEF RefundPayment, ProviderOK, PendingMoves
<1>7. ASSUME NEW l \in Links, CancelLink(l) \/ ExpireLink(l) PROVE PendingMoves
  <2>1. PICK kind \in {"payment_link.cancelled", "payment_link.expired"} :
          /\ pending' = pending \cup {LinkEvent(kind, l, NoPayment)}
          /\ link'[l] # "paid" /\ UNCHANGED pay
          /\ \A j \in Links : j # l => link'[j] = link[j]
    BY <1>0, <1>7 DEF CancelLink, ExpireLink, ProviderOK
  <2>2. LinkEvent(kind, l, NoPayment).kind = kind
    BY DEF LinkEvent
  <2> QED
    BY <1>4, <2>1, <2>2
<1>8. CASE Surroundings \/ Endpoints \/ UNCHANGED vars
  BY <1>2, <1>8, SurroundingsLeave, EndpointsLeave DEF Undisturbed, vars, provider
<1>9. ASSUME NEW w \in Workers, NEW ev \in pending, BeginHandling(w, ev)
      PROVE  PendingMoves
  <2>1. BegunWith(w, ev, reading'[w])
    BY <1>9, BeginBegins
  <2> QED
    BY <1>1, <1>9, <2>1 DEF BeginHandling, provider
<1>10. ASSUME NEW w \in Workers, RaiseUnproven(w) PROVE PendingMoves
  BY <1>1, <1>10 DEF RaiseUnproven, Raise, Finish, CanHandle, HasReadAll, provider
<1>11. ASSUME NEW w \in Workers, HandleWebhook(w) PROVE PendingMoves
  BY <1>2, <1>9, <1>10, <1>11 DEF HandleWebhook, ReadLinkPayment, NoMerchant,
     PaymentCaptured, NothingToDo, OrderAlreadyPaid, PaymentAtRisk, LinkPaid,
     LinkCancelled, LinkExpired, LinkAtRisk, CommitCorrelated, Finish, provider
<1> QED
  BY <1>3, <1>5, <1>6, <1>7, <1>8, <1>11 DEF Next, Provider

(* What was told stays true.                                               *)
LEMMA ToldStaysTrue ==
  ASSUME Inv, ProviderMovesOn, NEW ev \in Event, IsTrue(ev) PROVE IsTrue(ev)'
<1>1. /\ ev.link = NoLink => ev.payment \in Payments
      /\ ev.link # NoLink => ev.link \in Links
  BY DEF Event
<1> QED
  BY <1>1 DEF IsTrue, ProviderMovesOn

LEMMA CapturedWasCaptured ==
  ASSUME Inv, [Next]_vars, NEW p \in Payments, WasCaptured(p), pay'[p] = "captured"
  PROVE  pay[p] = "captured"
BY PaymentsMoveOn DEF WasCaptured, PaymentOrder

LEMMA EventsStayTrue ==
  ASSUME Inv, EventsAreTrue, [Next]_vars PROVE EventsAreTrue'
<1>0. ProviderMovesOn /\ PendingMoves /\ ProviderOK
  BY ProviderGoesOn, WebhooksMove DEF Inv, TypeOK
<1>1. ASSUME NEW w \in Workers, reading[w].busy
      PROVE  /\ reading[w] \in Reading /\ reading[w].event \in Event
             /\ IsTrue(reading[w].event) /\ AgreesWith(reading[w])
  <2>1. reading[w] \in Reading
    BY <1>1 DEF Inv, TypeOK, NotReading
  <2> QED
    BY <1>1, <2>1 DEF EventsAreTrue, Reading
<1>2. ASSUME NEW ev \in pending' PROVE IsTrue(ev)'
  <2>1. CASE ev \in pending
    BY <1>0, <2>1, ToldStaysTrue DEF EventsAreTrue, ProviderOK
  <2>2. ASSUME NEW w \in Workers, reading[w].busy, ev = reading[w].event
        PROVE  IsTrue(ev)'
    <3>1. ev \in Event /\ IsTrue(ev)
      BY <1>1, <2>2
    <3> QED
      BY <1>0, <3>1, ToldStaysTrue
  <2> QED
    BY <1>0, <2>1, <2>2 DEF PendingMoves
<1>3. ASSUME NEW w \in Workers, reading'[w].busy
      PROVE  IsTrue(reading[w].event)' /\ AgreesWith(reading[w])'
  <2>1. ReadsMove(w)
    BY ReadingsMove
  <2>2. CASE reading'[w] = reading[w]
    <3> DEFINE s == reading[w]
    <3>1. s.event \in Event /\ IsTrue(s.event) /\ AgreesWith(s)
      BY <1>1, <1>3, <2>2
    <3>2. ASSUME NEW ev, ev = s.event PROVE IsTrue(ev)'
      BY <1>0, <3>1, <3>2, ToldStaysTrue
    <3>3. IsTrue(reading[w].event)'
      BY <2>2, <3>2 DEF IsTrue, WasCaptured
    <3>4. s.event.kind = "payment.captured" => s.event.payment \in Payments
                                               /\ WasCaptured(s.event.payment)
      BY <3>1 DEF IsTrue, Event
    <3>5. s.event.kind = "payment.captured" /\ pay'[s.event.payment] = "captured"
            => s.payment = "captured"
      BY <3>1, <3>4, CapturedWasCaptured DEF AgreesWith
    <3> QED
      BY <2>2, <3>1, <3>3, <3>5 DEF AgreesWith
  <2>3. ASSUME NEW ev \in pending, BegunWith(w, ev, reading'[w]), UNCHANGED provider
        PROVE  IsTrue(reading[w].event)' /\ AgreesWith(reading[w])'
    <3>1. IsTrue(ev)
      BY DEF EventsAreTrue
    <3>2. reading'[w].event = ev
      BY <2>3 DEF BegunWith
    <3>3. /\ ev.kind = "payment.captured" => reading'[w].payment = pay[ev.payment]
          /\ ev.kind = "payment_link.paid" => reading'[w].link = "paid"
      BY <2>3, <3>1 DEF IsTrue, BegunWith
    <3> QED
      BY <2>3, <3>1, <3>2, <3>3 DEF IsTrue, AgreesWith, WasCaptured, provider
  <2>4. CASE PaymentReadBy(w, reading'[w]) /\ UNCHANGED provider
    <3>1. IsTrue(reading[w].event) /\ AgreesWith(reading[w])
      BY <1>1, <2>4 DEF PaymentReadBy
    <3>2. /\ reading'[w].event = reading[w].event
          /\ reading'[w].link = reading[w].link
          /\ reading'[w].payment = pay[reading[w].event.payment]
      BY <2>4 DEF PaymentReadBy
    <3> QED
      BY <2>4, <3>1, <3>2 DEF IsTrue, AgreesWith, WasCaptured, provider
  <2> QED
    BY <1>3, <2>1, <2>2, <2>3, <2>4 DEF ReadsMove, NotReading
<1> QED
  BY <1>2, <1>3 DEF EventsAreTrue

-------------------------------------------------------------------------------
(* What the engine has opened a case for is stored.                        *)

CasesAreStored ==
  /\ \A p \in Payments :
       OpenedByEngine(cases[<<"PAYMENT", p>>]) => localPayment[p] # "unknown"
  /\ \A l \in Links :
       OpenedByEngine(cases[<<"PAYMENT_LINK", l>>]) =>
         localLink[l].status # "unknown"

(* A worker that opens the case of a payment or a link.                    *)
OpensIn(w, k) ==
  LET s == reading[w] IN
  /\ s \in Reading /\ s.event \in Event /\ s.busy /\ HasReadAll(w)
  /\ UNCHANGED pending
  /\ \E linkCase : StoreResources(s, linkCase)
  /\ \/ k = <<"PAYMENT", s.event.payment>> /\ s.event.link = NoLink
        /\ s.payment = "failed"
     \/ k = <<"PAYMENT_LINK", s.event.link>> /\ s.link # "paid"

LEMMA NewIsOpened ==
  ASSUME Inv, Grounds, [Next]_vars, NEW k \in CaseKeys, k[1] # "ORDER",
         cases[k].status = "NONE", OpenedByEngine(cases'[k])
  PROVE  \E w \in Workers : OpensIn(w, k)
<1>0. ~Exists(k) /\ ~IsActive(cases[k])
  BY DEF Exists, IsActive, ActiveStatuses
<1>1. Written(k, cases'[k])
  BY NextWrites DEF CasesWritten
<1>2. cases[k].log = <<>>
  BY DEF Grounds, AbsentIsBlank, NoCase
<1>3. /\ ~ByRequest(k, cases'[k])
      /\ cases'[k] # cases[k] /\ cases'[k] # ExpireIfDue(cases[k])
  BY <1>0, <1>2 DEF ByRequest, OpenedByEngine, ExpireIfDue, Close
<1>4. PutAtRisk(k, cases'[k])
  BY <1>0, <1>1, <1>3 DEF Written, ByEngine, ClosedWith, Scanned
<1>5. PICK w \in Workers : /\ HasReadAll(w) /\ OpenedFor(reading[w], k)
                           /\ \E linkCase : StoreResources(reading[w], linkCase)
                           /\ UNCHANGED pending
  BY <1>4 DEF PutAtRisk
<1>6. reading[w] \in Reading /\ reading[w].event \in Event /\ reading[w].busy
  BY <1>5, BusyReads DEF Inv, HasReadAll
<1> QED
  BY <1>0, <1>5, <1>6 DEF OpenedFor, OpensIn

LEMMA StoredStays ==
  ASSUME Inv, [Next]_vars
  PROVE  /\ \A p \in Payments : localPayment[p] # "unknown" =>
                                 localPayment'[p] # "unknown"
         /\ \A l \in Links : localLink[l].status # "unknown" =>
                              localLink'[l].status # "unknown"
<1>1. ASSUME NEW w \in Workers, StoredBy(w)
      PROVE  /\ \A p \in Payments : localPayment[p] # "unknown" =>
                                     localPayment'[p] # "unknown"
             /\ \A l \in Links : localLink[l].status # "unknown" =>
                                  localLink'[l].status # "unknown"
  <2> DEFINE s == reading[w]
  <2>1. s \in Reading /\ Stores(s)
    BY <1>1, StoredByStores
  <2>2. s.payment # "unknown" /\ s.link # "unknown"
    BY <2>1 DEF Reading, PaymentStatuses, LinkStatuses
  <2> QED
    BY <2>1, <2>2 DEF Stores
<1> QED
  BY <1>1, LocalMoves DEF local

LEMMA ExistingStays ==
  ASSUME Inv, [Next]_vars, NEW k \in CaseKeys, IsActive(cases'[k])
  PROVE  IsActive(cases[k]) \/ cases[k].status = "NONE"
<1>1. Moved(cases[k], cases'[k])
  BY NextKeeps DEF CasesKept, Kept
<1> QED
  BY <1>1 DEF Moved, IsActive

(* A case that somebody else opened never looks like one of the engine's.  *)
LEMMA OpenerStays ==
  ASSUME Inv, Grounds, [Next]_vars, NEW k \in CaseKeys, cases[k].status # "NONE",
         OpenedByEngine(cases'[k])
  PROVE  OpenedByEngine(cases[k])
<1> DEFINE c == cases[k]  d == cases'[k]
<1>1. Told(c, d) \/ d.log = c.log
  BY StepTells
<1>2. c.log \in Seq(AuditEntry) /\ d.log \in Seq(AuditEntry)
  <2>1. c \in Case /\ d \in Case
    BY NextKeeps DEF Inv, TypeOK
  <2> QED
    BY <2>1 DEF Case
<1> HIDE DEF c, d
<1>3. CASE d.log = c.log
  BY <1>3 DEF OpenedByEngine, c, d
<1>4. CASE Told(c, d) /\ c.log # <<>>
  <2>1. 1 \in DOMAIN c.log
    BY <1>2, <1>4
  <2>2. d.log[1] = c.log[1]
    BY <1>4, <2>1 DEF Told
  <2> QED
    BY <1>4, <2>2 DEF OpenedByEngine, c, d
<1>5. CASE Told(c, d) /\ c.log = <<>>
  <2>1. Len(c.log) = 0 /\ 1 \in 1 .. Len(d.log)
    BY <1>2, <1>5 DEF OpenedByEngine, d
  <2>2. d.log[1].from = c.status
    BY <1>5, <2>1 DEF Told
  <2> QED
    BY <2>2 DEF OpenedByEngine, c, d
<1> QED
  BY <1>1, <1>3, <1>4, <1>5

LEMMA CasesStayStored ==
  ASSUME Inv, Grounds, CasesAreStored, [Next]_vars PROVE CasesAreStored'
<1>1. ASSUME NEW p \in Payments, OpenedByEngine(cases'[<<"PAYMENT", p>>])
      PROVE  localPayment'[p] # "unknown"
  <2> DEFINE k == <<"PAYMENT", p>>
  <2>1. k \in CaseKeys
    BY DEF CaseKeys
  <2>2. CASE cases[k].status # "NONE"
    BY <1>1, <2>1, <2>2, OpenerStays, StoredStays DEF CasesAreStored
  <2>3. CASE cases[k].status = "NONE"
    <3>1. PICK w \in Workers : OpensIn(w, k)
      BY <1>1, <2>1, <2>3, NewIsOpened
    <3>2. reading[w].event.payment = p /\ reading[w].payment = "failed"
      BY <3>1 DEF OpensIn
    <3>3. localPayment' = [localPayment EXCEPT ![p] = "failed"]
      BY <3>1, <3>2, ResourcesAssumption DEF OpensIn, StoreResources, StoredStatus
    <3> QED
      BY <3>3 DEF Inv, TypeOK, LocalOK
  <2> QED
    BY <2>2, <2>3
<1>2. ASSUME NEW l \in Links, OpenedByEngine(cases'[<<"PAYMENT_LINK", l>>])
      PROVE  localLink'[l].status # "unknown"
  <2> DEFINE k == <<"PAYMENT_LINK", l>>
  <2>1. k \in CaseKeys
    BY DEF CaseKeys
  <2>2. CASE cases[k].status # "NONE"
    BY <1>2, <2>1, <2>2, OpenerStays, StoredStays DEF CasesAreStored
  <2>3. CASE cases[k].status = "NONE"
    <3>1. PICK w \in Workers : OpensIn(w, k)
      BY <1>2, <2>1, <2>3, NewIsOpened
    <3>2. reading[w].event.link = l /\ l # NoLink
      BY <3>1, ResourcesAssumption DEF OpensIn
    <3>3. PICK linkCase : localLink' = [localLink EXCEPT ![l] =
                            [status |-> reading[w].link, case |-> linkCase]]
      BY <3>1, <3>2 DEF OpensIn, StoreResources
    <3>4. reading[w].link # "unknown"
      BY <3>1 DEF OpensIn, Reading, LinkStatuses
    <3> QED
      BY <3>3, <3>4 DEF Inv, TypeOK, LocalOK
  <2> QED
    BY <2>2, <2>3
<1> QED
  BY <1>1, <1>2 DEF CasesAreStored, OpenedByEngine

-------------------------------------------------------------------------------
(* Handling the webhook that tells of a capture, or of a paid link, ends   *)
(* the active case of that resource; or the webhook comes again.           *)

LEMMA CommitElsewhere ==
  ASSUME Inv, NEW k \in CaseKeys, NEW j, j # k, NEW c, CommitCase(j, c)
  PROVE  cases'[k] = cases[k]
BY DEF CommitCase, Inv, TypeOK

LEMMA CommitHere ==
  ASSUME Inv, NEW k \in CaseKeys, NEW target \in ClosingStatuses,
         NEW reason \in ClosingReasons,
         CommitCase(k, Close(cases[k], target, reason))
  PROVE  ~IsActive(cases'[k])
<1> DEFINE closed == Close(cases[k], target, reason)
<1>1. cases[k] \in Case /\ closed \in Case
  BY CloseType DEF Inv, TypeOK
<1>2. ~IsActive(closed)
  BY <1>1, ClosedIsOver
<1>3. cases'[k] = ExpireIfDue(closed)
  BY ResourcesAssumption DEF CommitCase, Inv, TypeOK
<1> HIDE DEF closed
<1>4. ~IsActive(ExpireIfDue(closed))
  BY <1>2 DEF ExpireIfDue, Close
<1> QED
  BY <1>3, <1>4

LEMMA NoneIsOver ==
  ASSUME NEW k \in CaseKeys, ~Exists(k) PROVE ~IsActive(cases[k])
BY DEF Exists, IsActive, ActiveStatuses

(* An active case that the engine opened.                                  *)
StillOpen(k) == IsActive(cases[k]) /\ OpenedByEngine(cases[k])

(* Without a merchant nothing is stored yet, and no case of the engine's is*)
(* there to be ended.                                                      *)
LEMMA UnstoredIsNotOpen ==
  ASSUME Inv, Grounds, [Next]_vars, NEW w \in Workers, NoMerchant(w),
         NEW k \in CaseKeys, ~OpenedByEngine(cases[k]),
         ~Exists(k) => Correlated(reading[w]) # k
  PROVE  ~StillOpen(k)'
<1>1. CASE Exists(k)
  <2>1. ~OpenedByEngine(cases'[k])
    BY <1>1, OpenerStays DEF Exists
  <2> QED
    BY <2>1 DEF StillOpen, OpenedByEngine
<1>2. CASE ~Exists(k)
  <2>1. cases'[k] = cases[k]
    BY <1>2, CommitElsewhere DEF NoMerchant
  <2> QED
    BY <2>1 DEF StillOpen, OpenedByEngine
<1> QED
  BY <1>1, <1>2

LEMMA HandlingIsAStep ==
  ASSUME NEW w \in Workers, HandleWebhook(w) PROVE [Next]_vars
BY DEF Next

LEMMA CaptureHandled ==
  ASSUME Inv, Grounds, EventsAreTrue, CasesAreStored, NEW w \in Workers,
         NEW p \in Payments, reading[w].busy, TellsCapture(reading[w].event, p),
         pay[p] = "captured", HandleWebhook(w)
  PROVE  ~StillOpen(<<"PAYMENT", p>>)'
<1> DEFINE s == reading[w]  k == <<"PAYMENT", p>>
<1>1. /\ s.event.payment = p /\ s.event.link = NoLink /\ s.payment = "captured"
      /\ IsPaymentEvent(w) /\ k \in CaseKeys
  BY DEF TellsCapture, EventsAreTrue, AgreesWith, IsPaymentEvent, CaseKeys
<1>2. s \in Reading
  BY DEF Inv, TypeOK, NotReading
<1>3. Correlated(s) = k \/ ~Exists(k)
  BY <1>1, ResourcesAssumption DEF Correlated, Exists, CaseKeys
<1>4. ~Exists(k) => Correlated(s) # k
  BY <1>1, ResourcesAssumption DEF Correlated, CaseKeys
<1>5. CASE NoMerchant(w)
  <2>1. localPayment[p] = "unknown"
    BY <1>1, <1>5, ResourcesAssumption DEF NoMerchant, MerchantKnown, HasLocalOwner
  <2>2. ~OpenedByEngine(cases[k])
    BY <2>1 DEF CasesAreStored
  <2>3. ~StillOpen(k)'
    BY <1>1, <1>4, <1>5, <2>2, HandlingIsAStep, UnstoredIsNotOpen
  <2> QED
    BY <2>3
<1>6. CASE PaymentCaptured(w)
  <2>1. CommitCase(Correlated(s), Close(cases[Correlated(s)], "RECOVERED",
                                        "PAYMENT_CAPTURED"))
    BY <1>6 DEF PaymentCaptured, CommitCorrelated, CorrelatedCase
  <2>2. ASSUME Correlated(s) = k PROVE ~IsActive(cases'[k])
    BY <1>1, <2>1, <2>2, CommitHere DEF ClosingStatuses, ClosingReasons
  <2>3. ASSUME Correlated(s) # k PROVE ~IsActive(cases'[k])
    BY <1>1, <1>3, <2>1, <2>3, CommitElsewhere, NoneIsOver
  <2>4. ~IsActive(cases'[k])
    BY <2>2, <2>3
  <2> QED
    BY <2>4 DEF StillOpen, IsActive
<1> QED
  BY <1>1, <1>5, <1>6 DEF HandleWebhook, BeginHandling, ReadLinkPayment,
     PaymentUnread, NothingToDo, OrderAlreadyPaid, PaymentAtRisk, LinkPaid,
     RaiseUnproven, LinkCancelled, LinkExpired, LinkAtRisk, ShowsCapture

LEMMA PaidHandled ==
  ASSUME Inv, Grounds, EventsAreTrue, CasesAreStored, NEW w \in Workers,
         NEW l \in Links, reading[w].busy, TellsPaid(reading[w].event, l),
         HandleWebhook(w), reading'[w].busy = FALSE
  PROVE  ~StillOpen(<<"PAYMENT_LINK", l>>)' \/ PaidToCome(l)'
<1> DEFINE s == reading[w]  k == <<"PAYMENT_LINK", l>>
<1>1. /\ s.event.link = l /\ s.event.link # NoLink /\ s.link = "paid"
      /\ ~IsPaymentEvent(w) /\ k \in CaseKeys
  BY ResourcesAssumption DEF TellsPaid, EventsAreTrue, AgreesWith, IsPaymentEvent,
                             CaseKeys
<1>2. localLink[l].case \in {NoKey, k}
  BY DEF Grounds, LinksPointHome
<1>3. Correlated(s) = k \/ ~Exists(k)
  BY <1>1, <1>2, ResourcesAssumption DEF Correlated, Exists
<1>4. ~Exists(k) => Correlated(s) # k
  BY <1>1, ResourcesAssumption DEF Correlated
<1>5. CASE NoMerchant(w)
  <2>1. localLink[l].status = "unknown"
    BY <1>1, <1>5 DEF NoMerchant, MerchantKnown, HasLocalOwner
  <2>2. ~OpenedByEngine(cases[k])
    BY <2>1 DEF CasesAreStored
  <2>3. ~StillOpen(k)'
    BY <1>1, <1>4, <1>5, <2>2, HandlingIsAStep, UnstoredIsNotOpen
  <2> QED
    BY <2>3
<1>6. CASE LinkPaid(w)
  <2>1. CommitCase(Correlated(s), Close(cases[Correlated(s)], "RECOVERED",
                                        "PAYMENT_LINK_PAID_RECONCILED"))
    BY <1>6 DEF LinkPaid, CommitCorrelated, CorrelatedCase
  <2>2. ASSUME Correlated(s) = k PROVE ~IsActive(cases'[k])
    BY <1>1, <2>1, <2>2, CommitHere DEF ClosingStatuses, ClosingReasons
  <2>3. ASSUME Correlated(s) # k PROVE ~IsActive(cases'[k])
    BY <1>1, <1>3, <2>1, <2>3, CommitElsewhere, NoneIsOver
  <2>4. ~IsActive(cases'[k])
    BY <2>2, <2>3
  <2> QED
    BY <2>4 DEF StillOpen, IsActive
<1>7. CASE RaiseUnproven(w)
  <2>1. s.event \in pending' /\ TellsPaid(s.event, l)
    BY <1>7 DEF RaiseUnproven, Raise
  <2> QED
    BY <2>1 DEF PaidToCome, TellsPaid
<1>8. CASE ReadLinkPayment(w)
  <2>1. s \in Reading
    BY DEF Inv, TypeOK, NotReading
  <2>2. reading'[w] = [s EXCEPT !.payment = pay[s.event.payment]]
    BY <1>8 DEF ReadLinkPayment, Inv, TypeOK
  <2>3. reading'[w].busy = TRUE
    BY <2>1, <2>2 DEF Reading
  <2> QED
    BY <2>3
<1> QED
  BY <1>1, <1>5, <1>6, <1>7, <1>8 DEF HandleWebhook, BeginHandling, PaymentCaptured,
     NothingToDo, OrderAlreadyPaid, PaymentAtRisk, LinkCancelled, LinkExpired,
     LinkAtRisk, LinkIsOver, LinkNeedsCase

-------------------------------------------------------------------------------
(* As long as a paid resource has an active case, or the worker is about to *)
(* act on what it read before the money came, the webhook is still to come. *)

CapturesToCome ==
  \A p \in Payments : pay[p] = "captured" =>
    /\ StillOpen(<<"PAYMENT", p>>) => CaptureToCome(p) \/ CaptureInHand(p)
    /\ \A w \in Workers :
         /\ reading[w].busy /\ reading[w].event.link = NoLink
         /\ reading[w].event.payment = p /\ reading[w].payment # "captured"
         => CaptureToCome(p)

PaidLinksToCome ==
  \A l \in Links : link[l] = "paid" =>
    /\ StillOpen(<<"PAYMENT_LINK", l>>) => PaidToCome(l) \/ PaidInHand(l)
    /\ \A w \in Workers :
         /\ reading[w].busy /\ reading[w].event.link = l
         /\ reading[w].link # "paid"
         => PaidToCome(l)

AllIsTold == EventsAreTrue /\ CasesAreStored /\ CapturesToCome /\ PaidLinksToCome

(* The only worker keeps its webhook until it has handled it.              *)
LEMMA HandsMove ==
  ASSUME Inv, OneWorker, [Next]_vars, NEW w \in Workers, reading[w].busy
  PROVE  \/ reading'[w].busy /\ reading'[w].event = reading[w].event
         \/ HandleWebhook(w) /\ reading'[w].busy = FALSE
<1>1. CASE reading'[w] = reading[w]
  BY <1>1
<1>2. CASE PaymentReadBy(w, reading'[w])
  BY <1>2 DEF PaymentReadBy
<1>3. CASE reading'[w] = NotReading
  <2>1. ~UNCHANGED reading
    BY <1>3 DEF NotReading
  <2>2. \E v \in Workers : HandleWebhook(v)
    BY <2>1, SurroundingsLeave, EndpointsLeave DEF Next, Provider, FailPayment,
       AuthorizePayment, CapturePayment, RefundPayment, CancelLink, ExpireLink,
       Unhandled, Undisturbed, vars
  <2> QED
    BY <1>3, <2>2 DEF OneWorker, NotReading
<1>4. ReadsMove(w)
  BY ReadingsMove
<1> QED
  BY <1>1, <1>2, <1>3, <1>4 DEF ReadsMove, BegunWith

(* A webhook that was to come still is, or the worker has just taken it.   *)
LEMMA TakenOrToCome ==
  ASSUME PendingMoves
  PROVE  /\ \A p : CaptureToCome(p) => CaptureToCome(p)' \/ CaptureInHand(p)'
         /\ \A l : PaidToCome(l) => PaidToCome(l)' \/ PaidInHand(l)'
         /\ \A w \in Workers : reading[w].busy /\ OneWorker =>
              /\ \A p : CaptureToCome(p) => CaptureToCome(p)'
              /\ \A l : PaidToCome(l) => PaidToCome(l)'
<1>1. ASSUME NEW ev \in pending
      PROVE  \/ ev \in pending'
             \/ \E w \in Workers : ~reading[w].busy /\ reading'[w].busy
                                    /\ reading'[w].event = ev
  BY DEF PendingMoves, BegunWith
<1>2. ASSUME NEW p, CaptureToCome(p) PROVE CaptureToCome(p)' \/ CaptureInHand(p)'
  BY <1>1, <1>2 DEF CaptureToCome, CaptureInHand, TellsCapture
<1>3. ASSUME NEW l, PaidToCome(l) PROVE PaidToCome(l)' \/ PaidInHand(l)'
  BY <1>1, <1>3 DEF PaidToCome, PaidInHand, TellsPaid
<1>4. ASSUME NEW w \in Workers, reading[w].busy, OneWorker
      PROVE  pending \subseteq pending'
  BY <1>1, <1>4 DEF OneWorker
<1>5. ASSUME pending \subseteq pending'
      PROVE  /\ \A p : CaptureToCome(p) => CaptureToCome(p)'
             /\ \A l : PaidToCome(l) => PaidToCome(l)'
  BY <1>5 DEF CaptureToCome, TellsCapture, PaidToCome, TellsPaid
<1> QED
  BY <1>2, <1>3, <1>4, <1>5

LEMMA CapturesStayToCome ==
  ASSUME Inv, Grounds, AllIsTold, OneWorker, [Next]_vars PROVE CapturesToCome'
<1> SUFFICES ASSUME NEW p \in Payments, pay'[p] = "captured"
             PROVE  /\ StillOpen(<<"PAYMENT", p>>)' =>
                          CaptureToCome(p)' \/ CaptureInHand(p)'
                    /\ \A w \in Workers :
                         /\ reading'[w].busy /\ reading'[w].event.link = NoLink
                         /\ reading'[w].event.payment = p
                         /\ reading'[w].payment # "captured"
                         => CaptureToCome(p)'
  BY DEF CapturesToCome
<1> DEFINE k == <<"PAYMENT", p>>
<1>0. PendingMoves /\ k \in CaseKeys
  BY WebhooksMove DEF CaseKeys
<1>1. CASE pay[p] # "captured"
  BY <1>0, <1>1 DEF PendingMoves
<1>2. CASE pay[p] = "captured"
  <2>1. ASSUME StillOpen(k)'
        PROVE  CaptureToCome(p)' \/ CaptureInHand(p)'
    <3>1. CASE CaptureToCome(p)
      BY <1>0, <3>1, TakenOrToCome
    <3>2. ASSUME NEW w \in Workers, reading[w].busy,
                 TellsCapture(reading[w].event, p)
          PROVE  CaptureInHand(p)'
      <4>1. ~HandleWebhook(w)
        BY <1>2, <2>1, <3>2, CaptureHandled DEF AllIsTold
      <4>2. reading'[w].busy /\ reading'[w].event = reading[w].event
        BY <3>2, <4>1, HandsMove
      <4> QED
        BY <3>2, <4>2 DEF CaptureInHand, TellsCapture
    <3>3. CASE ~StillOpen(k)
      <4>0. IsActive(cases'[k]) /\ OpenedByEngine(cases'[k])
        BY <2>1 DEF StillOpen, IsActive, OpenedByEngine
      <4>1. cases[k].status = "NONE"
        BY <1>0, <3>3, <4>0, ExistingStays, OpenerStays DEF StillOpen
      <4>2. PICK w \in Workers : OpensIn(w, k)
        BY <1>0, <4>0, <4>1, NewIsOpened
      <4>3. /\ reading[w].busy /\ reading[w].event.link = NoLink
            /\ reading[w].event.payment = p /\ reading[w].payment = "failed"
        BY <4>2 DEF OpensIn
      <4>4. CaptureToCome(p)
        BY <1>2, <4>3 DEF AllIsTold, CapturesToCome
      <4> QED
        BY <3>1, <4>4
    <3>4. CASE StillOpen(k) /\ ~CaptureToCome(p)
      BY <1>2, <3>2, <3>4 DEF AllIsTold, CapturesToCome, CaptureInHand
    <3> QED
      BY <3>1, <3>3, <3>4
  <2>2. ASSUME NEW w \in Workers, reading'[w].busy,
               reading'[w].event.link = NoLink, reading'[w].event.payment = p,
               reading'[w].payment # "captured"
        PROVE  CaptureToCome(p)'
    <3>1. reading'[w] = reading[w]
      <4>1. ~PaymentReadBy(w, reading'[w])
        BY <1>2, <2>2 DEF PaymentReadBy
      <4>2. \A ev \in pending : ~BegunWith(w, ev, reading'[w])
        BY <1>2, <2>2 DEF BegunWith
      <4>3. ReadsMove(w)
        BY ReadingsMove
      <4> QED
        BY <2>2, <4>1, <4>2, <4>3 DEF ReadsMove, NotReading
    <3>2. CaptureToCome(p) /\ reading[w].busy
      BY <1>2, <2>2, <3>1 DEF AllIsTold, CapturesToCome
    <3> QED
      BY <1>0, <3>2, TakenOrToCome
  <2> QED
    BY <2>1, <2>2
<1> QED
  BY <1>1, <1>2

LEMMA PaidLinksStayToCome ==
  ASSUME Inv, Grounds, AllIsTold, OneWorker, [Next]_vars PROVE PaidLinksToCome'
<1> SUFFICES ASSUME NEW l \in Links, link'[l] = "paid"
             PROVE  /\ StillOpen(<<"PAYMENT_LINK", l>>)' =>
                          PaidToCome(l)' \/ PaidInHand(l)'
                    /\ \A w \in Workers :
                         /\ reading'[w].busy /\ reading'[w].event.link = l
                         /\ reading'[w].link # "paid"
                         => PaidToCome(l)'
  BY DEF PaidLinksToCome
<1> DEFINE k == <<"PAYMENT_LINK", l>>
<1>0. PendingMoves /\ k \in CaseKeys /\ l # NoLink
  BY WebhooksMove, ResourcesAssumption DEF CaseKeys
<1>1. CASE link[l] # "paid"
  BY <1>0, <1>1 DEF PendingMoves
<1>2. CASE link[l] = "paid"
  <2>1. ASSUME StillOpen(k)'
        PROVE  PaidToCome(l)' \/ PaidInHand(l)'
    <3>1. CASE PaidToCome(l)
      BY <1>0, <3>1, TakenOrToCome
    <3>2. ASSUME NEW w \in Workers, reading[w].busy, TellsPaid(reading[w].event, l)
          PROVE  PaidToCome(l)' \/ PaidInHand(l)'
      <4>1. CASE HandleWebhook(w) /\ reading'[w].busy = FALSE
        BY <2>1, <3>2, <4>1, PaidHandled DEF AllIsTold
      <4>2. CASE reading'[w].busy /\ reading'[w].event = reading[w].event
        BY <3>2, <4>2 DEF PaidInHand, TellsPaid
      <4> QED
        BY <3>2, <4>1, <4>2, HandsMove
    <3>3. CASE ~StillOpen(k)
      <4>0. IsActive(cases'[k]) /\ OpenedByEngine(cases'[k])
        BY <2>1 DEF StillOpen, IsActive, OpenedByEngine
      <4>1. cases[k].status = "NONE"
        BY <1>0, <3>3, <4>0, ExistingStays, OpenerStays DEF StillOpen
      <4>2. PICK w \in Workers : OpensIn(w, k)
        BY <1>0, <4>0, <4>1, NewIsOpened
      <4>3. reading[w].busy /\ reading[w].event.link = l /\ reading[w].link # "paid"
        BY <4>2 DEF OpensIn
      <4>4. PaidToCome(l)
        BY <1>2, <4>3 DEF AllIsTold, PaidLinksToCome
      <4> QED
        BY <3>1, <4>4
    <3>4. CASE StillOpen(k) /\ ~PaidToCome(l)
      BY <1>2, <3>2, <3>4 DEF AllIsTold, PaidLinksToCome, PaidInHand
    <3> QED
      BY <3>1, <3>3, <3>4
  <2>2. ASSUME NEW w \in Workers, reading'[w].busy, reading'[w].event.link = l,
               reading'[w].link # "paid"
        PROVE  PaidToCome(l)'
    <3>1. /\ reading[w].busy /\ reading[w].event.link = l
          /\ reading[w].link # "paid"
      <4>1. \A ev \in pending : ~BegunWith(w, ev, reading'[w])
        BY <1>0, <1>2, <2>2 DEF BegunWith
      <4>2. ReadsMove(w)
        BY ReadingsMove
      <4>3. CASE reading'[w] = reading[w]
        BY <2>2, <4>3
      <4>4. CASE PaymentReadBy(w, reading'[w])
        BY <2>2, <4>4 DEF PaymentReadBy
      <4> QED
        BY <2>2, <4>1, <4>2, <4>3, <4>4 DEF ReadsMove, NotReading
    <3>2. PaidToCome(l)
      BY <1>2, <3>1 DEF AllIsTold, PaidLinksToCome
    <3> QED
      BY <1>0, <3>1, <3>2, TakenOrToCome
  <2> QED
    BY <2>1, <2>2
<1> QED
  BY <1>1, <1>2

LEMMA AllIsToldInit == Init => AllIsTold
<1>1. Init => \A k \in CaseKeys : cases[k].log = <<>>
  BY DEF Init, NoCase
<1>2. Init => EventsAreTrue /\ \A w \in Workers : ~reading[w].busy
  BY DEF Init, EventsAreTrue, NotReading
<1>3. Init => CapturesToCome /\ PaidLinksToCome
  BY DEF Init, CapturesToCome, PaidLinksToCome
<1>4. Init => CasesAreStored
  BY <1>1 DEF CasesAreStored, OpenedByEngine, CaseKeys
<1> QED
  BY <1>2, <1>3, <1>4 DEF AllIsTold

(* docs/recovery-cases.md:42: however payment.failed and payment.captured  *)
(* are ordered, however long each is on its way, once every webhook is     *)
(* handled a captured payment has no active case of its own, and a paid    *)
(* link neither, as long as one worker handles the webhooks; but for a case*)
(* that POST /api/cases opened.                                            *)
THEOREM PaidResourceEndsOwnCaseHolds ==
  ASSUME OneWorker PROVE Spec => []PaidResourceEndsOwnCase
<1>1. Inv /\ Grounds /\ AllIsTold /\ [Next]_vars => AllIsTold'
  BY EventsStayTrue, CasesStayStored, CapturesStayToCome, PaidLinksStayToCome
     DEF AllIsTold
<1>2. AllIsTold => PaidResourceEndsOwnCase
  BY DEF AllIsTold, CapturesToCome, PaidLinksToCome, CaptureToCome, CaptureInHand,
         PaidToCome, PaidInHand, StillOpen, PaidResourceEndsOwnCase, Quiet
<1> QED
  BY <1>1, <1>2, AllIsToldInit, GroundsHold, PTL DEF Spec
===============================================================================

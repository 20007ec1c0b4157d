------------------------- MODULE RecoveryEngineProofs -------------------------
(***************************************************************************)
(* Theorems about RecoveryEngine, for any payments, orders and links, any  *)
(* number of processes and any bounds.                                     *)
(***************************************************************************)
EXTENDS RecoveryEngine, TLAPS

(* recovery_case.py: every active status may be closed in each of the three*)
(* ways the engine closes a case, so its transition_to never raises.        *)
LEMMA ActiveCanClose ==
  ASSUME NEW current \in ActiveStatuses, NEW target \in ClosingStatuses
  PROVE  ValidTransition(current, target)
BY DEF ValidTransition, AllowedTransitions

-------------------------------------------------------------------------------
(* The engine's operations on a case.                                      *)

LEMMA CloseType ==
  ASSUME NEW c \in Case, NEW target \in ClosingStatuses,
         NEW reason \in ClosingReasons
  PROVE  Close(c, target, reason) \in Case
<1> DEFINE entry == [from |-> c.status, to |-> target, reason |-> reason]
<1>1. target \in CaseStatuses
  BY DEF ClosingStatuses, CaseStatuses, TerminalStatuses
<1>2. entry \in AuditEntry
  BY <1>1 DEF Case, AuditEntry
<1>3. Append(c.log, entry) \in Seq(AuditEntry)
  BY <1>2 DEF Case
<1> HIDE DEF entry
<1>4. [c EXCEPT !.status = target, !.log = Append(c.log, entry)] \in Case
  BY <1>1, <1>3 DEF Case
<1> QED
  BY <1>4 DEF Close, entry

LEMMA NewCaseType ==
  ASSUME NEW amount \in Nat, NEW start \in Nat, NEW customer \in BOOLEAN,
         NEW trigger \in Triggers
  PROVE  NewCase(amount, start, customer, trigger) \in Case
<1> DEFINE entry == [from |-> "NONE", to |-> "AT_RISK", reason |-> trigger]
<1>1. entry \in AuditEntry
  BY DEF AuditEntry, CaseStatuses, ActiveStatuses
<1>2. <<entry>> \in Seq(AuditEntry)
  BY <1>1
<1>3. start + Window \in Nat /\ "AT_RISK" \in CaseStatuses
  BY TimesAssumption DEF CaseStatuses, ActiveStatuses
<1> HIDE DEF entry
<1>4. [status |-> "AT_RISK", amount |-> amount, end |-> start + Window,
       customer |-> customer, log |-> <<entry>>] \in Case
  BY <1>2, <1>3 DEF Case
<1> QED
  BY <1>4 DEF NewCase, entry

-------------------------------------------------------------------------------
(* What a transaction may make of a case: a well-formed one with a lawful  *)
(* audit and something at risk, by a step of CaseRegister, and nothing at  *)
(* all of one that has ended.                                              *)
IsWorth(c) == c.status # "NONE" => c.amount > 0

Moved(old, new) ==
  \/ new = old
  \/ old.status = "NONE" /\ new.status \in {"AT_RISK"} \cup ClosingStatuses
  \/ /\ old.status \in ActiveStatuses
     /\ \/ new.status = old.status
        \/ <<old.status, new.status>> \in AllowedTransitions \cup BatchMoves
     /\ new.end = old.end /\ new.customer = old.customer

Kept(old, new) ==
  /\ new \in Case
  /\ LawfulAudit(new) /\ IsWorth(new)
  /\ Moved(old, new)

(* A transition, and a closing after it.                                   *)
LEMMA ClosingMoves ==
  ASSUME NEW old, NEW c, Moved(old, c), c.status \in ActiveStatuses,
         NEW new, new.status \in ClosingStatuses \cup {c.status},
         new.end = c.end, new.customer = c.customer
  PROVE  Moved(old, new)
BY ActiveCanClose DEF Moved, ValidTransition, ClosingStatuses, ActiveStatuses,
                      TerminalStatuses

(* What the audit of an active case may hold: its creation.                *)
OnlyCreated(c) ==
  \A i \in DOMAIN c.log :
    i = 1 /\ c.log[i].from = "NONE" /\ c.log[i].to = "AT_RISK"

LEMMA ActiveIsOnlyCreated ==
  ASSUME NEW c, LawfulAudit(c), IsActive(c) PROVE OnlyCreated(c)
BY DEF LawfulAudit, IsActive, ClosingStatuses, ActiveStatuses, OnlyCreated

LEMMA CloseKeeps ==
  ASSUME NEW old, NEW c, Kept(old, c), NEW target \in ClosingStatuses,
         NEW reason \in ClosingReasons
  PROVE  Kept(old, Close(c, target, reason))
<1> DEFINE entry == [from |-> c.status, to |-> target, reason |-> reason]
<1> DEFINE closed == [c EXCEPT !.status = target, !.log = Append(c.log, entry)]
<1>1. CASE ~IsActive(c)
  BY <1>1 DEF Close
<1>2. CASE IsActive(c)
  <2>1. c \in Case /\ LawfulAudit(c) /\ c.status # "NONE"
    BY <1>2 DEF Kept, IsActive, ActiveStatuses
  <2>2. Close(c, target, reason) = closed /\ closed \in Case
    BY <1>2, <2>1, CloseType DEF Close
  <2>3. /\ OnlyCreated(c) /\ c.log \in Seq(AuditEntry)
        /\ c.status \in ActiveStatuses
    BY <1>2, <2>1, ActiveIsOnlyCreated DEF Case, IsActive
  <2>4. entry \in AuditEntry
    BY <2>1 DEF AuditEntry, Case, ClosingStatuses, CaseStatuses, TerminalStatuses
  <2>5. closed.status = target /\ closed.log = Append(c.log, entry)
    BY <2>1 DEF Case
  <2> HIDE DEF closed
  <2>6. /\ Len(closed.log) = Len(c.log) + 1
        /\ DOMAIN closed.log = DOMAIN c.log \cup {Len(closed.log)}
        /\ \A i \in DOMAIN c.log : closed.log[i] = c.log[i]
        /\ closed.log[Len(closed.log)] = entry
    BY <2>3, <2>4, <2>5
  <2>9. LawfulAudit(closed)
    BY <2>3, <2>5, <2>6 DEF LawfulAudit, OnlyCreated
  <2>10. closed.end = c.end /\ closed.customer = c.customer
         /\ closed.amount = c.amount
    BY <2>1 DEF Case, closed
  <2>11. Moved(old, closed) /\ IsWorth(closed)
    BY <1>2, <2>1, <2>5, <2>10, ClosingMoves DEF Kept, IsWorth, IsActive
  <2> QED
    BY <2>2, <2>9, <2>11 DEF Kept
<1> QED
  BY <1>1, <1>2

LEMMA ExpireIfDueKeeps ==
  ASSUME NEW old, NEW c, Kept(old, c) PROVE Kept(old, ExpireIfDue(c))
BY CloseKeeps DEF ExpireIfDue, ClosingStatuses, ClosingReasons

LEMMA ApplyStopsKeeps ==
  ASSUME NEW old, NEW c, Kept(old, c) PROVE Kept(old, ApplyStops(c))
BY CloseKeeps DEF ApplyStops, ClosingStatuses, ClosingReasons

LEMMA SetAmountKeeps ==
  ASSUME NEW old, NEW c, Kept(old, c), NEW amount \in Nat \ {0}
  PROVE  Kept(old, SetAmount(c, amount))
<1>1. CASE ~IsActive(c)
  BY <1>1 DEF SetAmount
<1>2. CASE IsActive(c)
  <2> DEFINE changed == [c EXCEPT !.amount = amount]
  <2>1. SetAmount(c, amount) = changed
    BY <1>2 DEF SetAmount
  <2>2. /\ changed \in Case
        /\ changed.status = c.status /\ changed.log = c.log
        /\ changed.amount = amount
        /\ changed.end = c.end /\ changed.customer = c.customer
    BY DEF Kept, Case
  <2> HIDE DEF changed
  <2>3. LawfulAudit(changed)
    BY <2>2 DEF Kept, LawfulAudit
  <2>4. Moved(old, changed) /\ IsWorth(changed)
    BY <1>2, <2>2, ClosingMoves DEF Kept, IsWorth, IsActive
  <2> QED
    BY <2>1, <2>2, <2>3, <2>4 DEF Kept
<1> QED
  BY <1>1, <1>2

LEMMA NewCaseKeeps ==
  ASSUME NEW old, old.status = "NONE", NEW amount \in Nat \ {0}, NEW start \in Nat,
         NEW customer \in BOOLEAN, NEW trigger \in Triggers
  PROVE  Kept(old, NewCase(amount, start, customer, trigger))
<1>1. NewCase(amount, start, customer, trigger) \in Case
  BY NewCaseType
<1>2. LawfulAudit(NewCase(amount, start, customer, trigger))
  BY DEF LawfulAudit, NewCase
<1>3. /\ Moved(old, NewCase(amount, start, customer, trigger))
      /\ IsWorth(NewCase(amount, start, customer, trigger))
  BY DEF Moved, IsWorth, NewCase
<1> QED
  BY <1>1, <1>2, <1>3 DEF Kept

-------------------------------------------------------------------------------
(* What the operators return in a well-typed state.                        *)

LEMMA DueType == ASSUME TypeOK, NEW o \in Orders PROVE Due(o) \in Nat
BY ResourcesAssumption DEF TypeOK, ProviderOK, Due

LEMMA ReadOrderType ==
  ASSUME NEW s \in Reading PROVE ReadOrder(s) \in Orders \cup {NoOrder}
<1>1. s.event \in Event
  BY DEF Reading
<1> QED
  BY <1>1, ResourcesAssumption DEF Event, ReadOrder

LEMMA CorrelatedType ==
  ASSUME NEW s PROVE Correlated(s) \in CaseKeys \cup {NoKey}
BY DEF Correlated, Exists

LEMMA BusyReads ==
  ASSUME TypeOK, NEW w \in Workers, HasReadAll(w)
  PROVE  /\ reading[w] \in Reading
         /\ reading[w].event \in Event
         /\ reading[w].event.payment # NoPayment =>
              reading[w].payment \in PaymentStatuses
         /\ reading[w].event.link # NoLink => reading[w].link \in LinkStatuses
<1>1. reading[w] \in Reading \cup {NotReading} /\ reading[w].busy
  BY DEF TypeOK, HasReadAll
<1>2. reading[w] \in Reading
  BY <1>1 DEF NotReading
<1> QED
  BY <1>2 DEF HasReadAll, PaymentUnread, Reading

(* The parts of TypeOK a transaction of the handler changes.               *)
LEMMA FinishType ==
  ASSUME TypeOK, NEW w \in Workers, Finish(w)
  PROVE  /\ reading' \in [Workers -> Reading \cup {NotReading}]
         /\ UNCHANGED <<pay, paid, link, baseline, merchantActive, optedOut, clock,
                        requests>>
BY DEF Finish, TypeOK, provider, owner

LEMMA StoreType ==
  ASSUME TypeOK, NEW w \in Workers, HasReadAll(w),
         NEW linkCase \in CaseKeys \cup {NoKey},
         StoreResources(reading[w], linkCase)
  PROVE  LocalOK'
<1> DEFINE s == reading[w]  o == ReadOrder(s)
<1>1. /\ s \in Reading /\ s.event \in Event
      /\ s.event.payment # NoPayment => s.payment \in PaymentStatuses
      /\ s.event.link # NoLink => s.link \in LinkStatuses
  BY BusyReads
<1>2. o \in Orders \cup {NoOrder}
  BY <1>1, ReadOrderType
<1>3. localPayment' \in [Payments -> PaymentStatuses \cup {"unknown"}]
  BY <1>1 DEF StoreResources, StoredStatus, TypeOK, LocalOK, Event
<1>4. localOrder' \in [Orders -> [known : BOOLEAN, due : Nat, since : Nat,
                                 customer : BOOLEAN]]
  <2>1. CASE o = NoOrder
    BY <2>1 DEF StoreResources, TypeOK, LocalOK
  <2>2. CASE o # NoOrder
    <3> DEFINE since == IF localOrder[o].known THEN localOrder[o].since ELSE clock
    <3> DEFINE stored == [localOrder[o] EXCEPT !.known = TRUE, !.due = Due(o),
                                              !.since = since]
    <3>1. o \in Orders /\ Due(o) \in Nat /\ clock \in Nat
      BY <1>2, <2>2, DueType, TimesAssumption DEF TypeOK
    <3>2. stored \in [known : BOOLEAN, due : Nat, since : Nat, customer : BOOLEAN]
      BY <3>1 DEF TypeOK, LocalOK
    <3>3. localOrder' = [localOrder EXCEPT ![o] = stored]
      BY <2>2, <3>1 DEF StoreResources, TypeOK, LocalOK
    <3> HIDE DEF stored
    <3> QED
      BY <3>1, <3>2, <3>3 DEF TypeOK, LocalOK
  <2> QED
    BY <2>1, <2>2
<1>5. localLink' \in [Links -> [status : LinkStatuses \cup {"unknown"},
                               case : CaseKeys \cup {NoKey}]]
  BY <1>1 DEF StoreResources, TypeOK, LocalOK, Event
<1> QED
  BY <1>3, <1>4, <1>5 DEF LocalOK

-------------------------------------------------------------------------------
(* What a step does to all cases.                                          *)
CasesKept ==
  /\ cases' \in [CaseKeys -> Case]
  /\ \A k \in CaseKeys : Kept(cases[k], cases'[k])

CasesAreWorth == \A k \in CaseKeys : IsWorth(cases[k])

Inv == TypeOK /\ AuditIsLawful /\ CasesAreWorth

LEMMA KeptAsItIs ==
  ASSUME Inv, NEW k \in CaseKeys PROVE Kept(cases[k], cases[k])
BY DEF Inv, TypeOK, AuditIsLawful, CasesAreWorth, Kept, Moved

LEMMA UnchangedKeeps == ASSUME Inv, UNCHANGED cases PROVE CasesKept
BY KeptAsItIs DEF CasesKept, Inv, TypeOK

LEMMA CommitKeeps ==
  ASSUME Inv, NEW k \in CaseKeys \cup {NoKey}, NEW c,
         k # NoKey => Kept(cases[k], c), CommitCase(k, c)
  PROVE  CasesKept
<1>1. CASE k = NoKey
  BY <1>1, UnchangedKeeps DEF CommitCase
<1>2. CASE k # NoKey
  <2>1. k \in CaseKeys /\ cases' = [cases EXCEPT ![k] = ExpireIfDue(c)]
    BY <1>2 DEF CommitCase
  <2>2. Kept(cases[k], ExpireIfDue(c))
    BY <1>2, ExpireIfDueKeeps
  <2>3. ExpireIfDue(c) \in Case
    BY <2>2 DEF Kept
  <2>4. cases' \in [CaseKeys -> Case]
    BY <2>1, <2>3 DEF Inv, TypeOK
  <2>5. \A j \in CaseKeys : Kept(cases[j], cases'[j])
    BY <2>1, <2>2, KeptAsItIs DEF Inv, TypeOK
  <2> QED
    BY <2>4, <2>5 DEF CasesKept
<1> QED
  BY <1>1, <1>2

LEMMA GetOrCreateKeeps ==
  ASSUME Inv, NEW k \in CaseKeys, NEW new,
         cases[k].status = "NONE" => Kept(cases[k], new)
  PROVE  Kept(cases[k], GetOrCreate(k, new))
BY KeptAsItIs DEF GetOrCreate, Exists

(* expire_due_cases.                                                       *)
LEMMA ExpireDueKeeps ==
  ASSUME Inv, NEW k \in CaseKeys PROVE Kept(cases[k], ExpireDue[k])
BY KeptAsItIs, ExpireIfDueKeeps DEF ExpireDue

-------------------------------------------------------------------------------
(* One step.  First the provider and the reads, which leave the cases.     *)

LEMMA ProviderStep ==
  ASSUME Inv, Provider PROVE TypeOK' /\ UNCHANGED cases
<1> USE DEF Unhandled, local, owner
<1>0. UNCHANGED Unhandled
  BY DEF Provider, FailPayment, AuthorizePayment, CapturePayment, RefundPayment,
         CancelLink, ExpireLink
<1>1. ProviderOK /\ clock \in 0 .. MaxTime
  BY DEF Inv, TypeOK
<1>2. \A kind \in EventKinds, p \in Payments : PaymentEvent(kind, p) \in Event
  BY <1>1, ResourcesAssumption DEF PaymentEvent, Event
<1>3. \A kind \in EventKinds, l \in Links, p \in Payments \cup {NoPayment} :
        LinkEvent(kind, l, p) \in Event
  BY <1>1, ResourcesAssumption DEF LinkEvent, Event
<1>4. ProviderOK'
  <2>1. ASSUME NEW p \in Payments, FailPayment(p) PROVE ProviderOK'
    BY <1>1, <1>2, <2>1 DEF FailPayment, ProviderOK, EventKinds, PaymentStatuses
  <2>2. ASSUME NEW p \in Payments, AuthorizePayment(p) PROVE ProviderOK'
    BY <1>1, <1>2, <2>2 DEF AuthorizePayment, ProviderOK, EventKinds,
                            PaymentStatuses
  <2>3. ASSUME NEW p \in Payments, CapturePayment(p) PROVE ProviderOK'
    <3> DEFINE o == OrderOf[p]  l == ViaLink[p]
    <3>1. o \in Orders \cup {NoOrder} /\ l \in Links \cup {NoLink}
      BY ResourcesAssumption
    <3>2. pay' \in [Payments -> PaymentStatuses]
      BY <1>1, <2>3 DEF CapturePayment, ProviderOK, PaymentStatuses
    <3>3. paid' \in [Orders -> Nat] /\ \A q \in Orders : paid'[q] <= OrderAmount[q]
      <4>1. CASE o = NoOrder
        BY <1>1, <2>3, <4>1 DEF CapturePayment, ProviderOK
      <4>2. CASE o # NoOrder
        <5>1. /\ paid' = [paid EXCEPT ![o] = paid[o] + PaymentAmount[p]]
              /\ PaymentAmount[p] <= OrderAmount[o] - paid[o]
          BY <1>1, <2>3, <3>1, <4>2 DEF CapturePayment, Payable, Due, ProviderOK
        <5>2. /\ o \in Orders /\ paid[o] \in Nat
              /\ PaymentAmount[p] \in Nat /\ OrderAmount[o] \in Nat
          BY <1>1, <3>1, <4>2, ResourcesAssumption DEF ProviderOK
        <5> QED
          BY <1>1, <5>1, <5>2 DEF ProviderOK
      <4> QED
        BY <4>1, <4>2
    <3>4. link' \in [Links -> LinkStatuses]
      BY <1>1, <2>3, <3>1 DEF CapturePayment, ProviderOK, LinkStatuses
    <3>5. pending' \subseteq Event
      <4>1. /\ PaymentEvent("payment.captured", p) \in Event
            /\ l # NoLink => /\ LinkEvent("payment_link.paid", l, p) \in Event
                             /\ LinkEvent("payment_link.partially_paid", l, p)
                                  \in Event
        BY <1>2, <1>3, <3>1 DEF EventKinds
      <4> QED
        BY <1>1, <2>3, <4>1 DEF CapturePayment, ProviderOK
    <3> QED
      BY <3>2, <3>3, <3>4, <3>5 DEF ProviderOK
  <2>4. ASSUME NEW p \in Payments, RefundPayment(p) PROVE ProviderOK'
    BY <1>1, <2>4 DEF RefundPayment, ProviderOK, PaymentStatuses
  <2>5. ASSUME NEW l \in Links, CancelLink(l) PROVE ProviderOK'
    BY <1>1, <1>3, <2>5 DEF CancelLink, ProviderOK, EventKinds, LinkStatuses
  <2>6. ASSUME NEW l \in Links, ExpireLink(l) PROVE ProviderOK'
    BY <1>1, <1>3, <2>6 DEF ExpireLink, ProviderOK, EventKinds, LinkStatuses
  <2> QED
    BY <2>1, <2>2, <2>3, <2>4, <2>5, <2>6 DEF Provider
<1> QED
  BY <1>0, <1>4 DEF baseline, Inv, TypeOK, LocalOK

LEMMA BeginStep ==
  ASSUME Inv, NEW w \in Workers, NEW ev \in pending, BeginHandling(w, ev)
  PROVE  TypeOK' /\ UNCHANGED cases
<1> USE DEF provider, local, owner
<1>1. ev \in Event /\ ProviderOK
  BY DEF Inv, TypeOK, ProviderOK
<1> DEFINE paymentRead ==
             [busy |-> TRUE, event |-> ev, payment |-> pay[ev.payment],
              link |-> "unread", linkDue |-> 0]
           linkRead ==
             [busy |-> TRUE, event |-> ev, payment |-> "unread",
              link |-> link[ev.link], linkDue |-> Remaining(ev.link)]
<1>2. CASE ev.link = NoLink
  <2>1. ev.payment \in Payments
    BY <1>1, <1>2 DEF Event
  <2>2. paymentRead \in Reading
    BY <1>1, <1>2, <2>1 DEF Reading, ProviderOK
  <2> HIDE DEF paymentRead
  <2>3. reading' \in [Workers -> Reading \cup {NotReading}]
    BY <1>2, <2>2 DEF BeginHandling, Inv, TypeOK, paymentRead
  <2> QED
    BY <2>3 DEF baseline, BeginHandling, Inv, TypeOK, ProviderOK, LocalOK
<1>3. CASE ev.link # NoLink
  <2>1. ev.link \in Links /\ LinkOrder[ev.link] \in Orders
    BY <1>1, <1>3, ResourcesAssumption DEF Event
  <2>2. Remaining(ev.link) \in Nat
    BY <2>1, DueType DEF Remaining, Inv
  <2>3. link[ev.link] \in LinkStatuses
    BY <1>1, <2>1 DEF ProviderOK
  <2>4. linkRead \in Reading
    BY <1>1, <2>2, <2>3 DEF Reading, LinkStatuses
  <2> HIDE DEF linkRead
  <2>5. reading' \in [Workers -> Reading \cup {NotReading}]
    BY <1>3, <2>4 DEF BeginHandling, Inv, TypeOK, linkRead
  <2> QED
    BY <2>5 DEF baseline, BeginHandling, Inv, TypeOK, ProviderOK, LocalOK
<1> QED
  BY <1>2, <1>3

LEMMA ReadPaymentStep ==
  ASSUME Inv, NEW w \in Workers, ReadLinkPayment(w)
  PROVE  TypeOK' /\ UNCHANGED cases
<1> USE DEF provider, local, owner
<1> DEFINE s == reading[w]  p == s.event.payment
<1>1. s \in Reading
  BY DEF Inv, TypeOK, ReadLinkPayment, NotReading
<1>2. p \in Payments
  BY <1>1 DEF ReadLinkPayment, PaymentUnread, Reading, Event
<1>3. pay[p] \in PaymentStatuses
  BY <1>2 DEF Inv, TypeOK, ProviderOK
<1>4. [s EXCEPT !.payment = pay[p]] \in Reading
  BY <1>1, <1>3 DEF Reading
<1>5. reading' \in [Workers -> Reading \cup {NotReading}]
  BY <1>4 DEF ReadLinkPayment, Inv, TypeOK
<1> QED
  BY <1>5 DEF baseline, ReadLinkPayment, Inv, TypeOK, ProviderOK, LocalOK

-------------------------------------------------------------------------------
(* The transactions of the handler.                                        *)

LEMMA RaiseStep ==
  ASSUME Inv, NEW w \in Workers, HasReadAll(w), Raise(w)
  PROVE  TypeOK' /\ UNCHANGED cases
<1>1. reading[w].event \in Event
  BY BusyReads DEF Inv
<1>2. reading' \in [Workers -> Reading \cup {NotReading}]
  BY FinishType DEF Inv, Raise
<1> QED
  BY <1>1, <1>2 DEF baseline, Raise, Finish, provider, local, owner, Inv, TypeOK,
                    ProviderOK, LocalOK

LEMMA TransactionStep ==
  ASSUME Inv, NEW w \in Workers, NEW k \in CaseKeys \cup {NoKey}, NEW c,
         k # NoKey => Kept(cases[k], c), CommitCase(k, c),
         LocalOK', Finish(w), UNCHANGED pending
  PROVE  TypeOK' /\ CasesKept
<1>1. CasesKept
  BY CommitKeeps
<1>2. /\ reading' \in [Workers -> Reading \cup {NotReading}]
      /\ UNCHANGED <<pay, paid, link, baseline, merchantActive, optedOut,
                     clock, requests>>
  BY FinishType DEF Inv
<1>3. ProviderOK'
  BY <1>2 DEF Inv, TypeOK, ProviderOK
<1> QED
  BY <1>1, <1>2, <1>3 DEF baseline, Inv, TypeOK, CasesKept

LEMMA CorrelatedStep ==
  ASSUME Inv, NEW w \in Workers, HasReadAll(w), NEW c,
         Correlated(reading[w]) # NoKey => Kept(CorrelatedCase(w), c),
         CommitCorrelated(w, c)
  PROVE  TypeOK' /\ CasesKept
<1> DEFINE s == reading[w]
           linkCase == IF s.event.link = NoLink THEN NoKey
                                                ELSE localLink[s.event.link].case
<1>1. reading[w].event \in Event
  BY BusyReads DEF Inv
<1>2. linkCase \in CaseKeys \cup {NoKey}
  BY <1>1 DEF Event, Inv, TypeOK, LocalOK
<1>3. LocalOK'
  BY <1>2, StoreType DEF Inv, CommitCorrelated
<1> QED
  BY <1>3, CorrelatedType, TransactionStep DEF CommitCorrelated, CorrelatedCase

LEMMA CloseCorrelatedStep ==
  ASSUME Inv, NEW w \in Workers, HasReadAll(w), NEW target \in ClosingStatuses,
         NEW reason \in ClosingReasons,
         CommitCorrelated(w, Close(CorrelatedCase(w), target, reason))
  PROVE  TypeOK' /\ CasesKept
<1>1. Correlated(reading[w]) # NoKey =>
        Kept(CorrelatedCase(w), Close(CorrelatedCase(w), target, reason))
  BY CorrelatedType, KeptAsItIs, CloseKeeps DEF CorrelatedCase
<1> QED
  BY <1>1, CorrelatedStep

(* A case found or created, given an amount, and stopped where it must be. *)
LEMMA AtRiskKeeps ==
  ASSUME Inv, NEW k \in CaseKeys, NEW amount \in Nat \ {0}, NEW start \in Nat,
         NEW customer \in BOOLEAN, NEW trigger \in Triggers
  PROVE  Kept(cases[k],
              ApplyStops(SetAmount(
                GetOrCreate(k, NewCase(amount, start, customer, trigger)), amount)))
<1>1. Kept(cases[k], GetOrCreate(k, NewCase(amount, start, customer, trigger)))
  BY NewCaseKeeps, GetOrCreateKeeps
<1> QED
  BY <1>1, SetAmountKeeps, ApplyStopsKeeps

LEMMA PaymentAtRiskStep ==
  ASSUME Inv, NEW w \in Workers, PaymentAtRisk(w)
  PROVE  TypeOK' /\ CasesKept
<1> DEFINE s == reading[w]
           p == s.event.payment
           o == ReadOrder(s)
           amount == IF o # NoOrder /\ Due(o) < PaymentAmount[p]
                       THEN Due(o) ELSE PaymentAmount[p]
           customer == o # NoOrder /\ localOrder[o].customer
           k == IF Correlated(s) # NoKey THEN Correlated(s) ELSE <<"PAYMENT", p>>
           found == GetOrCreate(k, NewCase(amount, s.event.at, customer,
                                           "PAYMENT_FAILED"))
<1>1. HasReadAll(w) /\ IsPaymentEvent(w)
  BY DEF PaymentAtRisk, CanHandle
<1>2. s \in Reading /\ s.event \in Event
  BY <1>1, BusyReads DEF Inv
<1>3. p \in Payments
  BY <1>1, <1>2 DEF IsPaymentEvent, Event
<1>4. o \in Orders \cup {NoOrder}
  BY <1>2, ReadOrderType
<1>5. amount \in Nat \ {0}
  BY <1>3, <1>4, DueType, ResourcesAssumption DEF Inv, PaymentAtRisk, OrderIsPaid
<1>6. customer \in BOOLEAN
  OBVIOUS
<1>7. s.event.at \in Nat
  BY <1>2, TimesAssumption DEF Event
<1>8. k \in CaseKeys
  BY <1>3, CorrelatedType DEF CaseKeys
<1>9. "PAYMENT_FAILED" \in Triggers
  BY DEF Triggers
<1>10. /\ CommitCase(k, ApplyStops(SetAmount(found, amount)))
       /\ StoreResources(s, NoKey) /\ Finish(w) /\ UNCHANGED pending
  BY DEF PaymentAtRisk
<1>11. LocalOK'
  BY <1>1, <1>10, StoreType DEF Inv
<1> HIDE DEF s, amount, customer, k
<1>12. Kept(cases[k], ApplyStops(SetAmount(found, amount)))
  BY <1>5, <1>6, <1>7, <1>8, <1>9, AtRiskKeeps
<1> HIDE DEF found
<1> QED
  BY <1>8, <1>10, <1>11, <1>12, TransactionStep

LEMMA LinkAtRiskStep ==
  ASSUME Inv, NEW w \in Workers, LinkAtRisk(w)
  PROVE  TypeOK' /\ CasesKept
<1> DEFINE s == reading[w]
           o == ReadOrder(s)
           amount == s.linkDue
           customer == o # NoOrder /\ localOrder[o].customer
           k == <<"PAYMENT_LINK", s.event.link>>
           found == GetOrCreate(k, NewCase(amount, clock, customer,
                                           "UNPAID_PAYMENT_LINK"))
<1>1. HasReadAll(w) /\ ~IsPaymentEvent(w)
  BY DEF LinkAtRisk, CanHandle
<1>2. s \in Reading /\ s.event \in Event
  BY <1>1, BusyReads DEF Inv
<1>3. amount \in Nat \ {0}
  <2>1. s.linkDue > 0
    BY DEF LinkAtRisk, LinkNeedsCase
  <2>2. s.linkDue \in Nat
    BY <1>2 DEF Reading
  <2> QED
    BY <2>1, <2>2
<1>4. customer \in BOOLEAN
  OBVIOUS
<1>5. clock \in Nat
  BY TimesAssumption DEF Inv, TypeOK
<1>6. k \in CaseKeys
  BY <1>1, <1>2 DEF IsPaymentEvent, Event, CaseKeys
<1>7. "UNPAID_PAYMENT_LINK" \in Triggers
  BY DEF Triggers
<1>8. /\ CommitCase(k, ApplyStops(SetAmount(found, amount)))
      /\ StoreResources(s, k) /\ Finish(w) /\ UNCHANGED pending
  BY DEF LinkAtRisk
<1>9. LocalOK'
  BY <1>1, <1>6, <1>8, StoreType DEF Inv
<1> HIDE DEF s, amount, customer, k
<1>10. Kept(cases[k], ApplyStops(SetAmount(found, amount)))
  BY <1>3, <1>4, <1>5, <1>6, <1>7, AtRiskKeeps
<1> HIDE DEF found
<1> QED
  BY <1>6, <1>8, <1>9, <1>10, TransactionStep

LEMMA NoMerchantStep ==
  ASSUME Inv, NEW w \in Workers, NoMerchant(w)
  PROVE  TypeOK' /\ CasesKept
<1>1. LocalOK'
  BY DEF NoMerchant, local, Inv, TypeOK, LocalOK
<1>2. Correlated(reading[w]) # NoKey =>
        Kept(cases[Correlated(reading[w])], cases[Correlated(reading[w])])
  BY CorrelatedType, KeptAsItIs
<1> QED
  BY <1>1, <1>2, CorrelatedType, TransactionStep DEF NoMerchant

(* All that a worker may do.                                               *)
LEMMA HandleStep ==
  ASSUME Inv, NEW w \in Workers, HandleWebhook(w)
  PROVE  TypeOK' /\ CasesKept
<1>1. CASE \E ev \in pending : BeginHandling(w, ev)
  BY <1>1, BeginStep, UnchangedKeeps
<1>2. CASE ReadLinkPayment(w)
  BY <1>2, ReadPaymentStep, UnchangedKeeps
<1>4. CASE NoMerchant(w)
  BY <1>4, NoMerchantStep
<1>5. CASE PaymentCaptured(w)
  BY <1>5, CloseCorrelatedStep DEF PaymentCaptured, CanHandle, ClosingStatuses,
                                   ClosingReasons
<1>6. CASE NothingToDo(w)
  <2>1. Correlated(reading[w]) # NoKey => Kept(CorrelatedCase(w), CorrelatedCase(w))
    BY CorrelatedType, KeptAsItIs DEF CorrelatedCase
  <2> QED
    BY <1>6, <2>1, CorrelatedStep DEF NothingToDo, CanHandle
<1>7. CASE OrderAlreadyPaid(w)
  BY <1>7, CloseCorrelatedStep DEF OrderAlreadyPaid, CanHandle, ClosingStatuses,
                                   ClosingReasons
<1>8. CASE PaymentAtRisk(w)
  BY <1>8, PaymentAtRiskStep
<1>9. CASE LinkPaid(w)
  BY <1>9, CloseCorrelatedStep DEF LinkPaid, CanHandle, ClosingStatuses,
                                   ClosingReasons
<1>10. CASE RaiseUnproven(w)
  BY <1>10, RaiseStep, UnchangedKeeps DEF RaiseUnproven, CanHandle
<1>11. CASE LinkCancelled(w)
  BY <1>11, CloseCorrelatedStep DEF LinkCancelled, CanHandle, ClosingStatuses,
                                    ClosingReasons
<1>12. CASE LinkExpired(w)
  BY <1>12, CloseCorrelatedStep DEF LinkExpired, CanHandle, ClosingStatuses,
                                    ClosingReasons
<1>13. CASE LinkAtRisk(w)
  BY <1>13, LinkAtRiskStep
<1> QED
  BY <1>1, <1>2, <1>4, <1>5, <1>6, <1>7, <1>8, <1>9, <1>10, <1>11, <1>12,
     <1>13 DEF HandleWebhook

-------------------------------------------------------------------------------
(* The endpoints.                                                          *)

LEMMA ListStep ==
  ASSUME Inv, ListActiveCases PROVE TypeOK' /\ CasesKept
<1>1. CasesKept
  <2>1. \A k \in CaseKeys : Kept(cases[k], cases'[k])
    BY ExpireDueKeeps DEF ListActiveCases
  <2>2. \A k \in CaseKeys : cases'[k] \in Case
    BY <2>1 DEF Kept
  <2> QED
    BY <2>1, <2>2 DEF CasesKept, ListActiveCases, ExpireDue
<1> QED
  BY <1>1 DEF ListActiveCases, Undisturbed, provider, local, baseline, owner, Inv, TypeOK,
              ProviderOK, LocalOK, CasesKept

LEMMA ScanStep ==
  ASSUME Inv, ScanUnpaidOrders PROVE TypeOK' /\ CasesKept
<1>1. ASSUME NEW k \in CaseKeys PROVE Kept(cases[k], cases'[k])
  <2>1. CASE k[1] = "ORDER" /\ IsAbandoned(k[2])
    <3> DEFINE o == k[2]
               new == NewCase(localOrder[o].due, clock, localOrder[o].customer,
                              "UNPAID_ORDER_SCAN")
    <3>1. o \in Orders /\ k = <<"ORDER", o>>
      BY <2>1 DEF CaseKeys
    <3>2. /\ localOrder[o].due \in Nat \ {0} /\ localOrder[o].customer \in BOOLEAN
          /\ clock \in Nat
      BY <2>1, <3>1, TimesAssumption DEF Inv, TypeOK, LocalOK, IsAbandoned
    <3>3. "UNPAID_ORDER_SCAN" \in Triggers
      BY DEF Triggers
    <3>4. cases[k].status = "NONE" => Kept(cases[k], new)
      BY <3>2, <3>3, NewCaseKeeps
    <3> HIDE DEF new
    <3>5. Kept(cases[k], IF Exists(k) THEN ExpireDue[k] ELSE new)
      BY <3>4, ExpireDueKeeps DEF Exists
    <3>6. Kept(cases[k], ScannedCase(o))
      BY <3>1, <3>5, ApplyStopsKeeps DEF ScannedCase, new
    <3> QED
      BY <2>1, <3>6 DEF ScanUnpaidOrders
  <2>2. CASE ~(k[1] = "ORDER" /\ IsAbandoned(k[2]))
    BY <2>2, ExpireDueKeeps DEF ScanUnpaidOrders
  <2> QED
    BY <2>1, <2>2
<1>2. CasesKept
  <2>1. \A k \in CaseKeys : cases'[k] \in Case
    BY <1>1 DEF Kept
  <2> QED
    BY <1>1, <2>1 DEF CasesKept, ScanUnpaidOrders
<1> QED
  BY <1>2 DEF ScanUnpaidOrders, Undisturbed, provider, local, baseline, owner, Inv, TypeOK,
              ProviderOK, LocalOK, CasesKept

(* The requests leave the audit as it was, and only move active cases.     *)
LEMMA MoveKeeps ==
  ASSUME NEW c \in Case, LawfulAudit(c), IsWorth(c), NEW target \in CaseStatuses,
         <<c.status, target>> \in AllowedTransitions \cup BatchMoves
  PROVE  Kept(c, [c EXCEPT !.status = target])
<1> DEFINE moved == [c EXCEPT !.status = target]
<1>1. c.status \in ActiveStatuses
  BY DEF AllowedTransitions, WorkflowEdges, BatchMoves, EligibleStatuses,
         ActiveStatuses
<1>2. /\ moved \in Case
      /\ moved.log = c.log /\ moved.status = target
      /\ moved.amount = c.amount
      /\ moved.end = c.end /\ moved.customer = c.customer
  BY DEF Case
<1> HIDE DEF moved
<1>3. OnlyCreated(c)
  BY <1>1, ActiveIsOnlyCreated DEF IsActive
<1>4. LawfulAudit(moved)
  BY <1>2, <1>3 DEF LawfulAudit, OnlyCreated
<1>5. Moved(c, moved) /\ IsWorth(moved)
  BY <1>1, <1>2 DEF Moved, IsWorth, ActiveStatuses
<1>6. Kept(c, moved)
  BY <1>2, <1>4, <1>5 DEF Kept
<1> QED
  BY <1>6 DEF moved

(* A posted case has something at risk, and no audit.                      *)
LEMMA PostKeeps ==
  ASSUME NEW c, c.status = "NONE", NEW amount \in Nat \ {0}, NEW end \in Nat,
         NEW customer \in BOOLEAN
  PROVE  Kept(c, [status |-> "AT_RISK", amount |-> amount, end |-> end,
                  customer |-> customer, log |-> <<>>])
<1> DEFINE posted == [status |-> "AT_RISK", amount |-> amount, end |-> end,
                      customer |-> customer, log |-> <<>>]
<1>1. <<>> \in Seq(AuditEntry) /\ "AT_RISK" \in CaseStatuses
  BY DEF CaseStatuses, ActiveStatuses
<1>2. posted \in Case
  BY <1>1 DEF Case
<1>3. LawfulAudit(posted)
  BY DEF LawfulAudit
<1>4. Moved(c, posted) /\ IsWorth(posted)
  BY DEF Moved, IsWorth
<1> QED
  BY <1>2, <1>3, <1>4 DEF Kept

(* What is left to show of a request: its cases and the baseline.          *)
LEMMA RequestStep ==
  ASSUME Inv, Request, CasesKept, openActions' \subseteq assigned',
         assigned' \subseteq CaseKeys
  PROVE  TypeOK'
<1>1. requests' \in 0 .. MaxRequests
  BY TimesAssumption DEF Inv, TypeOK, Request
<1> QED
  BY <1>1 DEF Request, Undisturbed, provider, local, owner, Inv, TypeOK,
              ProviderOK, LocalOK, CasesKept

LEMMA OneCaseKeeps ==
  ASSUME Inv, NEW k \in CaseKeys, NEW c, Kept(cases[k], c),
         cases' = [cases EXCEPT ![k] = c]
  PROVE  CasesKept
<1>1. c \in Case
  BY DEF Kept
<1> QED
  BY <1>1, KeptAsItIs DEF CasesKept, Inv, TypeOK

LEMMA PostStep ==
  ASSUME Inv, NEW k \in CaseKeys, NEW amount \in PostedAmounts, NEW end \in PostedEnds,
         NEW customer \in BOOLEAN, NEW inExperiment \in BOOLEAN,
         PostCase(k, amount, end, customer, inExperiment)
  PROVE  TypeOK' /\ CasesKept
<1>1. cases[k].status = "NONE"
  BY DEF PostCase, Exists
<1>2. amount \in Nat \ {0} /\ end \in Nat
  BY TimesAssumption
<1>3. CasesKept
  BY <1>1, <1>2, PostKeeps, OneCaseKeeps DEF PostCase
<1> QED
  BY <1>3, RequestStep DEF PostCase, Inv, TypeOK

LEMMA PatchStep ==
  ASSUME Inv, NEW k \in CaseKeys, NEW target \in CaseStatuses,
         UpdateStatus(k, target)
  PROVE  TypeOK' /\ CasesKept
<1>1. Kept(cases[k], [cases[k] EXCEPT !.status = target])
  BY MoveKeeps DEF Inv, TypeOK, AuditIsLawful, CasesAreWorth, UpdateStatus,
                   ValidTransition
<1>2. CasesKept
  BY <1>1, OneCaseKeeps DEF UpdateStatus
<1> QED
  BY <1>2, RequestStep DEF UpdateStatus, baseline, Inv, TypeOK

LEMMA BatchStep ==
  ASSUME Inv, NEW treated \in SUBSET EligibleCases, RunBatch(treated)
  PROVE  TypeOK' /\ CasesKept
<1>1. ASSUME NEW k \in CaseKeys
      PROVE  Kept(cases[k], cases'[k])
  <2>1. CASE k \in treated
    <3>1. <<cases[k].status, "DECISION_READY">> \in BatchMoves
      BY <2>1 DEF EligibleCases, BatchMoves
    <3>2. "DECISION_READY" \in CaseStatuses
      BY DEF CaseStatuses, ActiveStatuses
    <3>3. Kept(cases[k], [cases[k] EXCEPT !.status = "DECISION_READY"])
      BY <3>1, <3>2, MoveKeeps DEF Inv, TypeOK, AuditIsLawful, CasesAreWorth
    <3> QED
      BY <2>1, <3>3 DEF RunBatch
  <2>2. CASE k \notin treated
    BY <2>2, KeptAsItIs DEF RunBatch
  <2> QED
    BY <2>1, <2>2
<1>2. CasesKept
  <2>1. \A k \in CaseKeys : cases'[k] \in Case
    BY <1>1 DEF Kept
  <2> QED
    BY <1>1, <2>1 DEF CasesKept, RunBatch
<1>3. openActions' \subseteq assigned' /\ assigned' \subseteq CaseKeys
  BY DEF RunBatch, EligibleCases, Inv, TypeOK
<1> QED
  BY <1>2, <1>3, RequestStep DEF RunBatch

LEMMA OutcomeStep ==
  ASSUME Inv, NEW k \in CaseKeys, RecordRecovered(k) \/ RecordNotRecovered(k)
  PROVE  TypeOK' /\ CasesKept
<1>1. openActions' \subseteq assigned' /\ assigned' \subseteq CaseKeys /\ Request
  BY DEF RecordRecovered, RecordNotRecovered, Inv, TypeOK
<1>2. CASE RecordNotRecovered(k)
  BY <1>1, <1>2, UnchangedKeeps, RequestStep DEF RecordNotRecovered
<1>3. CASE RecordRecovered(k)
  <2> DEFINE ended == [cases[k] EXCEPT !.status = "RECOVERED"]
  <2>1. CASE IsActive(cases[k])
    <3>1. <<cases[k].status, "RECOVERED">> \in AllowedTransitions
      BY <2>1 DEF IsActive, AllowedTransitions, ClosingStatuses
    <3>2. "RECOVERED" \in CaseStatuses
      BY DEF CaseStatuses, TerminalStatuses
    <3> QED
      BY <3>1, <3>2, MoveKeeps, <1>1, <1>3, OneCaseKeeps, RequestStep
         DEF RecordRecovered, Inv, TypeOK, AuditIsLawful, CasesAreWorth
  <2>2. CASE cases[k].status = "RECOVERED"
    <3>1. UNCHANGED cases
      BY <1>3, <2>2 DEF RecordRecovered, Inv, TypeOK, Case
    <3> QED
      BY <1>1, <3>1, UnchangedKeeps, RequestStep
  <2> QED
    BY <1>3, <2>1, <2>2 DEF RecordRecovered
<1> QED
  BY <1>2, <1>3

LEMMA SurroundingsStep ==
  ASSUME Inv, Surroundings PROVE TypeOK' /\ CasesKept
<1> USE DEF CloseMerchant, OptOut, Tick, provider, local, baseline, owner
<1>1. UNCHANGED <<cases, provider, pending, reading, local, baseline, requests>>
  BY DEF Surroundings
<1>2. ProviderOK' /\ LocalOK'
  BY <1>1 DEF Inv, TypeOK, ProviderOK, LocalOK
<1>3. clock' \in 0 .. MaxTime
  BY TimesAssumption DEF Surroundings, Inv, TypeOK
<1>4. merchantActive' \in BOOLEAN /\ optedOut' \in BOOLEAN
  <2>1. merchantActive \in BOOLEAN /\ optedOut \in BOOLEAN
    BY DEF Inv, TypeOK
  <2>2. /\ merchantActive' = merchantActive \/ merchantActive' = FALSE
        /\ optedOut' = optedOut \/ optedOut' = TRUE
    BY DEF Surroundings
  <2> QED
    BY <2>1, <2>2, Zenon
<1> QED
  BY <1>1, <1>2, <1>3, <1>4, UnchangedKeeps DEF Inv, TypeOK

-------------------------------------------------------------------------------

LEMMA InvInit == Init => Inv
<1> SUFFICES ASSUME Init PROVE Inv
  OBVIOUS
<1>1. NoCase \in Case
  <2>1. <<>> \in Seq(AuditEntry)
    OBVIOUS
  <2> QED
    BY <2>1 DEF NoCase, Case
<1>2. LawfulAudit(NoCase) /\ IsWorth(NoCase)
  BY DEF NoCase, LawfulAudit, IsWorth
<1>3. cases \in [CaseKeys -> Case] /\ AuditIsLawful /\ CasesAreWorth
  <2>1. \A k \in CaseKeys : /\ cases[k] \in Case
                             /\ LawfulAudit(cases[k]) /\ IsWorth(cases[k])
    BY <1>1, <1>2 DEF Init
  <2> QED
    BY <2>1 DEF Init, AuditIsLawful, CasesAreWorth
<1>4. ProviderOK
  BY ResourcesAssumption DEF Init, ProviderOK, PaymentStatuses, LinkStatuses
<1>5. LocalOK
  <2>1. localPayment \in [Payments -> PaymentStatuses \cup {"unknown"}]
    BY DEF Init, PaymentStatuses
  <2>2. localOrder \in [Orders -> [known : BOOLEAN, due : Nat, since : Nat,
                                  customer : BOOLEAN]]
    BY ResourcesAssumption DEF Init
  <2>3. localLink \in [Links -> [status : LinkStatuses \cup {"unknown"},
                                case : CaseKeys \cup {NoKey}]]
    BY ResourcesAssumption DEF Init, LinkStatuses, CaseKeys
  <2> QED
    BY <2>1, <2>2, <2>3 DEF LocalOK
<1>6. reading \in [Workers -> Reading \cup {NotReading}]
  BY DEF Init
<1>7. merchantActive \in BOOLEAN /\ optedOut \in BOOLEAN
  BY Zenon DEF Init
<1>8. /\ clock \in 0 .. MaxTime /\ requests \in 0 .. MaxRequests
      /\ openActions \subseteq assigned /\ assigned \subseteq CaseKeys
  BY TimesAssumption DEF Init
<1> QED
  BY <1>3, <1>4, <1>5, <1>6, <1>7, <1>8 DEF Inv, TypeOK

LEMMA NextKeeps == ASSUME Inv, [Next]_vars PROVE TypeOK' /\ CasesKept
<1>1. CASE Provider
  BY <1>1, ProviderStep, UnchangedKeeps
<1>2. CASE Surroundings
  BY <1>2, SurroundingsStep
<1>3. CASE \E w \in Workers : HandleWebhook(w)
  BY <1>3, HandleStep
<1>4. CASE Endpoints
  BY <1>4, ListStep, ScanStep, PostStep, PatchStep, BatchStep, OutcomeStep
     DEF Endpoints
<1>5. CASE UNCHANGED vars
  <2>1. TypeOK' /\ UNCHANGED cases
    BY <1>5 DEF vars, provider, local, baseline, owner, Inv, TypeOK, ProviderOK, LocalOK
  <2> QED
    BY <2>1, UnchangedKeeps
<1> QED
  BY <1>1, <1>2, <1>3, <1>4, <1>5 DEF Next

LEMMA InvHolds == Spec => []Inv
<1>1. Inv /\ [Next]_vars => Inv'
  BY NextKeeps DEF Inv, CasesKept, Kept, AuditIsLawful, CasesAreWorth
<1> QED
  BY <1>1, InvInit, PTL DEF Spec

(* Every value in the provider, the handlers and the database keeps its    *)
(* type: the engine never computes a negative amount, stores a resource it *)
(* has not read, or writes a case outside the lifecycle.                   *)
THEOREM TypeCorrect == Spec => []TypeOK
BY InvHolds, PTL DEF Inv

(* AuditIsLawful: engine.py writes into the audit of a case -- the engine's*)
(* own, or one that POST /api/cases or the seed inserted without a row --  *)
(* at most its creation and then at most one closing, which tells the      *)
(* status for good, whatever PATCH, the baseline and racing processes do.  *)
THEOREM AuditIsLawfulHolds == Spec => []AuditIsLawful
BY InvHolds, PTL DEF Inv

(* Each case makes a step of the register or none.                         *)
LEMMA KeptIsRegisterStep ==
  ASSUME Inv, TypeOK', CasesKept PROVE Register!Next
<1> DEFINE entry == [k \in CaseKeys |-> EntryOf(cases[k])]
<1>1. ASSUME NEW k \in CaseKeys
      PROVE  /\ EntryOf(cases'[k]) \in Register!Entry \cup {Register!Absent}
             /\ \/ EntryOf(cases'[k]) = EntryOf(cases[k])
                \/ /\ EntryOf(cases[k]) = Register!Absent
                   /\ EntryOf(cases'[k]).status \in {"AT_RISK"} \cup ClosingStatuses
                \/ /\ EntryOf(cases[k]).status \in ActiveStatuses
                   /\ \/ EntryOf(cases'[k]).status = EntryOf(cases[k]).status
                      \/ <<EntryOf(cases[k]).status, EntryOf(cases'[k]).status>>
                           \in AllowedTransitions \cup BatchMoves
                   /\ EntryOf(cases'[k]).end = EntryOf(cases[k]).end
                   /\ EntryOf(cases'[k]).customer = EntryOf(cases[k]).customer
  <2> DEFINE old == cases[k]
             new == cases'[k]
  <2>1. Kept(old, new) /\ old \in Case /\ new \in Case
    BY <1>1 DEF CasesKept, Inv, TypeOK
  <2> HIDE DEF old, new
  <2>2. EntryOf(new) \in Register!Entry \cup {Register!Absent}
    <3>1. Register!CaseStatuses = CaseStatuses
      BY DEF Register!CaseStatuses, Register!ActiveStatuses,
             Register!TerminalStatuses, CaseStatuses, ActiveStatuses,
             TerminalStatuses
    <3> QED
      BY <2>1, <3>1 DEF Kept, IsWorth, Case, EntryOf, Register!Entry,
                        Register!Absent
  <2>3. CASE new = old
    BY <2>2, <2>3 DEF old, new
  <2>4. CASE old.status = "NONE" /\ new.status \in {"AT_RISK"} \cup ClosingStatuses
    <3>1. EntryOf(old) = Register!Absent
      BY <2>4 DEF EntryOf, Register!Absent
    <3>2. EntryOf(new).status = new.status
      BY DEF EntryOf
    <3> QED
      BY <2>2, <2>4, <3>1, <3>2 DEF old, new
  <2>5. CASE /\ old.status \in ActiveStatuses
             /\ \/ new.status = old.status
                \/ <<old.status, new.status>> \in AllowedTransitions \cup BatchMoves
             /\ new.end = old.end /\ new.customer = old.customer
    <3>1. old.status # "NONE" /\ new.status # "NONE"
      BY <2>5 DEF AllowedTransitions, WorkflowEdges, BatchMoves, ActiveStatuses,
                  ClosingStatuses
    <3>2. /\ EntryOf(old).status = old.status /\ EntryOf(new).status = new.status
          /\ EntryOf(old).end = old.end /\ EntryOf(new).end = new.end
          /\ EntryOf(old).customer = old.customer
          /\ EntryOf(new).customer = new.customer
      BY <3>1 DEF EntryOf
    <3> QED
      BY <2>2, <2>5, <3>2 DEF old, new
  <2> QED
    BY <2>1, <2>3, <2>4, <2>5 DEF Kept, Moved
<1>2. [k \in CaseKeys |-> EntryOf(cases'[k])]
        \in [CaseKeys -> Register!Entry \cup {Register!Absent}]
  BY <1>1
<1> QED
  BY <1>1, <1>2 DEF Register!Next, Register!Open, Register!Carry,
                    Register!ActiveStatuses, Register!ClosingStatuses,
                    Register!AllowedTransitions, Register!WorkflowEdges,
                    Register!BatchMoves, Register!EligibleStatuses,
                    ActiveStatuses, ClosingStatuses, AllowedTransitions,
                    WorkflowEdges, BatchMoves, EligibleStatuses

(* docs/recovery-cases.md:30-48: whatever anyone does, in any order of     *)
(* events, every case goes its way through the register: opened once, moved*)
(* by allowed transitions, and nothing after its end.                      *)
THEOREM ImplementsRegisterHolds == Spec => ImplementsRegister
<1>1. Init => Register!Init
  BY DEF Init, Register!Init, Register!Absent, EntryOf, NoCase
<1>2. Inv /\ [Next]_vars => [Register!Next]_[k \in CaseKeys |-> EntryOf(cases[k])]
  BY NextKeeps, KeptIsRegisterStep
<1> QED
  BY <1>1, <1>2, InvHolds, PTL DEF Spec, ImplementsRegister, Register!Spec
===============================================================================

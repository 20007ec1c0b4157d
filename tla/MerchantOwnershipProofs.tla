------------------------ MODULE MerchantOwnershipProofs ------------------------
(***************************************************************************)
(* OwnersAgree and CasesFollowOwners for any merchants, accounts and       *)
(* resources.  The argument: a webhook that is handled at all is handled   *)
(* for the owner of every row it reads, so whatever it stores or writes    *)
(* gets the merchant that the rows beside it have already.                 *)
(***************************************************************************)
EXTENDS MerchantOwnership, TLAPS

Webhooks == PaymentWebhooks \cup LinkWebhooks

OwnerOK == owner \in [Sources -> Merchants \cup {NoMerchant}]

CaseOK ==
  /\ status \in [CaseKeys -> {"none", "live", "ended"}]
  /\ writer \in [CaseKeys -> Merchants \cup {NoMerchant}]

(* A link is bound only to its own case, and only the cases that are there *)
(* have a writer.                                                          *)
LinkedIsOwn ==
  /\ linked \in [Links -> CaseKeys \cup {NoCase}]
  /\ \A l \in Links : linked[l] # NoCase =>
       linked[l][2] = l /\ status[linked[l]] # "none"

WritersExist == \A k \in CaseKeys : status[k] = "none" => writer[k] = NoMerchant

Inv ==
  /\ OwnerOK /\ CaseOK /\ LinkedIsOwn /\ WritersExist
  /\ OwnersAgree /\ CasesFollowOwners

(* What a webhook reads: sources, and with a payment always its order.     *)
LEMMA WebhookReads ==
  ASSUME NEW e \in Webhooks
  PROVE  /\ Resources(e) \subseteq Sources /\ e.about \in Resources(e)
         /\ e.about \in Sources
         /\ \A p \in Payments \cap Resources(e) :
              OrderOf[p] # NoOrder => OrderOf[p] \in Resources(e)
<1>1. CASE e \in PaymentWebhooks
  <2>1. PICK p \in Payments : e = [about |-> p, others |-> OrderIn(p)]
    BY <1>1 DEF PaymentWebhooks
  <2>2. Resources(e) = {p} \cup OrderIn(p) /\ e.about = p
    BY <2>1 DEF Resources
  <2> QED
    BY <2>2, ProviderAssumption DEF OrderIn, Sources
<1>2. CASE e \in LinkWebhooks
  <2>1. PICK l \in Links :
          \/ e = [about |-> l, others |-> {}]
          \/ e = [about |-> l, others |-> {LinkOrder[l]}]
          \/ \E p \in Payments : /\ OrderOf[p] = LinkOrder[l]
                                 /\ e = [about |-> l, others |-> {p, LinkOrder[l]}]
    BY <1>2 DEF LinkWebhooks
  <2>2. /\ e.about = l
        /\ \/ Resources(e) \subseteq {l, LinkOrder[l]} /\ l \in Resources(e)
           \/ \E p \in Payments : /\ OrderOf[p] = LinkOrder[l]
                                  /\ Resources(e) = {l, p, LinkOrder[l]}
    BY <2>1 DEF Resources
  <2> QED
    BY <2>2, ProviderAssumption DEF Sources
<1> QED
  BY <1>1, <1>2 DEF Webhooks

(* Handled at all, a webhook is handled for the owner of every row it      *)
(* reads, and afterwards that merchant owns all of them.                   *)
LEMMA HandledForOwner ==
  ASSUME OwnerOK, NEW e \in Webhooks, NEW a, ~Conflict(e, a),
         NEW m \in Resolved(e, a)
  PROVE  /\ m \in Merchants
         /\ \A x \in Resources(e) : owner[x] \in {m, NoMerchant}
         /\ \A x \in Resources(e) : Stored(e, m)[x] = m
         /\ \A x \in Sources : owner[x] # NoMerchant => Stored(e, m)[x] = owner[x]
         /\ \A x \in Sources \ Resources(e) : Stored(e, m)[x] = owner[x]
         /\ Stored(e, m) \in [Sources -> Merchants \cup {NoMerchant}]
<1>1. Resources(e) \subseteq Sources
  BY WebhookReads
<1>2. m \in Merchants
  BY <1>1 DEF Resolved, AccountMerchant, LocalOwners, OwnerOK
<1>3. \A x \in Resources(e) : owner[x] \in {m, NoMerchant}
  BY DEF Conflict, Resolved, LocalOwners
<1> QED
  BY <1>1, <1>2, <1>3, RowsAssumption DEF Stored, OwnerOK

(* A correlated case is there, and belongs to that merchant unless it was  *)
(* posted.                                                                 *)
LEMMA CorrelatedIsOwned ==
  ASSUME Inv, NEW e \in Webhooks, NEW a, ~Conflict(e, a),
         NEW m \in Resolved(e, a), NEW k \in Correlated(e)
  PROVE  /\ k \in CaseKeys /\ status[k] # "none"
         /\ k \in posted \/ (k[1] = m /\ k[2] \in Resources(e))
<1>1. Resources(e) \subseteq Sources /\ e.about \in Resources(e)
  BY WebhookReads
<1>2. \E x \in Resources(e) : k \in CaseKeys /\ k[2] = x /\ status[k] # "none"
  <2>1. CASE e.about \in Links /\ k \in {linked[e.about]} \ {NoCase}
    BY <1>1, <2>1 DEF Inv, LinkedIsOwn
  <2>2. CASE \E x \in Resources(e) : k \in CasesOf(x)
    BY <2>2 DEF CasesOf
  <2>3. \/ e.about \in Links /\ k \in {linked[e.about]} \ {NoCase}
        \/ k \in CasesOf(e.about)
        \/ \E x \in e.others : k \in CasesOf(x)
    BY DEF Correlated, FirstOf, CasesIn
  <2> QED
    BY <1>1, <2>1, <2>2, <2>3 DEF Resources
<1>3. k \notin posted => owner[k[2]] = k[1]
  BY <1>2 DEF Inv, CasesFollowOwners
<1>4. owner[k[2]] \in {m, NoMerchant}
  BY <1>2, HandledForOwner DEF Inv
<1>5. k[1] \in Merchants
  BY <1>2 DEF CaseKeys
<1> QED
  BY <1>2, <1>3, <1>4, <1>5, RowsAssumption

(* What a webhook does to cases, whichever branch it takes: at most one is *)
(* written, it belongs to its merchant or was posted, and is there then.   *)
Written(e, m, k) ==
  /\ k \in CaseKeys
  /\ status'[k] \in {"live", "ended"}
  /\ writer'[k] \in {writer[k], m}
  /\ k \in posted \/ (k[1] = m /\ k[2] \in Resources(e))
  /\ status' = [status EXCEPT ![k] = status'[k]]
  /\ writer' = [writer EXCEPT ![k] = writer'[k]]

LEMMA WriteIsOne ==
  ASSUME Inv, NEW e \in Webhooks, NEW m \in Merchants, NEW k \in CaseKeys,
         k \in posted \/ (k[1] = m /\ k[2] \in Resources(e)), Write(k, m)
  PROVE  Written(e, m, k)
BY DEF Written, Write, Inv, CaseOK

LEMMA OneWrittenKeeps ==
  ASSUME Inv, NEW e \in Webhooks, NEW a, ~Conflict(e, a),
         NEW m \in Resolved(e, a), owner' = Stored(e, m), posted' = posted,
         NEW k, Written(e, m, k)
  PROVE  CaseOK' /\ WritersExist' /\ CasesFollowOwners'
<1>1. m \in Merchants /\ Resources(e) \subseteq Sources
  BY HandledForOwner, WebhookReads DEF Inv
<1>2. CaseOK'
  BY <1>1 DEF Written, Inv, CaseOK
<1>3. \A c \in CaseKeys \ {k} : status'[c] = status[c] /\ writer'[c] = writer[c]
  BY DEF Written, Inv, CaseOK
<1>4. WritersExist'
  BY <1>3 DEF WritersExist, Written, Inv
<1>5. ASSUME NEW c \in CaseKeys \ posted, status'[c] # "none"
      PROVE  owner'[c[2]] = c[1] /\ writer'[c] \in {c[1], NoMerchant}
  <2>1. CASE c = k
    <3>1. c[1] = m /\ c[2] \in Resources(e)
      BY <1>5, <2>1 DEF Written
    <3>2. owner'[c[2]] = c[1]
      BY <3>1, HandledForOwner DEF Inv
    <3>3. writer[c] \in {c[1], NoMerchant}
      BY <1>5 DEF Inv, CasesFollowOwners, WritersExist
    <3> QED
      BY <2>1, <3>1, <3>2, <3>3 DEF Written
  <2>2. CASE c # k
    <3>1. status[c] # "none" /\ writer'[c] = writer[c]
      BY <1>3, <1>5, <2>2
    <3>2. owner[c[2]] = c[1] /\ writer[c] \in {c[1], NoMerchant}
      BY <1>5, <3>1 DEF Inv, CasesFollowOwners
    <3>3. c[1] \in Merchants /\ c[2] \in Sources
      BY <1>5 DEF CaseKeys
    <3> QED
      BY <3>1, <3>2, <3>3, HandledForOwner, RowsAssumption DEF Inv
  <2> QED
    BY <2>1, <2>2
<1> QED
  BY <1>2, <1>4, <1>5 DEF CasesFollowOwners

(* Storing rows keeps a payment and its order together.                    *)
LEMMA StoredAgree ==
  ASSUME Inv, NEW e \in Webhooks, NEW a, ~Conflict(e, a),
         NEW m \in Resolved(e, a), owner' = Stored(e, m)
  PROVE  OwnerOK' /\ OwnersAgree'
<1>1. OwnerOK'
  BY HandledForOwner DEF OwnerOK, Inv
<1>2. ASSUME NEW p \in Payments, owner'[p] # NoMerchant, OrderOf[p] # NoOrder
      PROVE  owner'[OrderOf[p]] = owner'[p]
  <2>1. p \in Sources /\ OrderOf[p] \in Sources
    BY <1>2, ProviderAssumption DEF Sources
  <2>2. CASE p \in Resources(e)
    BY <1>2, <2>2, HandledForOwner, WebhookReads DEF Inv
  <2>3. CASE p \notin Resources(e)
    <3>1. owner'[p] = owner[p]
      BY <2>1, <2>3, HandledForOwner DEF Inv
    <3>2. owner[OrderOf[p]] = owner[p]
      BY <1>2, <3>1 DEF Inv, OwnersAgree
    <3> QED
      BY <1>2, <2>1, <3>1, <3>2, HandledForOwner DEF Inv
  <2> QED
    BY <2>2, <2>3
<1> QED
  BY <1>1, <1>2 DEF OwnersAgree

LEMMA HandleStep ==
  ASSUME Inv, NEW e \in Webhooks, NEW a, HandleWebhook(e, a)
  PROVE  Inv'
<1>1. ~Conflict(e, a) /\ posted' = posted
  BY DEF HandleWebhook
<1>2. PICK m \in Resolved(e, a) :
        /\ owner' = Stored(e, m)
        /\ \/ Settle(e, m)
           \/ PutPaymentAtRisk(e, m)
           \/ PutLinkAtRisk(e, m)
           \/ UNCHANGED <<linked, status, writer>>
  BY DEF HandleWebhook
<1>3. m \in Merchants /\ Resources(e) \subseteq Sources
      /\ e.about \in Resources(e)
  BY <1>1, HandledForOwner, WebhookReads DEF Inv
<1>4. OwnerOK' /\ OwnersAgree'
  BY <1>1, <1>2, StoredAgree
<1>5. ASSUME NEW k, Written(e, m, k)
      PROVE  CaseOK' /\ WritersExist' /\ CasesFollowOwners'
             /\ status'[k] # "none"
             /\ \A c \in CaseKeys : status[c] # "none" => status'[c] # "none"
  <2>1. status'[k] # "none" /\ k \in CaseKeys
    BY <1>5 DEF Written
  <2>2. \A c \in CaseKeys \ {k} : status'[c] = status[c]
    BY <1>5 DEF Written, Inv, CaseOK
  <2> QED
    BY <1>1, <1>2, <1>5, <2>1, <2>2, OneWrittenKeeps
<1>6. CASE Settle(e, m)
  <2>1. PICK k \in Correlated(e) :
          /\ status' = [status EXCEPT ![k] = "ended"]
          /\ writer' = IF status[k] = "live" THEN [writer EXCEPT ![k] = m] ELSE writer
    BY <1>6 DEF Settle
  <2>2. k \in CaseKeys /\ (k \in posted \/ (k[1] = m /\ k[2] \in Resources(e)))
    BY <1>1, CorrelatedIsOwned
  <2>3. Written(e, m, k)
    BY <1>3, <2>1, <2>2 DEF Written, Inv, CaseOK
  <2> QED
    BY <1>4, <1>5, <1>6, <2>3 DEF Settle, Inv, LinkedIsOwn
<1>7. CASE PutPaymentAtRisk(e, m)
  <2>1. PICK k \in FirstOf(Correlated(e), {<<m, e.about>>}) : Write(k, m)
    BY <1>7 DEF PutPaymentAtRisk
  <2>2. k \in CaseKeys /\ (k \in posted \/ (k[1] = m /\ k[2] \in Resources(e)))
    BY <1>1, <1>3, CorrelatedIsOwned DEF FirstOf, CaseKeys
  <2>3. Written(e, m, k)
    BY <1>3, <2>1, <2>2, WriteIsOne
  <2> QED
    BY <1>4, <1>5, <1>7, <2>3 DEF PutPaymentAtRisk, Inv, LinkedIsOwn
<1>8. CASE PutLinkAtRisk(e, m)
  <2> DEFINE k == <<m, e.about>>
  <2>1. k \in CaseKeys /\ k[1] = m /\ k[2] = e.about
    BY <1>3 DEF CaseKeys
  <2>2. Written(e, m, k)
    BY <1>3, <1>8, <2>1, WriteIsOne DEF PutLinkAtRisk
  <2>3. linked' = [linked EXCEPT ![e.about] = k]
    BY <1>8 DEF PutLinkAtRisk
  <2> HIDE DEF k
  <2>4. LinkedIsOwn'
    BY <1>5, <2>1, <2>2, <2>3 DEF Inv, LinkedIsOwn
  <2> QED
    BY <1>4, <1>5, <2>2, <2>4 DEF Inv
<1>9. CASE UNCHANGED <<linked, status, writer>>
  <2>1. CaseOK' /\ WritersExist' /\ LinkedIsOwn'
    BY <1>9 DEF Inv, CaseOK, WritersExist, LinkedIsOwn
  <2>2. CasesFollowOwners'
    <3> SUFFICES ASSUME NEW c \in CaseKeys \ posted, status[c] # "none"
                 PROVE  owner'[c[2]] = c[1] /\ writer[c] \in {c[1], NoMerchant}
      BY <1>1, <1>9 DEF CasesFollowOwners
    <3>1. owner[c[2]] = c[1] /\ writer[c] \in {c[1], NoMerchant}
      BY DEF Inv, CasesFollowOwners
    <3>2. c[1] \in Merchants /\ c[2] \in Sources
      BY DEF CaseKeys
    <3> QED
      BY <1>1, <1>2, <3>1, <3>2, HandledForOwner, RowsAssumption DEF Inv
  <2> QED
    BY <1>4, <2>1, <2>2 DEF Inv
<1> QED
  BY <1>2, <1>6, <1>7, <1>8, <1>9

(* The steps of others.                                                    *)
LEMMA OtherSteps ==
  ASSUME Inv, \/ \E m \in Merchants, a \in Accounts : MapAccount(m, a)
              \/ \E m \in Merchants, x \in Sources : PostCase(m, x)
              \/ \E k \in CaseKeys : EndCase(k)
              \/ \E o \in Orders : ScanOrder(o)
  PROVE  Inv'
<1>1. CASE \E m \in Merchants, a \in Accounts : MapAccount(m, a)
  BY <1>1 DEF MapAccount, Inv, OwnerOK, CaseOK, LinkedIsOwn, WritersExist,
              OwnersAgree, CasesFollowOwners
<1>2. CASE \E m \in Merchants, x \in Sources : PostCase(m, x)
  <2>1. PICK m \in Merchants, x \in Sources : PostCase(m, x)
    BY <1>2
  <2>2. <<m, x>> \in CaseKeys
    BY DEF CaseKeys
  <2> QED
    BY <2>1, <2>2 DEF PostCase, Inv, OwnerOK, CaseOK, LinkedIsOwn, WritersExist,
                      OwnersAgree, CasesFollowOwners
<1>3. CASE \E k \in CaseKeys : EndCase(k)
  BY <1>3 DEF EndCase, Inv, OwnerOK, CaseOK, LinkedIsOwn, WritersExist,
              OwnersAgree, CasesFollowOwners
<1>4. CASE \E o \in Orders : ScanOrder(o)
  <2>1. PICK o \in Orders : ScanOrder(o)
    BY <1>4
  <2>2. <<owner[o], o>> \in CaseKeys
    BY <2>1 DEF ScanOrder, Inv, OwnerOK, CaseKeys, Sources
  <2> QED
    BY <2>1, <2>2 DEF ScanOrder, Inv, OwnerOK, CaseOK, LinkedIsOwn, WritersExist,
                      OwnersAgree, CasesFollowOwners
<1> QED
  BY <1>1, <1>2, <1>3, <1>4

LEMMA InvHolds == Spec => []Inv
<1>1. Init => Inv
  BY RowsAssumption, ProviderAssumption
     DEF Init, Inv, OwnerOK, CaseOK, LinkedIsOwn, WritersExist, OwnersAgree,
         CasesFollowOwners, Sources
<1>2. Inv /\ [Next]_vars => Inv'
  <2>1. ASSUME Inv, UNCHANGED vars PROVE Inv'
    BY <2>1 DEF vars, Inv, OwnerOK, CaseOK, LinkedIsOwn, WritersExist,
                OwnersAgree, CasesFollowOwners
  <2> QED
    BY <2>1, HandleStep, OtherSteps DEF Next, Webhooks
<1> QED
  BY <1>1, <1>2, PTL DEF Spec

(* docs/recovery-cases.md:30 -- a payment and its order never belong to    *)
(* two merchants, for any number of merchants, accounts and resources.     *)
THEOREM OwnersAgreeHolds == Spec => []OwnersAgree
BY InvHolds, PTL DEF Inv

(* docs/recovery-cases.md:31 -- no case of another merchant is made or     *)
(* written by a webhook, unless it was posted.                             *)
THEOREM CasesFollowOwnersHolds == Spec => []CasesFollowOwners
BY InvHolds, PTL DEF Inv
=============================================================================

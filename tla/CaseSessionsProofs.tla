--------------------------- MODULE CaseSessionsProofs ---------------------------
(***************************************************************************)
(* The safety of CaseSessions for any cases, experiments, payments and     *)
(* number of sessions.                                                     *)
(***************************************************************************)
EXTENDS CaseSessions, FiniteSetTheorems, TLAPS

-------------------------------------------------------------------------------
(* The invariant *)

(* Why a session may write what it is about to write: the guard it passed  *)
(* when it loaded the copies.                                              *)
Ground(r) ==
  /\ r.kind = "transition" => \A k \in DOMAIN r.copy : MayMove(r.copy[k], r.target)
  /\ r.kind = "expire" => \A k \in DOMAIN r.copy : IsActive(r.copy[k])
  /\ r.kind = "batch" => \A k \in DOMAIN r.copy : IsEligible(r.copy[k])
  /\ r.kind = "outcome" =>
       /\ r.action \in actions /\ DOMAIN r.copy = {r.action[2]}
       /\ r.result.outcome = "RECOVERED" => MayRecover(r.copy[r.action[2]])

Grounded == \A s \in Sessions : Ground(session[s])

(* Copies are of cases that are there, and a case copied as recovered is   *)
(* recovered for good.                                                     *)
CopiesHold ==
  \A s \in Sessions : \A k \in DOMAIN session[s].copy :
    /\ Exists(k)
    /\ session[s].copy[k].status = "RECOVERED" /\ k \notin stale =>
         cases[k].status = "RECOVERED"

(* Assignments are those of experiments that have run, actions those of    *)
(* treated cases, outcomes those of actions.                               *)
TablesAgree ==
  /\ \A x \in Experiments : share[x] = -1 => \A k \in Cases : assigned[x][k] = NoGroup
  /\ \A x \in Experiments, k \in Cases : assigned[x][k] # NoGroup => Exists(k)
  /\ \A x \in Experiments, k \in Cases :
       <<x, k>> \in actions => assigned[x][k] = "TREATMENT"
  /\ \A a \in Action : outcomes[a] # NoOutcome => a \in actions

Inv ==
  /\ TypeOK /\ Grounded /\ CopiesHold /\ TablesAgree
  /\ AssignmentStands /\ BothGroupsPopulated /\ RecoveredOutcomeHolds

-------------------------------------------------------------------------------
(* What a session holds *)

TransitionRequests(ks) ==
  [kind : {"transition"}, copy : [ks -> Row], target : CaseStatuses]

BulkRequests(ks) == [kind : {"expire", "batch"}, copy : [ks -> Row]]

OutcomeRequests(ks) ==
  [kind : {"outcome"}, copy : [ks -> Row], action : Action,
   result : [outcome : Outcomes, payment : Payments \cup {NoPayment}]]

LEMMA RequestCases ==
  ASSUME NEW r
  PROVE  r \in Request <=>
           \/ r = Idle
           \/ \E k \in Cases : r \in TransitionRequests({k}) \cup OutcomeRequests({k})
           \/ \E ks \in SUBSET Cases : r \in BulkRequests(ks)
<1> DEFINE One == UNION {[{k} -> Row] : k \in Cases}
           Many == UNION {[ks -> Row] : ks \in SUBSET Cases}
           T == [kind : {"transition"}, copy : One, target : CaseStatuses]
           B == [kind : {"expire", "batch"}, copy : Many]
           O == [kind : {"outcome"}, copy : One, action : Action,
                 result : [outcome : Outcomes, payment : Payments \cup {NoPayment}]]
<1>1. r \in Request <=> r = Idle \/ r \in T \/ r \in B \/ r \in O
  BY DEF Request
<1>2. r \in T <=> \E k \in Cases : r \in TransitionRequests({k})
  BY DEF TransitionRequests
<1>3. r \in B <=> \E ks \in SUBSET Cases : r \in BulkRequests(ks)
  BY DEF BulkRequests
<1>4. r \in O <=> \E k \in Cases : r \in OutcomeRequests({k})
  BY DEF OutcomeRequests
<1> QED
  BY <1>1, <1>2, <1>3, <1>4

(* Whatever a session holds, its copies are rows of cases.                 *)
LEMMA CopyType ==
  ASSUME TypeOK, NEW s \in Sessions
  PROVE  /\ DOMAIN session[s].copy \subseteq Cases
         /\ session[s].copy \in [DOMAIN session[s].copy -> Row]
<1>1. session[s] \in Request
  BY DEF TypeOK
<1>2. CASE session[s] = Idle
  BY <1>2 DEF Idle
<1>3. CASE \E ks \in SUBSET Cases :
        session[s] \in TransitionRequests(ks) \cup OutcomeRequests(ks) \cup BulkRequests(ks)
  BY <1>3 DEF TransitionRequests, OutcomeRequests, BulkRequests
<1> QED
  BY <1>1, <1>2, <1>3, RequestCases

(* A flush leaves a row whose every column is the new one or the one the   *)
(* table had.                                                              *)
LEMMA FlushColumns ==
  ASSUME NEW row \in Row, NEW copy \in Row, NEW new \in Row
  PROVE  /\ Flush(row, copy, new) \in Row
         /\ Flush(row, copy, new).status =
              IF new.status = copy.status THEN row.status ELSE new.status
         /\ Flush(row, copy, new).experiment =
              IF new.experiment = copy.experiment THEN row.experiment ELSE new.experiment
         /\ Flush(row, copy, new).group =
              IF new.group = copy.group THEN row.group ELSE new.group
BY DEF Flush, Row

LEMMA WriteFacts ==
  ASSUME TypeOK, NEW s \in Sessions,
         NEW new \in [DOMAIN session[s].copy -> Row], Write(s, new)
  PROVE  LET copy == session[s].copy IN
         /\ cases' \in [Cases -> Row]
         /\ \A k \in Cases \ DOMAIN copy : cases'[k] = cases[k]
         /\ \A k \in DOMAIN copy : cases'[k] = Flush(cases[k], copy[k], new[k])
         /\ stale \subseteq stale' /\ stale' \subseteq Cases
         /\ \A k \in DOMAIN copy \ stale' : new[k] = copy[k] \/ copy[k] = cases[k]
         /\ session' = [session EXCEPT ![s] = Idle]
         /\ UNCHANGED environment
<1>1. /\ DOMAIN session[s].copy \subseteq Cases
      /\ session[s].copy \in [DOMAIN session[s].copy -> Row]
      /\ cases \in [Cases -> Row] /\ stale \subseteq Cases
  BY CopyType DEF TypeOK
<1>2. cases' = [k \in Cases |-> IF k \in DOMAIN new
                                  THEN Flush(cases[k], session[s].copy[k], new[k])
                                  ELSE cases[k]]
  BY DEF Write
<1>3. \A k \in DOMAIN new : Flush(cases[k], session[s].copy[k], new[k]) \in Row
  BY <1>1, FlushColumns
<1>4. DOMAIN new = DOMAIN session[s].copy
  OBVIOUS
<1>5. /\ stale \subseteq stale' /\ stale' \subseteq Cases
      /\ \A k \in DOMAIN new \ stale' : new[k] = session[s].copy[k] \/ session[s].copy[k] = cases[k]
      /\ session' = [session EXCEPT ![s] = Idle]
      /\ UNCHANGED environment
  BY <1>1, <1>4 DEF Write
<1> QED
  BY <1>1, <1>2, <1>3, <1>4, <1>5

-------------------------------------------------------------------------------
(* What every step does to the rows *)

(* The step moves the status of k along an allowed transition, or by a     *)
(* batch, or it writes a stale copy.                                       *)
LawfulMove(k) ==
  Exists(k) /\ cases'[k].status # cases[k].status =>
    \/ <<cases[k].status, cases'[k].status>> \in AllowedTransitions \cup BatchMoves
    \/ k \in stale'

RowsKept ==
  /\ cases' \in [Cases -> Row]
  /\ stale \subseteq stale' /\ stale' \subseteq Cases
  /\ \A k \in Cases : Exists(k) => cases'[k].status # "NONE" /\ LawfulMove(k)

(* Only a batch assigns a case that is there.                              *)
ColumnsKept ==
  \A k \in Cases : Exists(k) =>
    cases'[k].experiment = cases[k].experiment /\ cases'[k].group = cases[k].group

(* No session begins: all go on as they were, or end.                      *)
SessionsKept ==
  /\ session' \in [Sessions -> Request]
  /\ \A s \in Sessions : session'[s] \in {session[s], Idle}

LEMMA RecoveredIsFinal ==
  ASSUME NEW k \in Cases, LawfulMove(k), k \notin stale',
         cases[k].status = "RECOVERED"
  PROVE  cases'[k].status = "RECOVERED"
BY DEF LawfulMove, Exists, AllowedTransitions, WorkflowEdges, ActiveStatuses,
       BatchMoves, EligibleStatuses

LEMMA RowsUnchanged ==
  ASSUME TypeOK, UNCHANGED <<cases, stale>>
  PROVE  RowsKept /\ ColumnsKept
BY DEF RowsKept, ColumnsKept, LawfulMove, TypeOK, Exists

LEMMA SessionEnds ==
  ASSUME TypeOK, NEW s \in Sessions, session' = [session EXCEPT ![s] = Idle]
  PROVE  SessionsKept
<1>1. Idle \in Request
  BY RequestCases
<1> QED
  BY <1>1 DEF SessionsKept, TypeOK

LEMMA SessionsUnchanged ==
  ASSUME TypeOK, UNCHANGED session
  PROVE  SessionsKept
BY DEF SessionsKept, TypeOK

(* What the parts of the invariant need of a step.                         *)
LEMMA GroundedKept ==
  ASSUME Inv, SessionsKept, actions \subseteq actions'
  PROVE  Grounded'
<1> SUFFICES ASSUME NEW s \in Sessions
             PROVE  Ground(session[s])'
  BY DEF Grounded
<1>1. CASE session'[s] = session[s]
  BY <1>1 DEF Inv, Grounded, Ground
<1>2. CASE session'[s] = Idle
  BY <1>2 DEF Idle, Ground
<1> QED
  BY <1>1, <1>2 DEF SessionsKept

LEMMA CopiesKept ==
  ASSUME Inv, SessionsKept, RowsKept
  PROVE  CopiesHold'
<1> SUFFICES ASSUME NEW s \in Sessions, NEW k \in DOMAIN session'[s].copy
             PROVE  /\ cases'[k].status # "NONE"
                    /\ session'[s].copy[k].status = "RECOVERED" /\ k \notin stale' =>
                         cases'[k].status = "RECOVERED"
  BY DEF CopiesHold, Exists
<1>1. session'[s] = session[s]
  BY DEF SessionsKept, Idle
<1>2. k \in DOMAIN session[s].copy /\ k \in Cases
  BY <1>1, CopyType DEF Inv
<1>3. Exists(k) /\ (session[s].copy[k].status = "RECOVERED" /\ k \notin stale =>
                       cases[k].status = "RECOVERED")
  BY <1>2 DEF Inv, CopiesHold
<1> QED
  BY <1>1, <1>2, <1>3, RecoveredIsFinal DEF RowsKept

LEMMA TablesKept ==
  ASSUME Inv, RowsKept, UNCHANGED <<share, assigned, actions>>,
         \A a \in Action : outcomes'[a] # NoOutcome => a \in actions
  PROVE  TablesAgree'
BY DEF Inv, TablesAgree, RowsKept, Exists

LEMMA AssignmentsKept ==
  ASSUME Inv, RowsKept, ColumnsKept, UNCHANGED <<assigned, actions>>
  PROVE  AssignmentStands'
BY DEF Inv, AssignmentStands, TablesAgree, RowsKept, ColumnsKept

LEMMA GroupsKept ==
  ASSUME Inv, UNCHANGED <<share, assigned>>
  PROVE  BothGroupsPopulated'
BY DEF Inv, BothGroupsPopulated

LEMMA RecoveredKept ==
  ASSUME Inv, RowsKept, captured \subseteq captured',
         NEW a \in Action, outcomes'[a] = outcomes[a], outcomes[a].outcome = "RECOVERED"
  PROVE  /\ outcomes'[a].payment \in captured'
         /\ a[2] \notin stale' => cases'[a[2]].status = "RECOVERED"
<1>1. a \in actions
  BY DEF Inv, TablesAgree, NoOutcome
<1>2. PICK x \in Experiments, k \in Cases : a = <<x, k>>
  BY DEF Action
<1>3. Exists(k)
  BY <1>1, <1>2, NullAssumption DEF Inv, TablesAgree
<1> QED
  BY <1>1, <1>2, <1>3, RecoveredIsFinal DEF Inv, RecoveredOutcomeHolds, RowsKept

LEMMA OutcomesKept ==
  ASSUME Inv, RowsKept, captured \subseteq captured', actions' \subseteq Action,
         UNCHANGED outcomes
  PROVE  RecoveredOutcomeHolds'
BY RecoveredKept DEF RecoveredOutcomeHolds

LEMMA TypeKept ==
  ASSUME Inv, RowsKept, SessionsKept, UNCHANGED <<environment, share, assigned, actions, outcomes>>
  PROVE  TypeOK'
BY DEF Inv, TypeOK, RowsKept, SessionsKept, environment

-------------------------------------------------------------------------------
(* The steps that write no case, and the INSERT of one *)

LEMMA QuietStep ==
  ASSUME Inv, SessionsKept, UNCHANGED committed,
         overdue' \subseteq Cases, captured \subseteq captured', captured' \subseteq Payments
  PROVE  Inv' /\ RowsKept
<1>1. RowsKept /\ ColumnsKept
  BY RowsUnchanged DEF Inv, committed
<1>2. TypeOK'
  BY DEF Inv, TypeOK, SessionsKept, committed
<1>3. TablesAgree'
  BY <1>1, TablesKept DEF Inv, TablesAgree, committed
<1> QED
  BY <1>1, <1>2, <1>3, GroundedKept, CopiesKept, AssignmentsKept, GroupsKept,
     OutcomesKept DEF Inv, TypeOK, committed

LEMMA SurroundingsStep ==
  ASSUME Inv,
         \/ \E k \in Cases : WindowEnds(k)
         \/ \E p \in Payments : StorePayment(p)
         \/ \E s \in Sessions : Abort(s)
  PROVE  Inv' /\ RowsKept
<1>1. /\ UNCHANGED committed /\ overdue' \subseteq Cases
      /\ captured \subseteq captured' /\ captured' \subseteq Payments
  BY DEF WindowEnds, StorePayment, Abort, environment, Inv, TypeOK
<1>2. SessionsKept
  BY SessionEnds, SessionsUnchanged DEF WindowEnds, StorePayment, Abort, Inv
<1> QED
  BY <1>1, <1>2, QuietStep

(* An INSERT of a case takes a free key, so it meets no assignment.        *)
LEMMA CreateStep ==
  ASSUME Inv, NEW k \in Cases, NEW x \in Experiments \cup {NoExperiment},
         NEW g \in Groups \cup {NoGroup}, CreateCase(k, x, g)
  PROVE  Inv' /\ RowsKept
<1> DEFINE new == [status |-> "AT_RISK", experiment |-> x, group |-> g]
<1>1. /\ ~Exists(k) /\ cases' = [cases EXCEPT ![k] = new]
      /\ UNCHANGED <<share, assigned, actions, outcomes, stale, environment, session>>
  BY DEF CreateCase, KeyIsFree
<1>2. new \in Row
  BY DEF Row, CaseStatuses, ActiveStatuses
<1>3. RowsKept /\ ColumnsKept
  BY <1>1, <1>2 DEF RowsKept, ColumnsKept, LawfulMove, Exists, Inv, TypeOK
<1>4. SessionsKept
  BY <1>1, SessionsUnchanged DEF Inv
<1>5. TablesAgree'
  BY <1>1, <1>3, TablesKept DEF Inv, TablesAgree
<1> QED
  BY <1>1, <1>3, <1>4, <1>5, TypeKept, GroundedKept, CopiesKept, AssignmentsKept,
     GroupsKept, OutcomesKept DEF Inv, TypeOK, environment

-------------------------------------------------------------------------------
(* Requests load what they will change *)

LEMMA LoadStep ==
  ASSUME Inv, NEW s \in Sessions, NEW ks \in SUBSET Cases,
         NEW request \in Request, Ground(request),
         request.copy = [k \in ks |-> cases[k]], \A k \in ks : Exists(k),
         session' = [session EXCEPT ![s] = request], UNCHANGED <<committed, environment>>
  PROVE  Inv' /\ RowsKept
<1>1. \A t \in Sessions : session'[t] = IF t = s THEN request ELSE session[t]
  BY DEF Inv, TypeOK
<1>2. TypeOK'
  BY DEF Inv, TypeOK, committed, environment
<1>3. RowsKept /\ ColumnsKept
  BY RowsUnchanged DEF Inv, committed
<1>4. Grounded'
  <2> SUFFICES ASSUME NEW t \in Sessions
               PROVE  Ground(session[t])'
    BY DEF Grounded
  <2>1. CASE t = s
    BY <1>1, <2>1 DEF Ground, committed
  <2>2. CASE t # s
    BY <1>1, <2>2 DEF Inv, Grounded, Ground, committed
  <2> QED
    BY <2>1, <2>2
<1>5. CopiesHold'
  <2> SUFFICES ASSUME NEW t \in Sessions, NEW k \in DOMAIN session'[t].copy
               PROVE  /\ Exists(k)
                      /\ session'[t].copy[k].status = "RECOVERED" /\ k \notin stale =>
                           cases[k].status = "RECOVERED"
    BY DEF CopiesHold, Exists, committed
  <2>1. CASE t = s
    BY <1>1, <2>1
  <2>2. CASE t # s
    BY <1>1, <2>2 DEF Inv, CopiesHold
  <2> QED
    BY <2>1, <2>2
<1>6. TablesAgree'
  BY <1>3, TablesKept DEF Inv, TablesAgree, committed
<1> QED
  BY <1>2, <1>3, <1>4, <1>5, <1>6, AssignmentsKept, GroupsKept, OutcomesKept
     DEF Inv, TypeOK, committed, environment

LEMMA CopiedRows ==
  ASSUME TypeOK, NEW ks \in SUBSET Cases
  PROVE  /\ Restrict(cases, ks) = [k \in ks |-> cases[k]]
         /\ Restrict(cases, ks) \in [ks -> Row]
BY DEF Restrict, TypeOK

LEMMA LoadForTransitionStep ==
  ASSUME Inv, NEW s \in Sessions, NEW k \in Cases, NEW t \in Targets,
         LoadForTransition(s, k, t)
  PROVE  Inv' /\ RowsKept
<1> DEFINE copy == Restrict(cases, {k})
           r == [kind |-> "transition", copy |-> <<>>, target |-> t]
           request == [kind |-> "transition", copy |-> copy, target |-> t]
<1>1. MayMove(cases[k], t) /\ Load(s, r, {k})
  BY DEF LoadForTransition
<1>2. copy \in [{k} -> Row] /\ copy = [j \in {k} |-> cases[j]]
  BY CopiedRows DEF Inv
<1>3. [r EXCEPT !.copy = copy] = request
  OBVIOUS
<1>4. request \in Request
  <2>1. request \in TransitionRequests({k})
    BY <1>2, BoundAssumption DEF TransitionRequests
  <2> QED
    BY <2>1, RequestCases
<1>5. Ground(request)
  BY <1>1, <1>2 DEF Ground
<1>6. Exists(k)
  BY <1>1 DEF MayMove, ValidTransition, AllowedTransitions, WorkflowEdges,
              ActiveStatuses, Exists
<1> QED
  BY <1>1, <1>2, <1>3, <1>4, <1>5, <1>6, LoadStep DEF Load

LEMMA LoadDueCasesStep ==
  ASSUME Inv, NEW s \in Sessions, LoadDueCases(s)
  PROVE  Inv' /\ RowsKept
<1> DEFINE copy == Restrict(cases, DueCases)
           r == [kind |-> "expire", copy |-> <<>>]
           request == [kind |-> "expire", copy |-> copy]
<1>1. Load(s, r, DueCases) /\ DueCases \in SUBSET Cases
  BY DEF LoadDueCases, DueCases, Inv, TypeOK
<1>2. copy \in [DueCases -> Row] /\ copy = [j \in DueCases |-> cases[j]]
  BY <1>1, CopiedRows DEF Inv
<1>3. [r EXCEPT !.copy = copy] = request
  OBVIOUS
<1>4. request \in Request
  <2>1. request \in BulkRequests(DueCases)
    BY <1>2 DEF BulkRequests
  <2> QED
    BY <1>1, <2>1, RequestCases
<1>5. Ground(request)
  BY <1>2 DEF Ground, DueCases
<1>6. \A k \in DueCases : Exists(k)
  BY DEF DueCases, IsActive, ActiveStatuses, Exists
<1> QED
  BY <1>1, <1>2, <1>3, <1>4, <1>5, <1>6, LoadStep DEF Load

LEMMA LoadEligibleCasesStep ==
  ASSUME Inv, NEW s \in Sessions, LoadEligibleCases(s)
  PROVE  Inv' /\ RowsKept
<1> DEFINE copy == Restrict(cases, EligibleCases)
           r == [kind |-> "batch", copy |-> <<>>]
           request == [kind |-> "batch", copy |-> copy]
<1>1. Load(s, r, EligibleCases) /\ EligibleCases \in SUBSET Cases
  BY DEF LoadEligibleCases, EligibleCases
<1>2. copy \in [EligibleCases -> Row] /\ copy = [j \in EligibleCases |-> cases[j]]
  BY <1>1, CopiedRows DEF Inv
<1>3. [r EXCEPT !.copy = copy] = request
  OBVIOUS
<1>4. request \in Request
  <2>1. request \in BulkRequests(EligibleCases)
    BY <1>2 DEF BulkRequests
  <2> QED
    BY <1>1, <2>1, RequestCases
<1>5. Ground(request)
  BY <1>2 DEF Ground, EligibleCases
<1>6. \A k \in EligibleCases : Exists(k)
  BY DEF EligibleCases, IsEligible, EligibleStatuses, Exists
<1> QED
  BY <1>1, <1>2, <1>3, <1>4, <1>5, <1>6, LoadStep DEF Load

LEMMA LoadForOutcomeStep ==
  ASSUME Inv, NEW s \in Sessions, NEW a \in Action, NEW result \in Outcomes,
         NEW p \in Payments \cup {NoPayment}, LoadForOutcome(s, a, result, p)
  PROVE  Inv' /\ RowsKept
<1> DEFINE k == a[2]
           copy == Restrict(cases, {k})
           answer == [outcome |-> result, payment |-> p]
           r == [kind |-> "outcome", copy |-> <<>>, action |-> a, result |-> answer]
           request == [kind |-> "outcome", copy |-> copy, action |-> a, result |-> answer]
<1>1. /\ a \in actions /\ k \in Cases
      /\ result = "RECOVERED" => MayRecover(cases[k])
      /\ Load(s, r, {k})
  BY DEF LoadForOutcome, Action
<1>2. copy \in [{k} -> Row] /\ copy = [j \in {k} |-> cases[j]]
  BY <1>1, CopiedRows DEF Inv
<1>3. [r EXCEPT !.copy = copy] = request
  OBVIOUS
<1>4. request \in Request
  <2>1. request \in OutcomeRequests({k})
    BY <1>2 DEF OutcomeRequests
  <2> QED
    BY <1>1, <2>1, RequestCases
<1>5. Ground(request)
  BY <1>1, <1>2 DEF Ground
<1>6. Exists(k)
  <2>1. PICK x \in Experiments, c \in Cases : a = <<x, c>>
    BY DEF Action
  <2> QED
    BY <1>1, <2>1, NullAssumption DEF Inv, TablesAgree
<1> QED
  BY <1>1, <1>2, <1>3, <1>4, <1>5, <1>6, LoadStep DEF Load

-------------------------------------------------------------------------------
(* Sessions commit *)

(* A write that changes no column but the status, and that along an allowed*)
(* transition of the copy.                                                 *)
LEMMA StatusWrite ==
  ASSUME Inv, NEW s \in Sessions,
         NEW new \in [DOMAIN session[s].copy -> Row], Write(s, new),
         \A k \in DOMAIN session[s].copy :
           /\ new[k].experiment = session[s].copy[k].experiment
           /\ new[k].group = session[s].copy[k].group
           /\ new[k].status # session[s].copy[k].status =>
                ValidTransition(session[s].copy[k].status, new[k].status)
  PROVE  RowsKept /\ ColumnsKept /\ SessionsKept
<1> DEFINE copy == session[s].copy
<1>1. /\ DOMAIN copy \subseteq Cases /\ copy \in [DOMAIN copy -> Row]
      /\ cases \in [Cases -> Row]
  BY CopyType DEF Inv, TypeOK
<1>2. /\ cases' \in [Cases -> Row]
      /\ \A k \in Cases \ DOMAIN copy : cases'[k] = cases[k]
      /\ \A k \in DOMAIN copy : cases'[k] = Flush(cases[k], copy[k], new[k])
      /\ stale \subseteq stale' /\ stale' \subseteq Cases
      /\ \A k \in DOMAIN copy \ stale' : new[k] = copy[k] \/ copy[k] = cases[k]
      /\ session' = [session EXCEPT ![s] = Idle]
  BY WriteFacts DEF Inv
<1>3. SessionsKept
  BY <1>2, SessionEnds DEF Inv
<1> SUFFICES ASSUME NEW k \in DOMAIN copy, Exists(k)
             PROVE  /\ cases'[k].status # "NONE" /\ LawfulMove(k)
                    /\ cases'[k].experiment = cases[k].experiment
                    /\ cases'[k].group = cases[k].group
  BY <1>1, <1>2, <1>3 DEF RowsKept, ColumnsKept, LawfulMove, Exists
<1> DEFINE row == cases[k]
           made == new[k]
           old == copy[k]
<1>4. /\ row \in Row /\ old \in Row /\ made \in Row
      /\ made.experiment = old.experiment /\ made.group = old.group
      /\ made.status # old.status => ValidTransition(old.status, made.status)
      /\ cases'[k] = Flush(row, old, made)
      /\ k \notin stale' => made = old \/ old = row
  BY <1>1, <1>2
<1>5. /\ cases'[k].experiment = row.experiment /\ cases'[k].group = row.group
      /\ cases'[k].status = IF made.status = old.status THEN row.status ELSE made.status
  BY <1>4, FlushColumns
<1>6. made.status # old.status =>
        made.status # "NONE" /\ <<old.status, made.status>> \in AllowedTransitions
  BY <1>4 DEF ValidTransition, AllowedTransitions, WorkflowEdges, ClosingStatuses
<1> QED
  BY <1>4, <1>5, <1>6 DEF LawfulMove, Exists

LEMMA CommitTransitionStep ==
  ASSUME Inv, NEW s \in Sessions, CommitTransition(s)
  PROVE  Inv' /\ RowsKept
<1> DEFINE r == session[s]
           new == [k \in DOMAIN r.copy |-> [r.copy[k] EXCEPT !.status = r.target]]
<1>1. /\ r.kind = "transition" /\ Write(s, new)
      /\ UNCHANGED <<share, assigned, actions, outcomes>>
  BY DEF CommitTransition
<1>2. /\ r.copy \in [DOMAIN r.copy -> Row]
      /\ \A k \in DOMAIN r.copy : ValidTransition(r.copy[k].status, r.target)
  BY <1>1, CopyType DEF Inv, Grounded, Ground, MayMove
<1>3. \A k \in DOMAIN r.copy : r.target \in CaseStatuses
  BY <1>2 DEF ValidTransition, AllowedTransitions, WorkflowEdges, ClosingStatuses,
              CaseStatuses, ActiveStatuses, TerminalStatuses
<1>4. /\ new \in [DOMAIN r.copy -> Row]
      /\ \A k \in DOMAIN r.copy :
           /\ new[k].experiment = r.copy[k].experiment /\ new[k].group = r.copy[k].group
           /\ new[k].status = r.target
  BY <1>2, <1>3 DEF Row
<1> HIDE DEF new
<1>5. RowsKept /\ ColumnsKept /\ SessionsKept
  BY <1>1, <1>2, <1>4, StatusWrite
<1>6. UNCHANGED environment
  BY <1>1 DEF Write
<1>7. TablesAgree'
  BY <1>1, <1>5, TablesKept DEF Inv, TablesAgree
<1> QED
  BY <1>1, <1>5, <1>6, <1>7, TypeKept, GroundedKept, CopiesKept, AssignmentsKept,
     GroupsKept, OutcomesKept DEF Inv, TypeOK, environment

LEMMA CommitExpiryStep ==
  ASSUME Inv, NEW s \in Sessions, CommitExpiry(s)
  PROVE  Inv' /\ RowsKept
<1> DEFINE r == session[s]
           new == [k \in DOMAIN r.copy |-> [r.copy[k] EXCEPT !.status = "EXPIRED"]]
<1>1. /\ r.kind = "expire" /\ Write(s, new)
      /\ UNCHANGED <<share, assigned, actions, outcomes>>
  BY DEF CommitExpiry
<1>2. /\ r.copy \in [DOMAIN r.copy -> Row]
      /\ \A k \in DOMAIN r.copy : r.copy[k].status \in ActiveStatuses
  BY <1>1, CopyType DEF Inv, Grounded, Ground, IsActive
<1>3. /\ new \in [DOMAIN r.copy -> Row]
      /\ \A k \in DOMAIN r.copy :
           /\ new[k].experiment = r.copy[k].experiment /\ new[k].group = r.copy[k].group
           /\ new[k].status = "EXPIRED"
           /\ ValidTransition(r.copy[k].status, new[k].status)
  BY <1>2 DEF Row, CaseStatuses, TerminalStatuses, ValidTransition, AllowedTransitions,
              ClosingStatuses
<1> HIDE DEF new
<1>4. RowsKept /\ ColumnsKept /\ SessionsKept
  BY <1>1, <1>3, StatusWrite
<1>5. UNCHANGED environment
  BY <1>1 DEF Write
<1>6. TablesAgree'
  BY <1>1, <1>4, TablesKept DEF Inv, TablesAgree
<1> QED
  BY <1>1, <1>4, <1>5, <1>6, TypeKept, GroundedKept, CopiesKept, AssignmentsKept,
     GroupsKept, OutcomesKept DEF Inv, TypeOK, environment

(* With two cases or more and a true share, the control group is neither   *)
(* empty nor the whole batch.                                              *)
LEMMA ControlCountBounds ==
  ASSUME NEW total \in Nat, total >= 2, NEW percentage \in 1 .. 99
  PROVE  ControlCount(total, percentage) \in 1 .. total - 1
<1> DEFINE count == RoundedShare(total, percentage)
<1>1. count \in Int
  BY DEF RoundedShare
<1>2. percentage \notin {0, 100}
  OBVIOUS
<1> HIDE DEF count
<1>3. ControlCount(total, percentage) =
        IF count < 1 THEN 1 ELSE IF count > total - 1 THEN total - 1 ELSE count
  BY <1>2 DEF ControlCount, count
<1> QED
  BY <1>1, <1>3

LEMMA CommitOutcomeStep ==
  ASSUME Inv, NEW s \in Sessions, CommitOutcome(s)
  PROVE  Inv' /\ RowsKept
<1> DEFINE r == session[s]
           won == r.result.outcome = "RECOVERED"
           new == [k \in DOMAIN r.copy |-> IF won THEN [r.copy[k] EXCEPT !.status = "RECOVERED"]
                                                 ELSE r.copy[k]]
           a == r.action
           c == r.action[2]
<1>1. /\ r.kind = "outcome" /\ HasEvidence(r.result) /\ Write(s, new)
      /\ outcomes' = [outcomes EXCEPT ![a] = r.result]
      /\ UNCHANGED <<share, assigned, actions>>
  BY DEF CommitOutcome
<1>2. /\ r.copy \in [DOMAIN r.copy -> Row]
      /\ a \in actions /\ a \in Action /\ DOMAIN r.copy = {c} /\ c \in Cases
      /\ won => MayRecover(r.copy[c])
  BY <1>1, CopyType DEF Inv, Grounded, Ground, TypeOK
<1>3. r.result \in [outcome : Outcomes, payment : Payments \cup {NoPayment}]
  <2>1. r \in Request /\ r # Idle
    BY <1>1 DEF Inv, TypeOK, Idle
  <2>2. \A ks : r \notin BulkRequests(ks) /\ r \notin TransitionRequests(ks)
    BY <1>1 DEF TransitionRequests, BulkRequests
  <2>3. \E k \in Cases : r \in OutcomeRequests({k})
    BY <2>1, <2>2, RequestCases
  <2> QED
    BY <2>3 DEF OutcomeRequests
<1>4. /\ new \in [DOMAIN r.copy -> Row]
      /\ new[c].experiment = r.copy[c].experiment /\ new[c].group = r.copy[c].group
      /\ new[c].status = IF won THEN "RECOVERED" ELSE r.copy[c].status
  BY <1>2 DEF Row, CaseStatuses, TerminalStatuses
<1>5. new[c].status # r.copy[c].status => ValidTransition(r.copy[c].status, new[c].status)
  BY <1>2, <1>4 DEF MayRecover, IsActive, ValidTransition, AllowedTransitions, ClosingStatuses
<1> HIDE DEF new
<1>6. RowsKept /\ ColumnsKept /\ SessionsKept
  BY <1>1, <1>2, <1>4, <1>5, StatusWrite
<1>7. UNCHANGED environment
  BY <1>1 DEF Write
<1>8. TypeOK'
  BY <1>1, <1>2, <1>3, <1>6, <1>7 DEF Inv, TypeOK, RowsKept, SessionsKept, environment, Outcomes
<1>9. TablesAgree'
  BY <1>1, <1>2, <1>6, TablesKept DEF Inv, TablesAgree, TypeOK
<1>10. ASSUME won
       PROVE  /\ r.result.payment \in captured'
              /\ c \notin stale' => cases'[c].status = "RECOVERED"
  <2>1. cases'[c] = Flush(cases[c], r.copy[c], new[c])
    BY <1>1, <1>2, <1>4, WriteFacts DEF Inv
  <2>2. cases'[c].status =
          IF new[c].status = r.copy[c].status THEN cases[c].status ELSE new[c].status
    BY <1>2, <1>4, <2>1, FlushColumns DEF Inv, TypeOK
  <2>3. c \notin stale' => c \notin stale /\ (new[c] = r.copy[c] \/ r.copy[c] = cases[c])
    BY <1>1, <1>2, <1>4, WriteFacts DEF Inv
  <2>4. r.copy[c].status = "RECOVERED" /\ c \notin stale => cases[c].status = "RECOVERED"
    BY <1>2 DEF Inv, CopiesHold
  <2> QED
    BY <1>1, <1>4, <1>7, <1>10, <2>2, <2>3, <2>4 DEF HasEvidence, environment
<1>11. RecoveredOutcomeHolds'
  <2> SUFFICES ASSUME NEW b \in actions, outcomes'[b].outcome = "RECOVERED"
               PROVE  /\ outcomes'[b].payment \in captured'
                      /\ b[2] \notin stale' => cases'[b[2]].status = "RECOVERED"
    BY <1>1 DEF RecoveredOutcomeHolds
  <2>1. b \in Action /\ outcomes'[b] = IF b = a THEN r.result ELSE outcomes[b]
    BY <1>1, <1>2 DEF Inv, TypeOK
  <2>2. CASE b = a
    BY <1>10, <2>1, <2>2
  <2>3. CASE b # a
    BY <1>6, <1>7, <2>1, <2>3, RecoveredKept DEF environment
  <2> QED
    BY <2>2, <2>3
<1> QED
  BY <1>1, <1>6, <1>8, <1>9, <1>11, GroundedKept, CopiesKept, AssignmentsKept, GroupsKept
     DEF Inv

(* The batch of x writes copies of cases without an experiment: whichever  *)
(* of them had been assigned in the meantime is now stale.                 *)
LEMMA CommitBatchStep ==
  ASSUME Inv, NEW s \in Sessions, NEW x \in Experiments, NEW percentage \in Percentages,
         CommitBatch(s, x, percentage)
  PROVE  Inv' /\ RowsKept
<1> DEFINE copy == session[s].copy
           batch == DOMAIN copy
<1>1. /\ session[s].kind = "batch" /\ share[x] = -1
      /\ share' = [share EXCEPT ![x] = percentage] /\ UNCHANGED outcomes
  BY DEF CommitBatch, HaveRun
<1>2. PICK control \in SUBSET batch :
        /\ Cardinality(control) = ControlCount(Cardinality(batch), percentage)
        /\ Write(s, [k \in batch |->
                        Assign(copy[k], x, IF k \in control THEN "CONTROL" ELSE "TREATMENT")])
        /\ assigned' = [assigned EXCEPT ![x] =
             [k \in Cases |-> IF k \in batch
                THEN IF k \in control THEN "CONTROL" ELSE "TREATMENT" ELSE NoGroup]]
        /\ actions' = actions \cup ({x} \X (batch \ control))
  BY DEF CommitBatch
<1> DEFINE Group(k) == IF k \in control THEN "CONTROL" ELSE "TREATMENT"
           new == [k \in batch |-> Assign(copy[k], x, Group(k))]
<1>3. /\ batch \subseteq Cases /\ copy \in [batch -> Row] /\ cases \in [Cases -> Row]
      /\ \A k \in batch : copy[k].status \in EligibleStatuses /\ copy[k].experiment = NoExperiment
      /\ \A k \in batch : Exists(k)
  BY <1>1, CopyType DEF Inv, TypeOK, Grounded, Ground, IsEligible, CopiesHold
<1>4. /\ new \in [batch -> Row]
      /\ \A k \in batch :
           /\ new[k].experiment = x /\ new[k].group = Group(k)
           /\ new[k].status = IF Group(k) = "TREATMENT" THEN "DECISION_READY"
                                                        ELSE copy[k].status
  BY <1>3 DEF Assign, Row, Groups, CaseStatuses, ActiveStatuses
<1>5. Write(s, new)
  BY <1>2
<1> HIDE DEF new
<1>6. /\ cases' \in [Cases -> Row]
      /\ \A k \in Cases \ batch : cases'[k] = cases[k]
      /\ \A k \in batch : cases'[k] = Flush(cases[k], copy[k], new[k])
      /\ stale \subseteq stale' /\ stale' \subseteq Cases
      /\ \A k \in batch \ stale' : new[k] = copy[k] \/ copy[k] = cases[k]
      /\ session' = [session EXCEPT ![s] = Idle]
      /\ UNCHANGED environment
  BY <1>4, <1>5, WriteFacts DEF Inv
<1>7. \A k \in batch \ stale' : copy[k] = cases[k] /\ cases[k].experiment = NoExperiment
  BY <1>3, <1>4, <1>6, NullAssumption
<1>8. \A k \in batch :
        /\ cases'[k].status = IF new[k].status = copy[k].status THEN cases[k].status
                                                               ELSE new[k].status
        /\ cases'[k].group = IF new[k].group = copy[k].group THEN cases[k].group
                                                             ELSE new[k].group
        /\ cases'[k].experiment = x
  <2> SUFFICES ASSUME NEW k \in batch
               PROVE  LET f == cases'[k] IN
                      /\ f.status = IF new[k].status = copy[k].status THEN cases[k].status
                                                                     ELSE new[k].status
                      /\ f.group = IF new[k].group = copy[k].group THEN cases[k].group
                                                                   ELSE new[k].group
                      /\ f.experiment = x
    OBVIOUS
  <2>1. cases[k] \in Row /\ copy[k] \in Row /\ new[k] \in Row
    BY <1>3, <1>4
  <2>2. new[k].experiment = x /\ new[k].experiment # copy[k].experiment
    BY <1>3, <1>4, NullAssumption
  <2> QED
    BY <1>6, <2>1, <2>2, FlushColumns
<1>9. SessionsKept
  BY <1>6, SessionEnds DEF Inv
<1>10. RowsKept
  <2> SUFFICES ASSUME NEW k \in batch, Exists(k)
               PROVE  cases'[k].status # "NONE" /\ LawfulMove(k)
    BY <1>3, <1>6 DEF RowsKept, LawfulMove, Exists
  <2>1. cases'[k].status \in {cases[k].status, "DECISION_READY"}
    BY <1>4, <1>8
  <2>2. cases'[k].status # cases[k].status /\ k \notin stale' =>
          <<cases[k].status, cases'[k].status>> \in BatchMoves
    BY <1>3, <1>7, <2>1 DEF BatchMoves
  <2> QED
    BY <2>1, <2>2 DEF LawfulMove, Exists
<1>11. \A y \in Experiments, k \in Cases :
         assigned'[y][k] = IF y = x THEN IF k \in batch THEN Group(k) ELSE NoGroup
                                    ELSE assigned[y][k]
  BY <1>2 DEF Inv, TypeOK
<1>12. \A y \in Experiments, k \in Cases :
         <<y, k>> \in actions' <=>
           <<y, k>> \in actions \/ (y = x /\ k \in batch \ control)
  BY <1>2
<1>13. \A k \in Cases : assigned[x][k] = NoGroup /\ <<x, k>> \notin actions
  BY <1>1, NullAssumption DEF Inv, TablesAgree
<1>14. TypeOK'
  <2>1. actions' \subseteq Action
    BY <1>2, <1>3 DEF Inv, TypeOK, Action
  <2>2. assigned' \in [Experiments -> [Cases -> Groups \cup {NoGroup}]]
    BY <1>2 DEF Inv, TypeOK, Groups
  <2>3. share' \in [Experiments -> 0 .. 100 \cup {-1}]
    BY <1>1, BoundAssumption DEF Inv, TypeOK
  <2> QED
    BY <1>1, <1>6, <1>9, <2>1, <2>2, <2>3 DEF Inv, TypeOK, SessionsKept, environment
<1>15. TablesAgree'
  <2>1. \A y \in Experiments : share'[y] = -1 => \A k \in Cases : assigned'[y][k] = NoGroup
    <3> SUFFICES ASSUME NEW y \in Experiments, share'[y] = -1, NEW k \in Cases
                 PROVE  assigned'[y][k] = NoGroup
      OBVIOUS
    <3>1. percentage # -1
      BY BoundAssumption
    <3>2. y # x /\ share[y] = -1
      BY <1>1, <3>1 DEF Inv, TypeOK
    <3> QED
      BY <1>11, <3>2 DEF Inv, TablesAgree
  <2>2. \A y \in Experiments, k \in Cases : assigned'[y][k] # NoGroup => cases'[k].status # "NONE"
    BY <1>3, <1>10, <1>11 DEF Inv, TablesAgree, RowsKept
  <2>3. \A y \in Experiments, k \in Cases :
          <<y, k>> \in actions' => assigned'[y][k] = "TREATMENT"
    BY <1>11, <1>12, <1>13 DEF Inv, TablesAgree
  <2>4. \A a \in Action : outcomes'[a] # NoOutcome => a \in actions'
    BY <1>1, <1>2 DEF Inv, TablesAgree
  <2> QED
    BY <2>1, <2>2, <2>3, <2>4 DEF TablesAgree, Exists
<1>16. AssignmentStands'
  <2> SUFFICES ASSUME NEW y \in Experiments, NEW k \in Cases,
                      assigned'[y][k] # NoGroup, k \notin stale'
               PROVE  /\ cases'[k].experiment = y
                      /\ cases'[k].group = assigned'[y][k]
                      /\ (<<y, k>> \in actions') <=> assigned'[y][k] = "TREATMENT"
                      /\ \A z \in Experiments \ {y} : <<z, k>> \notin actions'
    BY DEF AssignmentStands
  <2>1. \A z \in Experiments : assigned[z][k] # NoGroup =>
          /\ cases[k].experiment = z /\ cases[k].group = assigned[z][k]
          /\ (<<z, k>> \in actions) <=> assigned[z][k] = "TREATMENT"
          /\ \A w \in Experiments \ {z} : <<w, k>> \notin actions
    BY <1>6 DEF Inv, AssignmentStands
  <2>2. \A z \in Experiments : <<z, k>> \in actions => assigned[z][k] # NoGroup
    BY NullAssumption DEF Inv, TablesAgree
  <2>3. CASE k \in batch
    <3>1. \A z \in Experiments : assigned[z][k] = NoGroup /\ <<z, k>> \notin actions
      BY <1>7, <2>1, <2>2, <2>3, NullAssumption
    <3>2. y = x
      BY <1>11, <3>1
    <3>3. cases'[k].experiment = x /\ cases'[k].group = Group(k)
      BY <1>4, <1>7, <1>8, <2>3
    <3> QED
      BY <1>11, <1>12, <2>3, <3>1, <3>2, <3>3
  <2>4. CASE k \notin batch
    <3>1. y # x /\ assigned'[y][k] = assigned[y][k] /\ cases'[k] = cases[k]
      BY <1>6, <1>11, <2>4
    <3> QED
      BY <1>12, <2>1, <2>4, <3>1
  <2> QED
    BY <2>3, <2>4
<1>17. BothGroupsPopulated'
  <2> DEFINE Members(y, g) == {k \in Cases : assigned'[y][k] = g}
  <2> SUFFICES ASSUME NEW y \in Experiments, share'[y] \in 1 .. 99,
                      Cardinality(Members(y, "CONTROL") \cup Members(y, "TREATMENT")) >= 2
               PROVE  Members(y, "CONTROL") # {} /\ Members(y, "TREATMENT") # {}
    BY DEF BothGroupsPopulated
  <2>1. CASE y = x
    <3>1. Members(x, "CONTROL") = control /\ Members(x, "TREATMENT") = batch \ control
      BY <1>3, <1>11, NullAssumption
    <3>2. Members(x, "CONTROL") \cup Members(x, "TREATMENT") = batch
      BY <3>1
    <3>3. IsFiniteSet(batch) /\ IsFiniteSet(control)
      BY <1>3, CasesAssumption, FS_Subset
    <3>4. Cardinality(batch) \in Nat /\ Cardinality(batch) >= 2 /\ percentage \in 1 .. 99
      BY <1>1, <2>1, <3>2, <3>3, FS_CardinalityType DEF Inv, TypeOK
    <3>5. Cardinality(control) \in 1 .. Cardinality(batch) - 1
      BY <1>2, <3>4, ControlCountBounds
    <3>6. control # {} /\ control # batch
      BY <3>3, <3>4, <3>5, FS_EmptySet
    <3> QED
      BY <2>1, <3>1, <3>6
  <2>2. CASE y # x
    <3>1. share'[y] = share[y] /\ \A k \in Cases : assigned'[y][k] = assigned[y][k]
      BY <1>1, <1>11, <2>2 DEF Inv, TypeOK
    <3> QED
      BY <3>1 DEF Inv, BothGroupsPopulated
  <2> QED
    BY <2>1, <2>2
<1>18. RecoveredOutcomeHolds'
  BY <1>1, <1>6, <1>10, <1>14, OutcomesKept DEF environment, TypeOK
<1> QED
  BY <1>2, <1>9, <1>10, <1>14, <1>15, <1>16, <1>17, <1>18, GroundedKept, CopiesKept DEF Inv

-------------------------------------------------------------------------------
(* The theorems *)

LEMMA InvInit == Init => Inv
<1> SUFFICES ASSUME Init
             PROVE  Inv
  OBVIOUS
<1>1. TypeOK
  <2>1. Idle \in Request /\ NoRow \in Row
    BY RequestCases DEF NoRow, Row
  <2> QED
    BY <2>1 DEF Init, TypeOK, NoOutcome
<1>2. Grounded /\ CopiesHold
  BY DEF Init, Grounded, Ground, CopiesHold, Idle
<1>3. TablesAgree
  BY DEF Init, TablesAgree
<1>4. AssignmentStands /\ BothGroupsPopulated /\ RecoveredOutcomeHolds
  BY DEF Init, AssignmentStands, BothGroupsPopulated, RecoveredOutcomeHolds
<1> QED
  BY <1>1, <1>2, <1>3, <1>4 DEF Inv

LEMMA NextKeeps ==
  ASSUME Inv, Next
  PROVE  Inv' /\ RowsKept
<1>1. CASE \E k \in Cases, x \in Experiments \cup {NoExperiment}, g \in Groups \cup {NoGroup} :
             CreateCase(k, x, g)
  BY <1>1, CreateStep
<1>2. CASE \E s \in Sessions : Begin(s)
  BY <1>2, LoadForTransitionStep, LoadDueCasesStep, LoadEligibleCasesStep,
     LoadForOutcomeStep DEF Begin
<1>3. CASE \E s \in Sessions : Commit(s)
  BY <1>3, CommitTransitionStep, CommitExpiryStep, CommitBatchStep, CommitOutcomeStep DEF Commit
<1>4. CASE \/ \E k \in Cases : WindowEnds(k)
           \/ \E p \in Payments : StorePayment(p)
           \/ \E s \in Sessions : Abort(s)
  BY <1>4, SurroundingsStep
<1> QED
  BY <1>1, <1>2, <1>3, <1>4 DEF Next

LEMMA InvHolds == Spec => []Inv
<1>1. Inv /\ [Next]_vars => Inv'
  <2>1. CASE Next
    BY <2>1, NextKeeps
  <2>2. CASE Inv /\ UNCHANGED vars
    <3>1. UNCHANGED committed /\ UNCHANGED environment /\ UNCHANGED session
      BY <2>2 DEF vars
    <3> QED
      BY <2>2, <3>1, QuietStep, SessionsUnchanged DEF Inv, TypeOK, environment
  <2> QED
    BY <2>1, <2>2
<1> QED
  BY <1>1, InvInit, PTL DEF Spec

(* Every table and every request stays within its type, whatever copies    *)
(* sessions write over one another's rows.                                 *)
THEOREM TypeCorrect == Spec => []TypeOK
BY InvHolds, PTL DEF Inv

(* Read, decide, write back in two steps: however many sessions interleave,*)
(* a status leaves the allowed transitions only where a stale copy is      *)
(* written (recovery_case.py transition_to, expire_due_cases, run_batch,   *)
(* record_outcome).                                                        *)
THEOREM MovesAreLawfulHolds == Spec => MovesAreLawful
<1>1. Inv /\ [Next]_vars =>
        [\A k \in Cases :
           Exists(k) /\ cases'[k].status # cases[k].status =>
             \/ <<cases[k].status, cases'[k].status>> \in AllowedTransitions \cup BatchMoves
             \/ k \in stale']_vars
  BY NextKeeps DEF RowsKept, LawfulMove
<1> QED
  BY <1>1, InvHolds, PTL DEF Spec, MovesAreLawful

(* The assignment of run_batch: rows, groups and actions agree for every   *)
(* case that no stale copy was written over, for any number of batches.    *)
THEOREM AssignmentStandsHolds == Spec => []AssignmentStands
BY InvHolds, PTL DEF Inv

(* The clamp of _control_count: for every batch size from two on and every *)
(* share from 1 to 99 percent both groups get a case.                      *)
THEOREM BothGroupsPopulatedHolds == Spec => []BothGroupsPopulated
BY InvHolds, PTL DEF Inv

(* record_outcome: a recovered outcome keeps its evidence and its case     *)
(* recovered, whatever other sessions commit.                              *)
THEOREM RecoveredOutcomeStands == Spec => []RecoveredOutcomeHolds
BY InvHolds, PTL DEF Inv

(* The unique key of action_outcomes: what an outcome says is never        *)
(* changed, by no number of concurrent requests.                           *)
THEOREM OutcomeIsFinalHolds == Spec => OutcomeIsFinal
<1>1. Inv /\ [Next]_vars =>
        [\A a \in Action : outcomes[a] # NoOutcome => outcomes'[a] = outcomes[a]]_vars
  <2> SUFFICES ASSUME Inv, Next, NEW a \in Action, outcomes[a] # NoOutcome
               PROVE  outcomes'[a] = outcomes[a]
    OBVIOUS
  <2>1. CASE \E s \in Sessions : CommitOutcome(s)
    BY <2>1 DEF CommitOutcome, OutcomeIsFree, Inv, TypeOK
  <2>2. CASE UNCHANGED outcomes
    BY <2>2
  <2>3. \/ \E s \in Sessions : CommitOutcome(s)
        \/ UNCHANGED outcomes
    BY DEF Next, WindowEnds, StorePayment, CreateCase, Begin, Commit, Abort,
           LoadForTransition, LoadDueCases, LoadEligibleCases, LoadForOutcome, Load,
           CommitTransition, CommitExpiry, CommitBatch, committed
  <2> QED
    BY <2>1, <2>2, <2>3
<1> QED
  BY <1>1, InvHolds, PTL DEF Spec, OutcomeIsFinal

-------------------------------------------------------------------------------
(* The control share of a batch.                                           *)

Members(x) == {k \in Cases : assigned[x][k] # NoGroup}
Controls(x) == {k \in Cases : assigned[x][k] = "CONTROL"}

SharesCounted ==
  \A x \in HaveRun :
    /\ Cardinality(Members(x)) \in Nat
    /\ Cardinality(Controls(x)) = ControlCount(Cardinality(Members(x)), share[x])

(* The sizes a control group may have: not all and not none, if the batch  *)
(* has two cases or more and the share is neither.                         *)
AllowedSizes(total, percentage) ==
  IF total >= 2 /\ percentage \in 1 .. 99 THEN 1 .. total - 1 ELSE 0 .. total

(* A hundred times the distance of a size from the exact share.            *)
Miss(size, total, percentage) ==
  LET d == 100 * size - total * percentage IN IF d < 0 THEN 0 - d ELSE d

IsNearest(size, total, percentage) ==
  /\ size \in AllowedSizes(total, percentage)
  /\ \A n \in AllowedSizes(total, percentage) :
       Miss(size, total, percentage) <= Miss(n, total, percentage)

(* docs/rule-baseline.md:35-37, `an exact control share': no other size the*)
(* control group may have is nearer to the share asked for.                *)
ControlShareIsNearest ==
  \A x \in HaveRun :
    IsNearest(Cardinality(Controls(x)), Cardinality(Members(x)), share[x])

LEMMA ProductBounds ==
  ASSUME NEW total \in Nat, NEW percentage \in 0 .. 100
  PROVE  /\ total * percentage \in Nat /\ total * percentage <= 100 * total
         /\ percentage = 0 => total * percentage = 0
         /\ percentage = 100 => total * percentage = 100 * total
         /\ total = 0 => total * percentage = 0
OBVIOUS

LEMMA ControlCountIsNearest ==
  ASSUME NEW total \in Nat, NEW percentage \in 0 .. 100
  PROVE  IsNearest(ControlCount(total, percentage), total, percentage)
<1> DEFINE m == total * percentage
           q == (m + 50) \div 100
           c == ControlCount(total, percentage)
<1>1. /\ m \in Nat /\ m <= 100 * total
      /\ percentage = 0 => m = 0
      /\ percentage = 100 => m = 100 * total
  BY ProductBounds
<1>2. c = IF total < 2 \/ percentage \in {0, 100} THEN q
          ELSE IF q < 1 THEN 1 ELSE IF q > total - 1 THEN total - 1 ELSE q
  BY DEF ControlCount, RoundedShare
<1>3. \A n \in Nat : Miss(n, total, percentage) =
        IF 100 * n - m < 0 THEN 0 - (100 * n - m) ELSE 100 * n - m
  BY DEF Miss
<1> HIDE DEF m
<1>4. q \in Nat /\ 100 * q <= m + 50 /\ m + 50 < 100 * q + 100
  BY <1>1
<1>5. percentage \in {0, 100} <=> percentage \notin 1 .. 99
  OBVIOUS
<1>6. CASE total < 2 \/ percentage \in {0, 100}
  <2>1. c = q /\ AllowedSizes(total, percentage) = 0 .. total
    BY <1>2, <1>5, <1>6 DEF AllowedSizes
  <2> HIDE DEF q, c
  <2>2. q \in 0 .. total
    BY <1>1, <1>4
  <2>3. \A n \in 0 .. total : Miss(q, total, percentage) <= Miss(n, total, percentage)
    BY <1>1, <1>3, <1>4
  <2> QED
    BY <2>1, <2>2, <2>3 DEF IsNearest, c
<1>7. CASE total >= 2 /\ percentage \notin {0, 100}
  <2>1. /\ c = IF q < 1 THEN 1 ELSE IF q > total - 1 THEN total - 1 ELSE q
        /\ AllowedSizes(total, percentage) = 1 .. total - 1
    BY <1>2, <1>5, <1>7 DEF AllowedSizes
  <2> HIDE DEF q, c
  <2>2. c \in 1 .. total - 1
    BY <1>4, <1>7, <2>1
  <2>3. \A n \in 1 .. total - 1 :
          Miss(c, total, percentage) <= Miss(n, total, percentage)
    <3> SUFFICES ASSUME NEW n \in 1 .. total - 1
                 PROVE  Miss(c, total, percentage) <= Miss(n, total, percentage)
      OBVIOUS
    <3>1. n \in Nat /\ n >= 1 /\ n <= total - 1 /\ c \in Nat
      BY <1>7, <2>2
    <3>2. /\ Miss(n, total, percentage) =
               IF 100 * n - m < 0 THEN 0 - (100 * n - m) ELSE 100 * n - m
          /\ Miss(c, total, percentage) =
               IF 100 * c - m < 0 THEN 0 - (100 * c - m) ELSE 100 * c - m
      BY <1>3, <3>1
    <3>3. CASE q < 1
      BY <1>1, <1>4, <2>1, <3>1, <3>2, <3>3
    <3>4. CASE q >= 1 /\ q > total - 1
      BY <1>1, <1>4, <2>1, <3>1, <3>2, <3>4
    <3>5. CASE q >= 1 /\ q <= total - 1
      BY <1>1, <1>4, <2>1, <3>1, <3>2, <3>5
    <3> QED
      BY <1>4, <3>3, <3>4, <3>5
  <2> QED
    BY <2>1, <2>2, <2>3 DEF IsNearest, c
<1> QED
  BY <1>6, <1>7

(* A batch counts the cases it loaded; nothing assigns a case afterwards.  *)
LEMMA BatchIsCounted ==
  ASSUME Inv, SharesCounted, NEW s \in Sessions, NEW x \in Experiments,
         NEW percentage \in Percentages, CommitBatch(s, x, percentage)
  PROVE  SharesCounted'
<1> DEFINE batch == DOMAIN session[s].copy
<1>1. batch \subseteq Cases
  BY CopyType DEF CommitBatch, Inv, TypeOK
<1>2. PICK control \in SUBSET batch :
        /\ Cardinality(control) = ControlCount(Cardinality(batch), percentage)
        /\ assigned' = [assigned EXCEPT ![x] =
             [k \in Cases |-> IF k \in batch
                THEN IF k \in control THEN "CONTROL" ELSE "TREATMENT" ELSE NoGroup]]
  BY DEF CommitBatch
<1> HIDE DEF batch
<1>3. share' = [share EXCEPT ![x] = percentage] /\ share \in [Experiments -> 0 .. 100 \cup {-1}]
  BY DEF CommitBatch, Inv, TypeOK
<1>4. /\ \A k \in Cases : assigned'[x][k] =
           IF k \in batch THEN IF k \in control THEN "CONTROL" ELSE "TREATMENT" ELSE NoGroup
      /\ \A y \in Experiments : y # x => assigned'[y] = assigned[y] /\ share'[y] = share[y]
      /\ share'[x] = percentage
  BY <1>2, <1>3 DEF Inv, TypeOK
<1>5. Members(x)' = batch /\ Controls(x)' = control
  BY <1>1, <1>4, NullAssumption DEF Members, Controls
<1>6. Cardinality(batch) \in Nat
  BY <1>1, CasesAssumption, FS_Subset, FS_CardinalityType
<1>7. ASSUME NEW y \in Experiments, y # x
      PROVE  Members(y)' = Members(y) /\ Controls(y)' = Controls(y)
  BY <1>4, <1>7 DEF Members, Controls
<1> QED
  BY <1>2, <1>4, <1>5, <1>6, <1>7 DEF SharesCounted, HaveRun

LEMMA SharesStayCounted ==
  ASSUME Inv, SharesCounted, [Next]_vars
  PROVE  SharesCounted'
<1>1. CASE UNCHANGED <<share, assigned>>
  BY <1>1 DEF SharesCounted, HaveRun, Members, Controls
<1>2. \/ \E s \in Sessions, x \in Experiments, percentage \in Percentages :
           CommitBatch(s, x, percentage)
      \/ UNCHANGED <<share, assigned>>
  BY DEF Next, WindowEnds, StorePayment, CreateCase, Begin, Commit, Abort,
         LoadForTransition, LoadDueCases, LoadEligibleCases, LoadForOutcome, Load,
         CommitTransition, CommitExpiry, CommitOutcome, committed, vars
<1> QED
  BY <1>1, <1>2, BatchIsCounted

(* _control_count, through whatever other sessions do: for every batch size*)
(* and every percentage, the control group that stands in the assignments  *)
(* is as near to the share as any that leaves both groups a case.          *)
THEOREM ControlShareIsNearestHolds == Spec => []ControlShareIsNearest
<1>1. Init => SharesCounted
  BY DEF Init, SharesCounted, HaveRun
<1>2. Inv /\ SharesCounted /\ [Next]_vars => SharesCounted'
  BY SharesStayCounted
<1>3. Inv /\ SharesCounted => ControlShareIsNearest
  <2> SUFFICES ASSUME Inv, SharesCounted, NEW x \in HaveRun
               PROVE  IsNearest(Cardinality(Controls(x)), Cardinality(Members(x)), share[x])
    BY DEF ControlShareIsNearest
  <2>1. share[x] \in 0 .. 100
    BY DEF Inv, TypeOK, HaveRun
  <2> QED
    BY <2>1, ControlCountIsNearest DEF SharesCounted
<1> QED
  BY <1>1, <1>2, <1>3, InvHolds, PTL DEF Spec

-------------------------------------------------------------------------------
(* Requests one at a time.  Everything the theorems above except for stale *)
(* copies is then promised without exception, and control cases are left   *)
(* alone: what sessions_control finds takes two requests that overlap.     *)
OneSession == \A s, t \in Sessions : s = t

Fresh(r) == \A k \in DOMAIN r.copy : r.copy[k] = cases[k]

CopiesAreFresh == stale = {} /\ \A s \in Sessions : Fresh(session[s])

LEMMA LoadsFresh ==
  ASSUME Inv, CopiesAreFresh, NEW s \in Sessions, Begin(s)
  PROVE  CopiesAreFresh'
<1>1. \E r, ks : "copy" \in DOMAIN r /\ Load(s, r, ks)
  <2>1. ASSUME NEW k \in Cases, NEW t \in Targets, LoadForTransition(s, k, t)
        PROVE  \E r, ks : "copy" \in DOMAIN r /\ Load(s, r, ks)
    BY <2>1 DEF LoadForTransition
  <2>2. CASE LoadDueCases(s) \/ LoadEligibleCases(s)
    BY <2>2 DEF LoadDueCases, LoadEligibleCases
  <2>3. ASSUME NEW a \in Action, NEW result \in Outcomes,
               NEW p \in Payments \cup {NoPayment}, LoadForOutcome(s, a, result, p)
        PROVE  \E r, ks : "copy" \in DOMAIN r /\ Load(s, r, ks)
    BY <2>3 DEF LoadForOutcome
  <2> QED
    BY <2>1, <2>2, <2>3 DEF Begin
<1>2. PICK r, ks : "copy" \in DOMAIN r /\ Load(s, r, ks)
  BY <1>1
<1>3. [r EXCEPT !.copy = Restrict(cases, ks)].copy = [k \in ks |-> cases[k]]
  BY <1>2 DEF Restrict
<1>4. /\ session' = [session EXCEPT ![s] = [r EXCEPT !.copy = Restrict(cases, ks)]]
      /\ cases' = cases /\ stale' = stale
  BY <1>2 DEF Load, committed
<1>5. session'[s].copy = [k \in ks |-> cases[k]]
  BY <1>3, <1>4 DEF Inv, TypeOK
<1>6. \A t \in Sessions : t # s => session'[t] = session[t]
  BY <1>4 DEF Inv, TypeOK
<1>7. ASSUME NEW t \in Sessions PROVE Fresh(session[t])'
  BY <1>4, <1>5, <1>6 DEF CopiesAreFresh, Fresh
<1> QED
  BY <1>4, <1>7 DEF CopiesAreFresh

(* What is committed was loaded from the row as it still is.               *)
LEMMA WritesFresh ==
  ASSUME Inv, CopiesAreFresh, OneSession, NEW s \in Sessions, NEW new,
         DOMAIN new = DOMAIN session[s].copy, Write(s, new)
  PROVE  CopiesAreFresh'
<1>1. stale' = {}
  BY DEF Write, CopiesAreFresh, Fresh
<1>2. \A t \in Sessions : session'[t] = Idle
  BY DEF Write, OneSession, Inv, TypeOK
<1>3. \A t \in Sessions : Fresh(session[t])'
  BY <1>2 DEF Fresh, Idle
<1> QED
  BY <1>1, <1>3 DEF CopiesAreFresh

LEMMA CommitsFresh ==
  ASSUME Inv, CopiesAreFresh, OneSession, NEW s \in Sessions, Commit(s)
  PROVE  CopiesAreFresh'
<1>1. CASE CommitTransition(s)
  BY <1>1, WritesFresh DEF CommitTransition
<1>2. CASE CommitExpiry(s)
  BY <1>2, WritesFresh DEF CommitExpiry
<1>3. ASSUME NEW x \in Experiments, NEW percentage \in Percentages,
             CommitBatch(s, x, percentage)
      PROVE  CopiesAreFresh'
  <2>1. PICK new : DOMAIN new = DOMAIN session[s].copy /\ Write(s, new)
    BY <1>3 DEF CommitBatch
  <2> QED
    BY <2>1, WritesFresh
<1>4. CASE CommitOutcome(s)
  BY <1>4, WritesFresh DEF CommitOutcome
<1> QED
  BY <1>1, <1>2, <1>3, <1>4 DEF Commit

LEMMA CopiesStayFresh ==
  ASSUME Inv, CopiesAreFresh, OneSession, [Next]_vars
  PROVE  CopiesAreFresh'
<1>1. CASE UNCHANGED <<cases, stale, session>>
  BY <1>1 DEF CopiesAreFresh, Fresh
<1>2. ASSUME NEW k \in Cases, NEW x \in Experiments \cup {NoExperiment},
             NEW g \in Groups \cup {NoGroup}, CreateCase(k, x, g)
      PROVE  CopiesAreFresh'
  <2>1. /\ ~Exists(k) /\ UNCHANGED <<stale, session>>
        /\ \A j : j # k => cases'[j] = cases[j]
    BY <1>2 DEF CreateCase, KeyIsFree, Inv, TypeOK
  <2>2. \A s \in Sessions : k \notin DOMAIN session[s].copy
    BY <2>1 DEF Inv, CopiesHold
  <2> QED
    BY <2>1, <2>2 DEF CopiesAreFresh, Fresh
<1>3. ASSUME NEW s \in Sessions, Abort(s)
      PROVE  CopiesAreFresh'
  <2>1. UNCHANGED <<cases, stale>>
        /\ \A t \in Sessions : session'[t] \in {session[t], Idle}
    BY <1>3 DEF Abort, committed, Inv, TypeOK
  <2> QED
    BY <2>1 DEF CopiesAreFresh, Fresh, Idle
<1>4. CASE \/ \E k \in Cases : WindowEnds(k)
           \/ \E p \in Payments : StorePayment(p)
           \/ UNCHANGED vars
  BY <1>1, <1>4 DEF WindowEnds, StorePayment, committed, vars
<1> QED
  BY <1>2, <1>3, <1>4, LoadsFresh, CommitsFresh DEF Next

LEMMA OneByOne == ASSUME OneSession PROVE Spec => [](Inv /\ CopiesAreFresh)
<1>1. Init => CopiesAreFresh
  BY DEF Init, CopiesAreFresh, Fresh, Idle
<1>2. Inv /\ CopiesAreFresh /\ [Next]_vars => CopiesAreFresh'
  BY CopiesStayFresh
<1> QED
  BY <1>1, <1>2, InvHolds, PTL DEF Spec

(* docs/rule-baseline.md:39: with requests one at a time no stale copy is  *)
(* ever written, and a control case never gets an action of any batch      *)
(* (run_batch).                                                            *)
THEOREM ControlsAreUntouchedOneByOne ==
  ASSUME OneSession PROVE Spec => [](stale = {} /\ ControlsAreUntouched)
<1>1. Inv /\ CopiesAreFresh => stale = {} /\ ControlsAreUntouched
  <2> SUFFICES ASSUME Inv, CopiesAreFresh, NEW x \in Experiments, NEW y \in Experiments,
                      NEW k \in Cases, assigned[x][k] = "CONTROL"
               PROVE  <<y, k>> \notin actions
    BY DEF CopiesAreFresh, ControlsAreUntouched
  <2>1. assigned[x][k] # NoGroup /\ k \notin stale
    BY NullAssumption DEF CopiesAreFresh
  <2> QED
    BY <2>1 DEF Inv, AssignmentStands
<1> QED
  BY <1>1, OneByOne, PTL

(* docs/recovery-cases.md:48: with requests one at a time a case that has  *)
(* ended keeps its status (RecoveryCase.transition_to and those who set the*)
(* status of a batch).                                                     *)
EndedStaysEnded ==
  [][\A k \in Cases :
       cases[k].status \in TerminalStatuses => cases'[k].status = cases[k].status]_vars

THEOREM EndedStaysEndedOneByOne ==
  ASSUME OneSession PROVE Spec => EndedStaysEnded
<1>1. ASSUME Inv, CopiesAreFresh, CopiesAreFresh', [Next]_vars, NEW k \in Cases,
             cases[k].status \in TerminalStatuses
      PROVE  cases'[k].status = cases[k].status
  <2>1. CASE UNCHANGED vars
    BY <2>1 DEF vars, committed
  <2>2. CASE Next
    <3>1. LawfulMove(k) /\ k \notin stale'
      BY <1>1, <2>2, NextKeeps DEF RowsKept, LawfulMove, CopiesAreFresh
    <3>2. \A t : <<cases[k].status, t>> \notin AllowedTransitions \cup BatchMoves
      BY <1>1 DEF AllowedTransitions, WorkflowEdges, BatchMoves, EligibleStatuses,
                  ActiveStatuses, TerminalStatuses
    <3>3. Exists(k)
      BY <1>1 DEF Exists, TerminalStatuses
    <3> QED
      BY <3>1, <3>2, <3>3 DEF LawfulMove
  <2> QED
    BY <1>1, <2>1, <2>2
<1>2. (Inv /\ CopiesAreFresh) /\ (Inv /\ CopiesAreFresh)' /\ [Next]_vars =>
        [\A k \in Cases :
           cases[k].status \in TerminalStatuses => cases'[k].status = cases[k].status]_vars
  BY <1>1
<1> QED
  BY <1>2, OneByOne, PTL DEF Spec, EndedStaysEnded
===============================================================================

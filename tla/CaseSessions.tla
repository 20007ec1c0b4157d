----------------------------- MODULE CaseSessions -----------------------------
(***************************************************************************)
(* Concurrent requests over recovery_cases: the case API, the dashboard,   *)
(* webhook handlers and the rule baseline (RuleBaselineService).           *)
(*                                                                         *)
(* The endpoints are plain `def's, so one process runs them in a thread    *)
(* pool, each with a session of its own (autoflush off, READ COMMITTED, no *)
(* row locks, no version column).  A request loads the cases it will       *)
(* change, decides on the copies, and commits the columns it changed: two  *)
(* steps, between which other sessions commit.                             *)
(*                                                                         *)
(* One merchant, active throughout; what the cases are about is left to    *)
(* RecoveryEngine.                                                         *)
(***************************************************************************)
EXTENDS Integers, FiniteSets, Functions, CaseLifecycle

CONSTANTS
  Cases,        \* (source_type, source_id) of one merchant
  Experiments,  \* bound: baseline batches that may succeed
  Payments,     \* payments an outcome may refer to
  Sessions,     \* requests in progress at a time
  NoExperiment, NoGroup, NoPayment,  \* NULL
  Targets,      \* bound: the statuses that single transitions ask for
  Percentages   \* bound: the control percentages that batches ask for

ASSUME CasesAssumption == IsFiniteSet(Cases)  \* a table
ASSUME NullAssumption ==
  /\ NoExperiment \notin Experiments
  /\ NoGroup \notin {"CONTROL", "TREATMENT"}
  /\ NoPayment \notin Payments
ASSUME BoundAssumption ==
  Targets \subseteq CaseStatuses /\ Percentages \subseteq 0 .. 100

VARIABLES
  cases,     \* recovery_cases: the committed row of each case
  overdue,   \* cases whose recovery window has ended
  captured,  \* payments stored as captured
  share,     \* experiments: the control percentage of each that exists
  assigned,  \* experiment_assignments: the group of a case in an experiment
  actions,   \* recovery_actions, by the batch and the case they are for
  outcomes,  \* action_outcomes
  session,   \* per session: the request and the copies of the cases it loaded
  stale      \* history: cases written from a copy that was out of date

committed == <<cases, share, assigned, actions, outcomes, stale>>
environment == <<overdue, captured>>
vars == <<committed, environment, session>>

Groups == {"CONTROL", "TREATMENT"}

Row == [status : CaseStatuses \cup {"NONE"},
        experiment : Experiments \cup {NoExperiment},
        group : Groups \cup {NoGroup}]

NoRow == [status |-> "NONE", experiment |-> NoExperiment, group |-> NoGroup]

Action == Experiments \X Cases

Outcomes == {"RECOVERED", "NOT_RECOVERED"}
NoOutcome == [outcome |-> "NONE", payment |-> NoPayment]

Idle == [kind |-> "idle", copy |-> <<>>]

Exists(k) == cases[k].status # "NONE"
IsActive(c) == c.status \in ActiveStatuses

Init ==
  /\ cases = [k \in Cases |-> NoRow]
  /\ overdue = {}
  /\ captured = {}
  /\ share = [x \in Experiments |-> -1]
  /\ assigned = [x \in Experiments |-> [k \in Cases |-> NoGroup]]
  /\ actions = {}
  /\ outcomes = [a \in Action |-> NoOutcome]
  /\ session = [s \in Sessions |-> Idle]
  /\ stale = {}

HaveRun == {x \in Experiments : share[x] # -1}

-------------------------------------------------------------------------------
(* Around the sessions *)

WindowEnds(k) ==
  /\ Exists(k)
  /\ overdue' = overdue \cup {k}
  /\ UNCHANGED <<captured, committed, session>>

(* A webhook stores a captured payment.                                    *)
StorePayment(p) ==
  /\ captured' = captured \cup {p}
  /\ UNCHANGED <<overdue, committed, session>>

(* An INSERT of a case, by POST /api/cases (which may name an experiment   *)
(* and a group) or by the engine (which names none); the unique key makes  *)
(* that of a second one fail, whatever its session had read.  Seeded       *)
(* fault: no such key.                                                     *)
MutKeyIsFree(k) == TRUE
KeyIsFree(k) == ~Exists(k)

CreateCase(k, x, g) ==
  /\ KeyIsFree(k)
  /\ x \in HaveRun \cup {NoExperiment}
  /\ cases' = [cases EXCEPT ![k] =
                 [status |-> "AT_RISK", experiment |-> x, group |-> g]]
  /\ UNCHANGED <<share, assigned, actions, outcomes, stale, environment, session>>

-------------------------------------------------------------------------------
(* Sessions *)

(* The request r loads the cases ks.                                       *)
Load(s, r, ks) ==
  /\ session[s] = Idle
  /\ session' = [session EXCEPT ![s] = [r EXCEPT !.copy = Restrict(cases, ks)]]
  /\ UNCHANGED <<committed, environment>>

(* The flush writes the columns in which the new rows differ from the      *)
(* loaded ones over whatever the table now holds.                          *)
Flush(row, copy, new) ==
  [f \in DOMAIN row |-> IF new[f] = copy[f] THEN row[f] ELSE new[f]]

Write(s, new) ==
  LET copy == session[s].copy IN
  /\ cases' = [k \in Cases |-> IF k \in DOMAIN new
                                 THEN Flush(cases[k], copy[k], new[k])
                                 ELSE cases[k]]
  /\ stale' = stale \cup {k \in DOMAIN new : /\ new[k] # copy[k]
                                             /\ copy[k] # cases[k]}
  /\ session' = [session EXCEPT ![s] = Idle]
  /\ UNCHANGED environment

(* A request fails, or its process dies: nothing of it is committed.       *)
Abort(s) ==
  /\ session[s] # Idle
  /\ session' = [session EXCEPT ![s] = Idle]
  /\ UNCHANGED <<committed, environment>>

(* transition_to one status: PATCH /api/cases/{case_id}/status, and the    *)
(* engine's _transition in a webhook handler.  Seeded fault: the check is  *)
(* only that the target is a status.                                       *)
MutMayMove(c, t) == c.status # "NONE"
MayMove(c, t) == ValidTransition(c.status, t)

LoadForTransition(s, k, t) ==
  /\ MayMove(cases[k], t)
  /\ Load(s, [kind |-> "transition", copy |-> <<>>, target |-> t], {k})

CommitTransition(s) ==
  LET r == session[s] IN
  /\ r.kind = "transition"
  /\ Write(s, [k \in DOMAIN r.copy |-> [r.copy[k] EXCEPT !.status = r.target]])
  /\ UNCHANGED <<share, assigned, actions, outcomes>>

(* expire_due_cases, before the active list, the dashboard and a scan.     *)
DueCases == {k \in overdue : IsActive(cases[k])}

LoadDueCases(s) ==
  /\ DueCases # {}
  /\ Load(s, [kind |-> "expire", copy |-> <<>>], DueCases)

CommitExpiry(s) ==
  LET r == session[s] IN
  /\ r.kind = "expire"
  /\ Write(s, [k \in DOMAIN r.copy |-> [r.copy[k] EXCEPT !.status = "EXPIRED"]])
  /\ UNCHANGED <<share, assigned, actions, outcomes>>

-------------------------------------------------------------------------------
(* The rule baseline *)

(* Seeded fault: cases of other experiments are not left out.              *)
MutIsEligible(c) == c.status \in EligibleStatuses
IsEligible(c) ==
  c.status \in EligibleStatuses /\ c.experiment = NoExperiment

EligibleCases == {k \in Cases \ overdue : IsEligible(cases[k])}

(* run_batch: load the eligible cases; without any it is a conflict.       *)
LoadEligibleCases(s) ==
  /\ EligibleCases # {}
  /\ Load(s, [kind |-> "batch", copy |-> <<>>], EligibleCases)

(* The size of the control group: the nearest share, but with two cases or *)
(* more and a true share neither all of them nor none.  Seeded fault:      *)
(* rounding alone.                                                         *)
RoundedShare(total, percentage) == (total * percentage + 50) \div 100

MutControlCount(total, percentage) == RoundedShare(total, percentage)

ControlCount(total, percentage) ==
  LET count == RoundedShare(total, percentage) IN
  IF total < 2 \/ percentage \in {0, 100} THEN count
  ELSE IF count < 1 THEN 1
  ELSE IF count > total - 1 THEN total - 1
  ELSE count

(* What the batch of experiment x makes of a case it puts in group g: the  *)
(* treated ones go through to DECISION_READY and get an action.  Seeded    *)
(* fault: experiment and group are swapped.                                *)
MutAssign(c, x, g) ==
  [status |-> IF g = "TREATMENT" THEN "DECISION_READY" ELSE c.status,
   experiment |-> g, group |-> x]

Assign(c, x, g) ==
  [status |-> IF g = "TREATMENT" THEN "DECISION_READY" ELSE c.status,
   experiment |-> x, group |-> g]

(* The ranking by hash may put any cases among the controls.               *)
CommitBatch(s, x, percentage) ==
  LET copy == session[s].copy
      batch == DOMAIN copy
  IN
  /\ session[s].kind = "batch"
  /\ x \notin HaveRun
  /\ \E control \in SUBSET batch :
       LET Group(k) == IF k \in control THEN "CONTROL" ELSE "TREATMENT" IN
       /\ Cardinality(control) = ControlCount(Cardinality(batch), percentage)
       /\ Write(s, [k \in batch |-> Assign(copy[k], x, Group(k))])
       /\ assigned' = [assigned EXCEPT ![x] =
            [k \in Cases |-> IF k \in batch THEN Group(k) ELSE NoGroup]]
       /\ actions' = actions \cup ({x} \X (batch \ control))
  /\ share' = [share EXCEPT ![x] = percentage]
  /\ UNCHANGED outcomes

(* record_outcome of action a.  An outcome that is there already is        *)
(* returned or a conflict; the case must be treated in the experiment it   *)
(* names now, and one that ended otherwise cannot be recovered.            *)
IsTreated(k) ==
  cases[k].experiment # NoExperiment /\ assigned[cases[k].experiment][k] = "TREATMENT"

MayRecover(c) == IsActive(c) \/ c.status = "RECOVERED"

LoadForOutcome(s, a, result, p) ==
  LET k == a[2] IN
  /\ a \in actions
  /\ outcomes[a] = NoOutcome
  /\ IsTreated(k)
  /\ IF result = "RECOVERED" THEN MayRecover(cases[k]) ELSE p = NoPayment
  /\ Load(s, [kind |-> "outcome", copy |-> <<>>, action |-> a,
              result |-> [outcome |-> result, payment |-> p]], {k})

(* A recovered outcome needs a captured payment, and ends its case.        *)
HasEvidence(result) ==
  result.outcome = "RECOVERED" => result.payment \in captured

(* The unique key of action_outcomes: a second INSERT fails, and its       *)
(* request with it (Abort).  Seeded fault: no such key.                    *)
MutOutcomeIsFree(a) == TRUE
OutcomeIsFree(a) == outcomes[a] = NoOutcome

CommitOutcome(s) ==
  LET r == session[s] IN
  /\ r.kind = "outcome"
  /\ HasEvidence(r.result)
  /\ OutcomeIsFree(r.action)
  /\ Write(s, [k \in DOMAIN r.copy |->
                 IF r.result.outcome = "RECOVERED"
                   THEN [r.copy[k] EXCEPT !.status = "RECOVERED"]
                   ELSE r.copy[k]])
  /\ outcomes' = [outcomes EXCEPT ![r.action] = r.result]
  /\ UNCHANGED <<share, assigned, actions>>

-------------------------------------------------------------------------------

Begin(s) ==
  \/ \E k \in Cases, t \in Targets : LoadForTransition(s, k, t)
  \/ LoadDueCases(s)
  \/ LoadEligibleCases(s)
  \/ \E a \in Action, result \in Outcomes, p \in Payments \cup {NoPayment} :
       LoadForOutcome(s, a, result, p)

Commit(s) ==
  \/ CommitTransition(s)
  \/ CommitExpiry(s)
  \/ \E x \in Experiments, percentage \in Percentages :
       CommitBatch(s, x, percentage)
  \/ CommitOutcome(s)

Next ==
  \/ \E k \in Cases : WindowEnds(k)
  \/ \E p \in Payments : StorePayment(p)
  \/ \E k \in Cases, x \in Experiments \cup {NoExperiment},
        g \in Groups \cup {NoGroup} : CreateCase(k, x, g)
  \/ \E s \in Sessions : Begin(s) \/ Commit(s) \/ Abort(s)

Spec == Init /\ [][Next]_vars

-------------------------------------------------------------------------------
(* Properties *)

Request ==
  UNION {
    {Idle},
    [kind : {"transition"}, copy : UNION {[{k} -> Row] : k \in Cases},
     target : CaseStatuses],
    [kind : {"expire", "batch"}, copy : UNION {[ks -> Row] : ks \in SUBSET Cases}],
    [kind : {"outcome"}, copy : UNION {[{k} -> Row] : k \in Cases},
     action : Action,
     result : [outcome : Outcomes, payment : Payments \cup {NoPayment}]]}

TypeOK ==
  /\ cases \in [Cases -> Row]
  /\ overdue \subseteq Cases
  /\ captured \subseteq Payments
  /\ share \in [Experiments -> 0 .. 100 \cup {-1}]
  /\ assigned \in [Experiments -> [Cases -> Groups \cup {NoGroup}]]
  /\ actions \subseteq Action
  /\ outcomes \in [Action -> [outcome : Outcomes \cup {"NONE"},
                              payment : Payments \cup {NoPayment}]]
  /\ session \in [Sessions -> Request]
  /\ stale \subseteq Cases

(* docs/recovery-cases.md:48: a terminal case does not reopen, nor does any*)
(* other move leave the allowed transitions (run_batch takes those from an *)
(* eligible status to DECISION_READY at once), except by a session that    *)
(* writes its copy over a row that changed since (models.py:282-284).      *)
MovesAreLawful ==
  [][\A k \in Cases :
       Exists(k) /\ cases'[k].status # cases[k].status =>
         \/ <<cases[k].status, cases'[k].status>> \in AllowedTransitions \cup BatchMoves
         \/ k \in stale']_vars

(* docs/rule-baseline.md:35-39: an assigned case is not assigned again, its*)
(* row names its experiment and group, and a control case has no action -- *)
(* of any batch -- unless a stale copy was written over it.                *)
AssignmentStands ==
  \A x \in Experiments, k \in Cases :
    assigned[x][k] # NoGroup /\ k \notin stale =>
      /\ cases[k].experiment = x
      /\ cases[k].group = assigned[x][k]
      /\ (<<x, k>> \in actions) <=> assigned[x][k] = "TREATMENT"
      /\ \A y \in Experiments \ {x} : <<y, k>> \notin actions

(* docs/rule-baseline.md:36-37: from two cases on, and with a share that   *)
(* is neither all nor nothing, both groups have a case -- stale copies or  *)
(* not.                                                                    *)
BothGroupsPopulated ==
  \A x \in Experiments :
    LET Members(g) == {k \in Cases : assigned[x][k] = g} IN
    /\ share[x] \in 1 .. 99
    /\ Cardinality(Members("CONTROL") \cup Members("TREATMENT")) >= 2
    => Members("CONTROL") # {} /\ Members("TREATMENT") # {}

(* docs/rule-baseline.md:56-60: a recovered outcome has a captured payment,*)
(* and leaves its case RECOVERED, whatever webhooks, expiry and PATCH      *)
(* requests do about the case meanwhile (but for stale copies).            *)
RecoveredOutcomeHolds ==
  \A a \in actions :
    outcomes[a].outcome = "RECOVERED" =>
      /\ outcomes[a].payment \in captured
      /\ a[2] \notin stale => cases[a[2]].status = "RECOVERED"

(* docs/rule-baseline.md:59-60: one outcome per action, also when two      *)
(* requests both found none.                                               *)
OutcomeIsFinal ==
  [][\A a \in Action :
       outcomes[a] # NoOutcome => outcomes'[a] = outcomes[a]]_vars

-------------------------------------------------------------------------------
(* What the documents say and the code does not do.                        *)

(* docs/rule-baseline.md:39: control cases receive no decision or action.  *)
ControlsAreUntouched ==
  \A x, y \in Experiments, k \in Cases :
    assigned[x][k] = "CONTROL" => <<y, k>> \notin actions
===============================================================================

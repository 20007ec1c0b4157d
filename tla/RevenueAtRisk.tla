----------------------------- MODULE RevenueAtRisk -----------------------------
(***************************************************************************)
(* The dashboard: GET /api/dashboard/summary (RevenueAtRiskAggregator)     *)
(* over recovery cases and decisions that other requests keep writing, and *)
(* the web page that polls it.                                             *)
(*                                                                         *)
(* A summary request works in one transaction of several statements (READ  *)
(* COMMITTED, autoflush off): it loads the due cases to expire them, lists *)
(* the active ones, reads their decisions, and commits.  The page sends a  *)
(* request every three seconds whether or not the previous one has been    *)
(* answered, and shows what came last.                                     *)
(*                                                                         *)
(* Time is discrete; fractions are exact, where the code divides doubles   *)
(* and may fall short of a tie by their last digit.  The amount of a case  *)
(* is fixed: partial payments of a link, which change it, are left out.    *)
(***************************************************************************)
EXTENDS Integers, FiniteSets, FiniteSetsExt, Functions

CONSTANTS
  Cases,          \* recovery cases, numbered in the order of their ids
  Currency,       \* case -> currency
  Opens, Closes,  \* case -> its recovery window
  Amount,         \* case -> amount at risk, in minor units
  Scored,         \* bound: cases that get decisions while the page polls
  Estimates,      \* bound: recovery_probability values, in parts of One
  One,            \* the probability 1
  NoEstimate,     \* no value, or none that is a number
  NoDecision,
  Requests,       \* bound: summary requests in flight
  TopLimit,       \* top_limit
  Nothing,        \* the page before its first answer
  MaxTime, MaxDecisions  \* bounds

ASSUME WindowAssumption ==
  /\ Cases \subseteq Nat /\ IsFiniteSet(Cases) /\ Scored \subseteq Cases
  /\ Opens \in [Cases -> Nat] /\ Closes \in [Cases -> Nat]
  /\ \A c \in Cases : Opens[c] < Closes[c]  \* ck_recovery_cases_window_order
ASSUME ValueAssumption ==
  /\ Amount \in [Cases -> Nat \ {0}]  \* ck_recovery_cases_amount_at_risk_positive
  /\ One \in Nat \ {0} /\ Estimates \subseteq Int
  /\ TopLimit \in 1 .. 50
ASSUME BoundsAssumption == {MaxTime, MaxDecisions} \subseteq Nat

VARIABLES
  now,
  status,     \* recovery_cases.status: "NONE" (no row yet), "AT_RISK" (active),
              \* or "TERMINAL" (any of the terminal ones)
  decisions,  \* recovery_decisions: committed rows
  request,    \* summary requests
  screen      \* the page

table == <<status, decisions>>
vars == <<now, table, request, screen>>

Decision == [case : Scored, at : 0 .. MaxTime,
             estimate : Estimates \cup {NoEstimate}]

ASSUME NullAssumption == NoDecision \notin Decision

(* A summary: which cases were listed when, with which decisions.          *)
SummaryOf(cs, at) ==
  [at |-> at, listed |-> cs, used |-> [c \in cs |-> NoDecision]]

Idle == [pc |-> "idle"]

Init ==
  /\ now = 0
  /\ status = [c \in Cases |-> "NONE"]
  /\ decisions = {}
  /\ request = [r \in Requests |-> Idle]
  /\ screen = Nothing

-------------------------------------------------------------------------------
(* What others do.                                                         *)

Tick ==
  /\ now < MaxTime /\ now' = now + 1
  /\ UNCHANGED <<table, request, screen>>

CreateCase(c) ==
  /\ status[c] = "NONE"
  /\ status' = [status EXCEPT ![c] = "AT_RISK"]
  /\ UNCHANGED <<now, decisions, request, screen>>

(* A case is recovered, stopped or exhausted.                              *)
EndCase(c) ==
  /\ status[c] = "AT_RISK"
  /\ status' = [status EXCEPT ![c] = "TERMINAL"]
  /\ UNCHANGED <<now, decisions, request, screen>>

(* A decision about an active case gets its created_at before its          *)
(* transaction commits, the baseline's when its batch begins: rows appear  *)
(* in any order of that.  Those of the baseline have no estimate.  Equal   *)
(* times of one case, which random ids would order, are left out.          *)
AddDecision(d) ==
  /\ status[d.case] = "AT_RISK"
  /\ d.at <= now /\ d.at < Closes[d.case]
  /\ Cardinality(decisions) < MaxDecisions
  /\ ~\E e \in decisions : e.case = d.case /\ e.at = d.at
  /\ decisions' = decisions \cup {d}
  /\ UNCHANGED <<now, status, request, screen>>

-------------------------------------------------------------------------------
(* The calculations.                                                       *)

(* quantize(1, ROUND_HALF_UP) of a fraction that is not negative.  Seeded  *)
(* fault: int() alone.                                                     *)
MutRounded(n, d) == n \div d
Rounded(n, d) == (2 * n + d) \div (2 * d)

(* _latest_decisions.  Seeded fault: the oldest one.                       *)
MutLatest(c) ==
  LET of == {d \in decisions : d.case = c} IN
  IF of = {} THEN NoDecision ELSE CHOOSE d \in of : \A e \in of : d.at <= e.at

Latest(c) ==
  LET of == {d \in decisions : d.case = c} IN
  IF of = {} THEN NoDecision ELSE CHOOSE d \in of : \A e \in of : d.at >= e.at

IsEstimated(s, c) ==
  /\ s.used[c] # NoDecision
  /\ s.used[c].estimate # NoEstimate
  /\ s.used[c].estimate \in 0 .. One

Estimated(s) == {c \in s.listed : IsEstimated(s, c)}

Expected(s, c) == Rounded(Amount[c] * s.used[c].estimate, One)

(* Seeded fault: `expected_amount or 0'.                                   *)
MutBasis(s, c) == IF IsEstimated(s, c) THEN Expected(s, c) ELSE 0
Basis(s, c) == IF IsEstimated(s, c) THEN Expected(s, c) ELSE Amount[c]

Length(c) == Closes[c] - Opens[c]

(* What remains of the window, no more than all of it.  Seeded fault: what *)
(* has gone by.                                                            *)
MutRemaining(c, at) == Max({0, Min({at - Opens[c], Length(c)})})
Remaining(c, at) == Max({0, Min({Closes[c] - at, Length(c)})})

PriorityScore(s, c) ==
  Rounded(Basis(s, c) * (2 * Length(c) - Remaining(c, s.at)), Length(c))

Outranks(s, c, d) ==
  LET p == PriorityScore(s, c)
      q == PriorityScore(s, d)
  IN \/ p > q
     \/ p = q /\ Amount[c] > Amount[d]
     \/ p = q /\ Amount[c] = Amount[d] /\ c > d

TopOpportunities(s) ==
  {c \in s.listed : Cardinality({d \in s.listed : Outranks(s, d, c)}) < TopLimit}

InCurrency(s, x) == {c \in s.listed : Currency[c] = x}

RevenueAt(s, x) == MapThenSumSet(LAMBDA c : Amount[c], InCurrency(s, x))

ExpectedRecoverable(s, x) ==
  MapThenSumSet(LAMBDA c : Expected(s, c), InCurrency(s, x) \cap Estimated(s))

-------------------------------------------------------------------------------
(* A summary request.                                                      *)

(* The page's interval fires; expire_due_cases loads what is due.  Seeded  *)
(* fault: the page stops once it has an answer.                            *)
MutPoll(r) ==
  /\ request[r] = Idle /\ screen = Nothing
  /\ request' = [request EXCEPT ![r] =
       [pc |-> "list", summary |-> SummaryOf({}, 0), expiring |-> {}]]
  /\ UNCHANGED <<now, table, screen>>

Poll(r) ==
  /\ request[r] = Idle
  /\ request' = [request EXCEPT ![r] =
       [pc |-> "list", summary |-> SummaryOf({}, 0),
        expiring |-> {c \in Cases : status[c] = "AT_RISK" /\ Closes[c] <= now}]]
  /\ UNCHANGED <<now, table, screen>>

(* list_active: the expiry is not flushed yet.  Seeded fault: only the     *)
(* status is asked for.                                                    *)
MutActive(c) == status[c] = "AT_RISK"
Active(c) == status[c] = "AT_RISK" /\ Closes[c] > now

ListActive(r) ==
  /\ request[r].pc = "list"
  /\ request' = [request EXCEPT ![r].pc = "decide",
       ![r].summary = SummaryOf({c \in Cases : Active(c)}, now)]
  /\ UNCHANGED <<now, table, screen>>

(* The decisions are read, the summary computed, the expiry committed over *)
(* whatever the rows say by now.                                           *)
BuildSnapshot(r) ==
  /\ request[r].pc = "decide"
  /\ request' = [request EXCEPT ![r].pc = "answered",
       ![r].summary.used = [c \in request[r].summary.listed |-> Latest(c)]]
  /\ status' = [c \in Cases |->
       IF c \in request[r].expiring THEN "TERMINAL" ELSE status[c]]
  /\ UNCHANGED <<now, decisions, screen>>

Show(r) ==
  /\ request[r].pc = "answered"
  /\ screen' = request[r].summary
  /\ request' = [request EXCEPT ![r] = Idle]
  /\ UNCHANGED <<now, table>>

(* The request or its answer is lost; the page keeps what it shows.        *)
RequestFails(r) ==
  /\ request[r] # Idle
  /\ request' = [request EXCEPT ![r] = Idle]
  /\ UNCHANGED <<now, table, screen>>

Serve(r) == ListActive(r) \/ BuildSnapshot(r) \/ Show(r)

Next ==
  \/ Tick
  \/ \E c \in Cases :
       CreateCase(c) \/ EndCase(c)
  \/ \E d \in Decision : AddDecision(d)
  \/ \E r \in Requests : Poll(r) \/ Serve(r) \/ RequestFails(r)

Spec == Init /\ [][Next]_vars

(* The interval keeps firing, and the service answers: requests fail only  *)
(* finitely often.                                                         *)
FairSpec ==
  /\ Spec
  /\ WF_vars(\E r \in Requests : Poll(r))
  /\ \A r \in Requests : WF_vars(Serve(r))
  /\ <>[][~\E r \in Requests : RequestFails(r)]_vars
-------------------------------------------------------------------------------

Answered == {r \in Requests : request[r].pc = "answered"}

Summaries ==
  {request[r].summary : r \in Answered}
    \cup (IF screen = Nothing THEN {} ELSE {screen})

(* docs/revenue-at-risk.md:19 -- nonterminal, unexpired cases.  A summary  *)
(* lists no case that it expires itself or whose window is over at the     *)
(* time it gives, although the expiry is not flushed when the cases are    *)
(* listed and the clock goes on between the two.                           *)
ListedIsLive ==
  \A r \in Answered :
    /\ request[r].summary.listed \cap request[r].expiring = {}
    /\ \A c \in request[r].summary.listed : Closes[c] > request[r].summary.at

(* docs/revenue-at-risk.md:19,22 -- per currency: what is expected is no   *)
(* more than what is at risk, and rounding case by case strays from the    *)
(* exact sum by at most half a unit per case.                              *)
ExpectedIsWithinRevenue ==
  \A s \in Summaries : \A x \in {Currency[c] : c \in Cases} :
    LET cs == InCurrency(s, x) \cap Estimated(s)
        exact == MapThenSumSet(LAMBDA c : Amount[c] * s.used[c].estimate, cs)
        error == 2 * (One * ExpectedRecoverable(s, x) - exact)
    IN /\ ExpectedRecoverable(s, x) \in 0 .. RevenueAt(s, x)
       /\ error \in -(One * Cardinality(cs)) .. One * Cardinality(cs)

(* docs/revenue-at-risk.md:41 -- urgency: the priority of a case whose     *)
(* amount and decision stay the same never falls over time, and lies       *)
(* between its basis and twice that, before its window begins as well.     *)
UrgencyGrows ==
  \A s \in Summaries : \A c \in s.listed :
    /\ PriorityScore(s, c) \in Basis(s, c) .. 2 * Basis(s, c)
    /\ \A t \in Summaries :
         c \in t.listed /\ t.at >= s.at
           /\ t.used[c] = s.used[c] =>
           PriorityScore(t, c) >= PriorityScore(s, c)

(* docs/revenue-at-risk.md:45 -- an opportunity without an estimate stays  *)
(* visible: no case of a smaller amount and the same window takes its      *)
(* place among the top ones, however it is estimated.                      *)
UnscoredStaysVisible ==
  \A s \in Summaries : \A c \in s.listed \ Estimated(s) :
    \A d \in TopOpportunities(s) :
      Amount[d] < Amount[c] /\ Opens[d] = Opens[c] /\ Closes[d] = Closes[c] =>
        c \in TopOpportunities(s)

(* docs/revenue-at-risk.md:22 -- "latest persisted": a summary built later *)
(* never goes back to an older decision of a case, in whatever order the   *)
(* transactions that made the decisions commit.                            *)
LaterShowsNewer ==
  [][\A r \in Requests : BuildSnapshot(r) =>
       \A s \in Summaries : \A c \in s.listed \cap request'[r].summary.listed :
         s.used[c] # NoDecision =>
           /\ request'[r].summary.used[c] # NoDecision
           /\ request'[r].summary.used[c].at >= s.used[c].at]_vars

(* docs/project-submission-guide.md:128 -- polling makes new records       *)
(* visible.  Cases come and go and their windows close finitely often      *)
(* here; from some time on the page then shows exactly the cases that are  *)
(* at risk, although answers arrive out of order and the page shows every  *)
(* answer it gets.                                                         *)
ScreenCatchesUp ==
  <>[](screen # Nothing /\ screen.listed = {c \in Cases : Active(c)})
===============================================================================

# Verification of the recovery control plane

TLA+ modules of the service under `src/apps/api/app`, of the dashboard page
and of the files that simulator and training exchange, the TLC runs that check
them on small instances, and proofs checked by TLAPS. Paths below are relative
to `src/apps/api/app` unless they start with another directory.

The service receives payment webhooks, reads what they name from the payment
provider, keeps a *recovery case* for money at risk, and closes the case when the
money arrives, the window ends, or recovery must stop. A rule baseline assigns
cases to control and treatment groups and records outcomes, and a dashboard shows
what is at risk. Beside the service, a simulator publishes data sets and a
trainer makes models of them.

## 1. Inventory

| Part | State it keeps | Operations | Modelled in |
|---|---|---|---|
| Webhook boundary (`api/webhooks.py`) | none | check, hand over, answer 200 / 503 | `WebhookInbox` |
| Webhook inbox (`webhooks/service.py`, `repository.py`) | `webhook_events`: status, attempts | record, mark_ignored, mark_processing, mark_processed, mark_failed | `WebhookInbox`, `EventLedger` |
| Reconciler (`webhooks/reconciliation.py`) | `payments`, `orders`, `payment_links` (local copies) | read the provider, sync rows, correlate a case | `RecoveryEngine` |
| Case engine (`recovery/engine.py`) | `recovery_cases`, `audit_events` | handle_webhook, scan_unpaid_orders, expire_due_cases | `RecoveryEngine`, ownership in `MerchantOwnership` |
| Case lifecycle (`domain/`) | status of a case | allowed transitions | `CaseLifecycle`, `CaseRegister` |
| Case API, repository (`api/cases.py`, `repositories/`) | `recovery_cases` | create, list active, scan, PATCH status | `RecoveryEngine`, `CaseSessions`, POST also in `MerchantOwnership` |
| Rule baseline (`baseline/`, `api/baselines.py`) | `experiments`, `experiment_assignments`, `recovery_decisions`, `recovery_actions`, `action_outcomes` | run_batch, record_outcome, report | `CaseSessions`, `RecoveryEngine` (rates of the report left out) |
| Analytics, dashboard API (`analytics/`, `api/dashboard.py`) | none (expires due cases) | summary: list, decisions, sums, ranking | `RevenueAtRisk`; the expiry also in `RecoveryEngine` |
| Dashboard page (`src/apps/web/app/page.tsx`) | what it shows | poll, show | `RevenueAtRisk` |
| Gateway adapter (`integrations/`) | none | provider reads | one read = one read of the provider's state |
| Simulator (`src/simulator`) | data set on disk | publish | `DatasetPublication` (random generation left out) |
| ML (`src/ml`) | model and metadata on disk | load, train, save | `DatasetPublication` (numerics left out) |
| Development seed (`db/seed.py`) | merchant, customer, a case | insert what is missing | Init and `PostCase` of `RecoveryEngine`, `MapAccount` of `MerchantOwnership` |
| Health, configuration, logging | settings | probes | not modelled (no protocol) |

**How they interact.** `POST /webhooks/razorpay` calls the inbox, which calls the
reconciler and the engine in one database transaction of the same session; the
engine reads the provider through the gateway and the local tables. The
dashboard page polls two GET endpoints every three seconds, and both expire due
cases; nothing else does so in the background. The baseline and the PATCH and POST
endpoints write the same `recovery_cases` rows. Simulator and trainer share only
the directory of a data set.

**What runs at the same time.** The webhook handler is an `async def` whose body
does not await after the request body is read, so one process (the shipped
`uvicorn` command starts one) handles one webhook at a time; several processes
would interleave between transactions. The other endpoints are plain `def`s,
which FastAPI runs in a thread pool: they overlap with each other and with the
webhook handler in any deployment. Sessions do not lock rows and rows carry no
version. The page polls on an interval and does not wait for answers. Command-line
processes take no lock on the files they replace.

**What is hard.** Deliveries repeated, lost, late and in any order; reads of the
provider that age while it moves on; failures and crashes between two
transactions; orders with several cases; time, opt-outs and closing merchants
between two signals; sessions that write over what others committed; rows of
several merchants looked up by resource alone; decisions that commit in another
order than they are dated, answers that overtake each other; processes that die
between two renames. Each is
listed with its line under `hazards` in `PROJECT.json`.

**What makes each part correct.**
- Inbox: an event takes effect exactly once or is ignored; the provider is told
  2xx only about settled events; every event is settled in the end; a row in
  PROCESSING has a worker.
- Reconciler: local rows never go back in time.
- Engine: a case is closed as recovered only on evidence the provider has; what was
  paid ends its case; ended cases stay ended; a case the engine opens starts live;
  overdue cases end; what the engine does to a case its audit tells, between
  writers that tell nothing; what belongs to one merchant is never stored or written
  for another.
- Sessions and baseline: moves are lawful; one experiment per case; controls are
  left alone; both groups exist; outcomes are final and backed by a payment.
- Analytics and page: only live cases are listed; what is expected is no more than
  what is at risk and off by rounding alone; urgency grows; cases without an estimate
  stay visible; a later summary shows no older decision; the page catches up.
- Data sets and models: a finished run is loadable and stays so; a model is fitted to
  the whole data that its manifest tells, and its version is that data's; metadata describe the model in place.

## 2. Modules

**`CaseLifecycle`** -- the statuses and `ALLOWED_TRANSITIONS` as a relation.
`CaseRegister`, `RecoveryEngine` and `CaseSessions` extend it.

**`CaseRegister`** -- the abstract life of the cases: opened once for a positive
amount, one allowed transition at a time (or the several that a baseline batch makes
at once, `BatchMoves`) with window and customer kept, frozen at the end. `RecoveryEngine` implements it (`ImplementsRegister`); its audit and all that
decides between the moves are the detail.

**`EventLedger`** -- the abstract promise of the webhook boundary: effects at most
once, or ignored, never both; 2xx only for settled events. `WebhookInbox` maps its
`told` to the answered events that no crash has orphaned.

**`WebhookInbox`** -- workers (API processes) over `webhook_events`. One action per
database transaction of `ingest` and the repository: `Record` (select), `Insert`
(the commit, or the IntegrityError of the loser), `Refresh`, `AnswerDuplicate`,
`MarkIgnored`, `MarkProcessing`, `MarkProcessed` (business effects and status in
one commit), `ReconcileRaises`, `MarkFailed`, and `Crash` between any two.
`session[w].copy` is the ORM object in memory, from which `mark_processing` counts
attempts. `inserted`, `started` and `applied` are history variables.
`answered` is what the provider has seen; an answer may be lost.

**`RecoveryEngine`** -- the provider (payments, orders, links), the webhooks it has
yet to deliver, the handlers, the local tables, the cases with their audit, the
clock, and the endpoints. A handler reads payment, link and order one after the
other (`BeginHandling`, `ReadLinkPayment`); the provider moves on in between. It
then decides and commits in one step, one action per branch of `_handle_payment`
and `_handle_payment_link`. An exception puts the webhook back (`RaiseUnproven`).
Every endpoint is one step here: `ListActiveCases` (the list and the dashboard),
`ScanUnpaidOrders`, `PostCase`, `UpdateStatus` (PATCH), `RunBatch`, `RecordRecovered` and
`RecordNotRecovered`. `PostCase` takes any amount, window end and customer the
request names and looks at neither merchant, consent nor clock, as the code
does (the seed script inserts its case the same way). The last five are bounded by
`MaxRequests` and leave no audit row that tells a creation or a status; `log` holds
the two kinds of row that do. A batch's groups are a free choice here
(`CaseSessions` has them). Amounts are small numbers, resource attributes are
reduced to what decisions look at. There is one merchant; webhooks carry its account
or none (`NoMerchant` is then a webhook about resources nobody has stored).

**`MerchantOwnership`** -- what `RecoveryEngine` leaves out: several merchants,
accounts mapped at any time, rows imported for one merchant and webhooks for
another. `Conflict` and `Resolved` are `_resolve_merchant`, `Stored` is
`_ensure_resources`, `Correlated` looks cases up by source alone. One webhook is
one step, and what it does to a case is reduced to ending it, putting it at
risk, or neither. `writer` remembers the merchant a webhook last wrote a case for,
`posted` the cases of `POST /api/cases`, which checks no ownership.

**`CaseSessions`** -- the same cases seen as rows that sessions load and write:
each request is a load step and a commit step. The commit writes only the columns
that differ from the loaded copy (`Flush`), as the ORM does. `stale` collects the
cases that were written from a copy that was out of date. `LoadForTransition`
stands for PATCH and for the engine's `_transition`, `LoadDueCases` for expiry,
`LoadEligibleCases`/`CommitBatch` for `run_batch`, `LoadForOutcome`/`CommitOutcome`
for `record_outcome`, `CreateCase` for every INSERT of a case. The reads of one
request are taken at one instant: what they look at besides the case itself either
only grows (captured payments, assignments) or is guarded by a unique key at the
commit (outcomes). The merchant is active throughout.

**`RevenueAtRisk`** -- the summary request in its statements (`ListActive` with the
clock of the expiry, `BuildSnapshot` with a later clock and the decisions committed
by then, `Show`), beside cases, decisions and a clock that move on; then the
calculations as operators: half-up rounding, basis, priority, ranking, totals. The
page polls whether or not the last answer came, shows any answer that arrives and
keeps what it shows when a request fails. Fractions are exact, where the code
divides doubles.

**`DatasetPublication`** -- files, their temporary names and the processes that
write, rename, verify and read them, one action per operation on one file. A whole
file is represented by the configuration it was made with, which stands for its
checksum, too; a file being written is "partial", by two processes "torn".
A process may die between any two operations. `Aligned`, the loader's comparison of
row counts and ids, lets a cut-off or torn file agree with any other, because ids
depend on seed and index alone: the model admits more pairs than the code, which
may also reject them (`LoadRaises`). The `finally` that unwinds an exception is one
step. `alone` (no other generator or trainer ran meanwhile), `disturbed` and
`halfSaved` are history variables.

The `MC` modules hold the instances, the `Proofs` modules the theorems:
`WebhookInboxProofs`, `MerchantOwnershipProofs`, `CaseSessionsProofs`,
`RevenueAtRiskProofs` and `DatasetPublicationProofs` extend the module they are
named after; `RecoveryEngineProofs` (audit and register), `RecoveryMoneyProofs`
(cases against what the provider has) and `RecoveryOrderProofs` (late and reordered
webhooks) build on one another. Operators
whose name starts with `Mut` are seeded faults: each property is checked to fail
when the definition it guards is replaced by one.

## 3. Runs

| Run | Instance | Shows |
|---|---|---|
| `inbox_single` | 1 worker, 2 supported and 1 unsupported event, 2 failures, 2 crashes, fair | types, `EffectsMatchStatus`, `AttemptsCountStarts`, `AnsweredIsSettled`, `SettledIsFinal`, the inbox implements `EventLedger`, `EventuallySettled` |
| `inbox_replicas` | 2 workers, 2 events, 2 failures, 1 crash | `InsertedOnce`, `OrphansAreCrashes` under races |
| `inbox_orphan` | 1 worker, 1 crash | *violated*: an answered event has an owner |
| `engine_links` | 2 instalments of 1 through one link of 2, one refundable, a known order that may be scanned, 2 undelivered webhooks without an account | types, `RecoveredHasEvidence`, `PaidResourceEndsOwnCase`, `LocalNeverRegresses`, webhooks, scans and expiry implement `CaseRegister` |
| `engine_seeded` | 1 payment of a known order with a customer, opt-out, closing merchant, 2 requests out of POST, PATCH, batch and outcome, time up to the window's end, fair | `AuditIsLawful`, `RecoveredHasEvidence`, `AuditIsAppended`, `NewCasesAreLive`, all endpoints implement `CaseRegister`, `OverdueCasesEnd` |
| `engine_audit` | as `engine_seeded`, 1 request | *violated*: the audit tells every creation and status |
| `engine_unpaid_sibling` | 2 attempts (1 and 2 of 2) on one order, 2 undelivered webhooks | *violated*: a paid order ends its cases |
| `sessions_pair` | 2 sessions, 2 cases, 2 batches at 1 %, 1 payment | `MovesAreLawful`, `AssignmentStands`, `BothGroupsPopulated`, `RecoveredOutcomeHolds`, `OutcomeIsFinal`, types |
| `sessions_control` | 2 sessions, 2 cases, 2 batches at 50 % | *violated*: controls are untouched |
| `datasets` | 2 generators, 2 trainers, 2 configurations, 4 starts, 2 faults | types, `TrainedOnVerified`, `FittedToPublished`, `MetadataTellsModel`, `FinishedIsLoadable`, `RerunStaysLoadable` |
| `revenue` | 2 cases of one currency, 2 requests, 2 decisions, 3 instants, a top list of one, fair | `ListedIsLive`, `ExpectedIsWithinRevenue`, `UrgencyGrows`, `UnscoredStaysVisible`, `LaterShowsNewer`, `ScreenCatchesUp` |
| `ownership` | 2 merchants, 2 accounts, an order with a payment and a link in one, a payment in the other; the order imported; 1 posted case | `OwnersAgree`, `CasesFollowOwners` |

**Bounds.** Two workers or sessions are enough for every race in the code, since
each is between one reader and one committer; a third event, case or payment only
adds an independent row. `MaxPending` is the number of undelivered webhooks at a
time, not in all: two let failed and captured, or the events of two instalments, wait
together and be delivered in either order. Two requests let a posted or
scanned case be batched and its outcome be recorded, or a PATCH come between two
webhooks; `PostedEnds` = 1 is the window's end, so that a case posted at instant 1 is
overdue from the start. Amounts of 1 and 2 tell apart "part", "all" and "nothing
due". The window is 1 or 2 ticks and the clock reaches its end. A share of 1 %
of two cases rounds to none, so the clamp of `_control_count` is what is checked.
In `datasets`, four starts let a generator or trainer run again after two that interleaved, and two
faults leave the debris of both. In `revenue`, a window of two ticks has a beginning,
a middle and an end; the case worth 1, estimated at 3/4, is rounded to its whole
amount and competes with an unscored case worth 3 for a top list of one. In `ownership`, the imported order belongs
to a merchant whose account is not mapped yet, so a payment of the order may be seen
before, while and after its account gets a merchant. Symmetry is used only in runs
without liveness properties.

**What the violated runs say.** They quote a document and show a run of the code
that differs; `findings` in `PROJECT.json` has the lines.
- `inbox_orphan`: a request cut off after `mark_processing` leaves PROCESSING; the
  retry is answered 200 as "currently processing" and nothing works on it.
- `engine_unpaid_sibling`: `_find_correlated_case` returns one case, so the case of an
  earlier failed attempt stays active when another attempt pays the order (until
  its window ends).
- `sessions_control`: two overlapping batches both take the same cases.
- `engine_audit`: `docs/recovery-cases.md` says that creation and status changes append
  audit events. POST inserts a case without one; PATCH, batches and outcomes move a
  status without one that tells it. What holds instead is `AuditIsAppended` and
  `AuditIsLawful`: the engine tells everything it does, from the status it finds, and
  its closing is the last word.

**What counts as recovered.** `RecoveredHasEvidence` speaks of the cases the *engine*
closes, and asks of an order's own case no more than the code does: that some payment
of the order was captured. The first instalment captured on a scanned order closes its
case for the whole amount, whatever is still due (`_handle_payment`, `engine.py:166`).
`src/IMPLEMENTATION_PLAN.md:1280` would have the order verified as well; it is a plan,
so no run reports it as a divergence. A status set to RECOVERED by PATCH or an outcome
leaves no such entry and is not meant (an outcome needs *a* captured payment,
`CaseSessions`).

**Reading `stale`.** With one session at a time no case is ever stale, so the
properties of `sessions_pair` are then unconditional. With two, a terminal case
*can* be reopened, for example by a batch that loaded it before a webhook closed it:
`MovesAreLawful` says that this is the only way. `RecoveryEngine`, where every
endpoint is one step, therefore implements `CaseRegister` for transactions that do
not overlap on a case.

## 4. Fairness

- `WebhookInbox!FairSpec`: weak fairness of each worker's next step (a request that
  was accepted goes on) and strong fairness of the redelivery of an event that was
  not seen answered. The second is an assumption about the provider, which retries
  what it got no 2xx for (`src/docs/webhooks.md`), and about a server that takes
  requests in order. `MaxFailures` stands for "failures end at some time".
- `RecoveryEngine!FairSpec`: weak fairness of `ListActiveCases` alone: the dashboard
  page polls it (`src/apps/web/app/page.tsx`). Without anyone looking, an overdue
  case stays active; no background job expires it.
- `RevenueAtRisk!FairSpec`: weak fairness of `Poll` (the interval fires as long as the
  page is open) and of each request's next step (the service answers), and requests
  fail only finitely often: while every request fails, the page rightly keeps what it
  shows. Nothing is assumed about the order of answers.

## 5. Proofs

All theorems hold for every value of the constants that the named assumptions
admit.

`WebhookInboxProofs`
- `TypeCorrect`, `InsertedOnceHolds`: inductive as they stand, together
  (`RowKnown` adds that a session past `Record` works on a row that exists).
- `OrphansAreCrashesHolds`: every step but `Crash` orphans no event and `Crash`
  orphans at most the one in its hands; the proof bounds the cardinality of the
  set step by step.
- `EffectsMatchStatusHolds`, `AttemptsCountStartsHolds`, `SettledIsFinalHolds`
  assume `OneWorker`, which the code needs: with two, an event can be reconciled
  twice. The invariant `SingleInv` adds `HandIsCurrent` (a worker that dispatches has a copy equal to
  the row, one in work finds it PROCESSING) and `AbsentIsUntouched`.
- `AnsweredIsSettledHolds`: from `SingleInv`, and from `OrphansStay`: what a crash
  orphaned stays PROCESSING, so that its later answers are the exception the
  property names.
- `ImplementsLedgerHolds`: under `OneWorker`, crashes included, every step is a step
  of `EventLedger` or a stutter.
- `EffectsAccountedHolds`, `AttemptsLagHolds`: what is left where several processes work
  on one event. The effects of an event and the workers still at it never exceed the
  reconciliations begun, a PROCESSED event has effects, and an unsupported one is never
  worked on; lost increments make `processing_attempts` too low, never too high, and
  never zero once work began. `WorkIsCounted` counts the workers in the reconciler,
  `CountsLag` bounds the copy each worker holds.
- `AnsweredHasOwnerUncut`: what the finding of `inbox_orphan` needs. One process that has
  not crashed so far leaves no answered event unsettled without a worker on it; so
  the disagreement with `src/docs/architecture.md` is due to crashes alone.

`RecoveryEngineProofs`
- `TypeCorrect`, `AuditIsLawfulHolds`, `ImplementsRegisterHolds`. The invariant is
  `TypeOK /\ AuditIsLawful /\ CasesAreWorth` (a case has a positive amount).
  `Kept(old, new)` -- well-formed, lawful, worth something, and a move of the register
  from `old` -- is shown for each operation on one case (close, expire if due, stop
  conditions, set the amount, create, post, move), then for each transaction; the three
  theorems are its parts. `ClosingMoves` is why operations compose: from every active
  status each closing is allowed, so a move and a closing after it are again one move.
  A posted case has an empty audit, to which the engine may later append a closing;
  the requests keep audits lawful because they move active cases only
  (`ActiveIsOnlyCreated`: a case that is active has no closing in its audit).

`MerchantOwnershipProofs`
- `OwnersAgreeHolds`, `CasesFollowOwnersHolds`, for any merchants, accounts and
  resources. The core is `HandledForOwner`: if no conflict is raised, every row the
  webhook reads is the resolved merchant's or is stored for it now. The invariant
  adds the types, that a link is bound only to a case of its own source
  (`LinkedIsOwn`; otherwise the lookup through a link could reach any case), and that a
  case that is not there has no writer (`WritersExist`).

`RecoveryMoneyProofs`
- `NextWrites`: every step of the system writes each case in one of the ways that
  `Written` lists: not at all, by the engine (`ByEngine`: expired, closed on evidence, put
  at risk, created), or by a request that leaves its audit alone (`ByRequest`). Each
  property of cases is then a property of that list.
- `RecoveredHasEvidenceHolds`: `Written` closes a case as recovered on what a worker has
  *read*. The invariant `Grounds` says that it is still true when it is used: what was
  read as captured or paid is so at the provider (`ReadingsHold`), and a link leads to
  its own case or none (`LinksPointHome`). `EvidenceStays` says that the provider never
  takes back what an earlier closing rests on. For any number of workers.
- `NewCasesAreLiveHolds`: from the same list: every creation by the engine passes the stop
  conditions and the expiry in its own transaction; a posted case has an empty audit.
- `AuditIsAppendedHolds`: each closing in `Written` starts from the status it finds, and
  closings compose because closing an ended case does nothing; requests leave the audit
  as it is.

`RecoveryOrderProofs`. `LocalNeverRegressesHolds` and `PaidResourceEndsOwnCaseHolds` are
under `OneWorker` (one process handles the webhooks, as the application is shipped), which
both need: a second worker stores what it read before the first one read something
newer.
- `StoreIsBehindHolds`, for any number of workers: what is stored, and what a worker has
  read, may be old but is never ahead of the provider. This is what remains of
  `LocalNeverRegresses` there. Nothing of the kind is claimed of cases: a second
  worker's transaction is one step of the model, while two transactions of the code
  may overlap.
- `LocalNeverRegressesHolds`: the invariant `Behind` puts what is stored behind what the
  worker has read, and that behind the provider.
- `PaidResourceEndsOwnCaseHolds`: it speaks of states in which no webhook is left, so the
  invariant `AllIsTold` must speak of those still under way: as long as a captured payment
  or a paid link has an active case of its own that the engine opened, a webhook that
  will end it is undelivered or in the worker's hands (`CapturesToCome`, `PaidLinksToCome`), the
  undelivered webhooks are true (`EventsAreTrue`), and the resource of such a case
  is stored (`CasesAreStored`, so that a redelivery finds the merchant). Who opened a
  case never changes (`OpenerStays`). A case posted after everything about its payment
  was handled has no webhook left to end it, and is no part of the claim.

`CaseSessionsProofs`, for any number of sessions, cases and batches and any percentages
- `MovesAreLawfulHolds`, `AssignmentStandsHolds`, `RecoveredOutcomeStands`,
  `OutcomeIsFinalHolds`, `TypeCorrect`. The invariant adds why a session may write what
  it is about to (`Grounded`: the guard it passed on its copies when it loaded them), that a
  case copied as recovered is so for good unless stale (`CopiesHold`), and that assignments,
  actions and outcomes refer to one another (`TablesAgree`). A commit is then lawful on
  the copy, and on the row unless that write makes the case stale.
- `BothGroupsPopulatedHolds`: by `ControlCountBounds`, the controls of a batch of two or
  more are at least one and not all, for every share of 1 to 99 percent.
- `ControlShareIsNearestHolds`: no number of controls that leaves each group its guaranteed
  case is nearer to the configured share than the one a batch has. It holds with
  stale copies too: `SharesCounted` follows groups and shares, which no later request
  writes.
- `ControlsAreUntouchedOneByOne`, `EndedStaysEndedOneByOne`: if requests do not overlap
  (`OneSession`), every copy equals its row (`CopiesAreFresh`), `stale` stays empty, and
  all exceptions of the theorems above vanish: no control case has an action, and an
  ended case keeps its status. What `sessions_control` finds takes two requests that
  overlap.

`RevenueAtRiskProofs`
- `ListedIsLiveHolds`, `LaterShowsNewerHolds`: a clock read later is not earlier, and
  decisions are only added.
- `UrgencyGrowsHolds`, `UnscoredStaysVisibleHolds`, `ExpectedPerCase`: arithmetic of
  half-up rounding, urgency and ranking for every amount, estimate, window and limit; a
  case is among the top ones if fewer than the limit outrank it, and whatever outranks an
  unscored case outranks a smaller one of its window, too.
- `ExpectedIsWithinRevenueHolds`: the summand is `ExpectedPerCase`. The sum is a fold over a
  finite set; since induction over an operator is not available, `NumbersInduction` and
  `SubsetsInduction` state it for a *set* of numbers or of subsets, from the well-foundedness
  of `<`. With them `SumExists` and `SumLaws` show that the fold is a sum that does not
  depend on the order of the cases, and `SumGrows` and `ErrorsAdd` add up bounds and
  rounding errors.
- `TopIsLeading`: the top list has as many cases as the limit admits, and each outranks
  every listed case left out, for every limit and every estimate.

`DatasetPublicationProofs`, for any number of generators, trainers, configurations,
starts and faults
- `TrainedOnVerifiedHolds`: `LoadsChecked` says, point by point, what an undisturbed load
  has compared and still finds in place.
- `MetadataTellsModelHolds`: a trainer that was alone so far is the only one
  (`SoleTrainer`) and finds its own files (`TrainsAlone`). `MetadataTell` says of the
  metadata in place *and* of those under the temporary name that the model is the one
  they name, or was cut off from its metadata, or newer metadata are coming.
- `FinishedIsLoadableHolds`, `RerunStaysLoadableHolds`: `GeneratesAlone` describes handles,
  temporary files, files in place, checksums and manifest of a generator that is alone
  at each of its ten points; its opening truncates whatever debris is there.
- `FittedToPublishedHolds`: a manifest in place whose generator ran alone tells the
  configuration of the checksums in it, and so does every copy a trainer has read
  (`ReadManifestsTellStep`); with what the load has checked, the rows are that
  configuration's.
- `TypeCorrect` carries `HaveManifest` (a trainer past its first point has a manifest).

Assumed: the named `ASSUME`s of the modules, the library's facts on finite sets and
sequences, and the abstraction itself. The `ASSUME`s say that constants are well-typed and
"none" values are not resources; that sets of cases are finite (`CasesAssumption`,
`WindowAssumption`: cardinalities are taken of them); and, for files, that no file is not
a file and a broken one is none of a configuration (`AbsentAssumption`,
`ConfigsAssumption`). TLC evaluates all of them.

Every safety and action property of the passing runs is stated by a theorem. The liveness
properties (`EventuallySettled`, `OverdueCasesEnd`, `ScreenCatchesUp`) stay with TLC: the
prover treats neither fairness nor ENABLED. So do the violations, which are
counterexamples; `AnsweredHasOwnerUncut` and `ControlsAreUntouchedOneByOne` say under which
condition two of them cannot happen, `AuditIsAppendedHolds` what is true of a third.

## 6. Not modelled

Signature and schema validation, HTTP and error mapping, serialisation, logging,
migrations, configuration, the numerical work of `src/ml` (splits, fitting,
calibration, metrics, double precision), the random generation of `src/simulator`
and the rates of the baseline's report: no protocol, or no finite state. `predict_file`
writes one file that no other part reads. A provider outage in the middle of a handler
(it is a `ReconcileRaises` of the inbox and leaves no trace) and the type of action the
rule table picks are abstracted. Amounts change in `RecoveryEngine` but are fixed in
`RevenueAtRisk`; decisions of one case at the same instant are left out there. A link
that is bound to another case from the start is not reachable: `create_payment_link`
has no caller in this commit, and only the engine's tests set such a link up. Concurrent INSERTs by two scans end in an unhandled
IntegrityError; its effect on data is `CreateCase` (the key admits one).

## 7. What is open

- `CaseSessions` is not a refinement of `CaseRegister`: a commit from a stale copy may
  reopen an ended case (`sessions_pair`). `MovesAreLawful` is what holds of its statuses,
  and `ImplementsRegister` of requests that do not overlap.
- Case-level facts for several processes (a `PaidResourceEndsOwnCase` with two workers) would
  need the engine's transaction split at each of its statements and the isolation level
  of the database as part of the model.
- The eight hazards without a property (`PROJECT.json`): each has its reason there.
- Liveness is checked on small instances only.

----------------------------- MODULE WebhookInbox -----------------------------
(***************************************************************************)
(* The webhook event inbox: POST /webhooks/razorpay, WebhookIngestion-     *)
(* Service.ingest and WebhookEventRepository, over the webhook_events      *)
(* table in PostgreSQL.                                                    *)
(*                                                                         *)
(* A worker is one API process.  The handler is an `async def' whose body  *)
(* never awaits once the request body is read, so one process handles one  *)
(* webhook at a time; two webhooks interleave only across processes.  Each *)
(* action below is one database transaction of a worker (or its answer);   *)
(* between two of them other workers may commit.                           *)
(*                                                                         *)
(* The provider redelivers an event until it has seen a 2xx answer, may    *)
(* deliver an answered event again, and may miss an answer.                *)
(***************************************************************************)
EXTENDS Naturals, FiniteSets

CONSTANTS
  Events,       \* event ids (x-razorpay-event-id)
  Supported,    \* the events whose type is in SUPPORTED_EVENTS
  Workers,      \* API processes; the shipped deployment runs one
  NoEvent,      \* "no request in progress"
  MaxFailures,  \* bound: reconciliations that raise
  MaxCrashes    \* bound: requests cut off between two transactions

ASSUME SupportedAssumption == Supported \subseteq Events
ASSUME NoEventAssumption == NoEvent \notin Events
ASSUME BoundsAssumption == MaxFailures \in Nat /\ MaxCrashes \in Nat

VARIABLES
  row,       \* webhook_events: the committed row of each event
  session,   \* per worker: the request in progress and its in-memory row
  answered,  \* events for which the provider has seen a 2xx
  inserted,  \* history: commits that inserted the event's row
  started,   \* history: commits of mark_processing per event
  applied,   \* history: commits of the event's business effects
  failures,  \* reconciliations that raised so far
  crashes    \* requests cut off so far

vars == <<row, session, answered, inserted, started, applied, failures, crashes>>

RowStatuses ==
  {"ABSENT", "RECEIVED", "PROCESSING", "PROCESSED", "IGNORED", "FAILED"}

(* Seeded faults: a check for PROCESSED that was forgotten, and FAILED      *)
(* treated as an end.                                                      *)
MutDuplicateNoProcessed == {"PROCESSING", "IGNORED"}
MutDuplicateFailed == {"PROCESSING", "PROCESSED", "IGNORED", "FAILED"}

(* The statuses for which ingest answers a duplicate without working.      *)
DuplicateStatuses == {"PROCESSING", "PROCESSED", "IGNORED"}

SettledStatuses == {"PROCESSED", "IGNORED"}

Row == [status : RowStatuses, attempts : Nat]

ProgramPoints ==
  {"idle", "record", "insert", "refresh", "dispatch", "reconcile", "failed"}

Session == [pc : ProgramPoints, event : Events \cup {NoEvent},
            copy : Row, created : BOOLEAN]

AbsentRow == [status |-> "ABSENT", attempts |-> 0]

IdleSession ==
  [pc |-> "idle", event |-> NoEvent, copy |-> AbsentRow, created |-> FALSE]

Init ==
  /\ row = [e \in Events |-> AbsentRow]
  /\ session = [w \in Workers |-> IdleSession]
  /\ answered = {}
  /\ inserted = [e \in Events |-> 0]
  /\ started = [e \in Events |-> 0]
  /\ applied = [e \in Events |-> 0]
  /\ failures = 0
  /\ crashes = 0

(* The request ends; `seen' are the events whose 2xx reaches the provider. *)
Answer(w, seen) ==
  /\ session' = [session EXCEPT ![w] = IdleSession]
  /\ answered' = answered \cup seen

-------------------------------------------------------------------------------

(* A delivery with a valid signature and envelope reaches an idle worker.  *)
Deliver(w, e) ==
  /\ session[w].pc = "idle"
  /\ session' = [session EXCEPT ![w] = [IdleSession EXCEPT !.pc = "record",
                                                           !.event = e]]
  /\ UNCHANGED <<row, answered, inserted, started, applied, failures, crashes>>

(* record: select the event's row; without one, go on to insert it.        *)
Record(w) ==
  LET e == session[w].event IN
  /\ session[w].pc = "record"
  /\ IF row[e].status = "ABSENT"
       THEN session' = [session EXCEPT ![w].pc = "insert"]
       ELSE session' = [session EXCEPT ![w].pc = "dispatch", ![w].copy = row[e]]
  /\ UNCHANGED <<row, answered, inserted, started, applied, failures, crashes>>

(* The unique key (provider, event_id).  Seeded fault: no such constraint. *)
MutKeyTaken(e) == FALSE
KeyTaken(e) == row[e].status # "ABSENT"

(* record: commit the new row.  Losing the race for the unique key (an     *)
(* IntegrityError) rolls back and reads the winner's row as a duplicate.   *)
Insert(w) ==
  LET e == session[w].event IN
  /\ session[w].pc = "insert"
  /\ IF KeyTaken(e)
       THEN /\ session' = [session EXCEPT ![w].pc = "dispatch",
                                          ![w].copy = row[e]]
            /\ UNCHANGED <<row, inserted>>
       ELSE /\ row' = [row EXCEPT ![e] = [status |-> "RECEIVED", attempts |-> 0]]
            /\ inserted' = [inserted EXCEPT ![e] = @ + 1]
            /\ session' = [session EXCEPT ![w].pc = "refresh",
                                          ![w].created = TRUE]
  /\ UNCHANGED <<answered, started, applied, failures, crashes>>

(* record: refresh(event) re-reads the inserted row in a new transaction.  *)
Refresh(w) ==
  /\ session[w].pc = "refresh"
  /\ session' = [session EXCEPT ![w].pc = "dispatch",
                                ![w].copy = row[session[w].event]]
  /\ UNCHANGED <<row, answered, inserted, started, applied, failures, crashes>>

(* ingest: a duplicate of an event in work or settled is answered 200.     *)
IsAnsweredDuplicate(w) ==
  ~session[w].created /\ session[w].copy.status \in DuplicateStatuses

AnswerDuplicate(w) ==
  /\ session[w].pc = "dispatch"
  /\ IsAnsweredDuplicate(w)
  /\ \E seen \in SUBSET {session[w].event} : Answer(w, seen)
  /\ UNCHANGED <<row, inserted, started, applied, failures, crashes>>

(* mark_ignored: an unsupported type is recorded and answered 200.         *)
MarkIgnored(w) ==
  LET e == session[w].event IN
  /\ session[w].pc = "dispatch"
  /\ ~IsAnsweredDuplicate(w)
  /\ e \notin Supported
  /\ row' = [row EXCEPT ![e].status = "IGNORED"]
  /\ \E seen \in SUBSET {e} : Answer(w, seen)
  /\ UNCHANGED <<inserted, started, applied, failures, crashes>>

(* The row mark_processing writes, counted from the in-memory one.  Seeded *)
(* faults: a retry does not count; attempts are counted down.              *)
MutMarkedDown(copy) == [status |-> "PROCESSING", attempts |-> copy.attempts - 1]
MutMarked(copy) == [status |-> "PROCESSING", attempts |-> 1]
Marked(copy) == [status |-> "PROCESSING", attempts |-> copy.attempts + 1]

MarkProcessing(w) ==
  LET e == session[w].event
      marked == Marked(session[w].copy)
  IN
  /\ session[w].pc = "dispatch"
  /\ ~IsAnsweredDuplicate(w)
  /\ e \in Supported
  /\ row' = [row EXCEPT ![e] = marked]
  /\ started' = [started EXCEPT ![e] = @ + 1]
  /\ session' = [session EXCEPT ![w].pc = "reconcile", ![w].copy = marked]
  /\ UNCHANGED <<answered, inserted, applied, failures, crashes>>

(* Reconciliation and the engine succeed; mark_processed commits their     *)
(* effects and the status together, and the answer is 200.                 *)
MarkProcessed(w) ==
  LET e == session[w].event IN
  /\ session[w].pc = "reconcile"
  /\ row' = [row EXCEPT ![e].status = "PROCESSED"]
  /\ applied' = [applied EXCEPT ![e] = @ + 1]
  /\ \E seen \in SUBSET {e} : Answer(w, seen)
  /\ UNCHANGED <<inserted, started, failures, crashes>>

(* Anything in the try raises (a provider read, the engine, the commit):   *)
(* the transaction is rolled back.                                         *)
ReconcileRaises(w) ==
  /\ session[w].pc = "reconcile"
  /\ failures < MaxFailures
  /\ failures' = failures + 1
  /\ session' = [session EXCEPT ![w].pc = "failed"]
  /\ UNCHANGED <<row, answered, inserted, started, applied, crashes>>

(* Seeded fault: the error handler rolls back and forgets mark_failed.     *)
MutFailedRow(e) == row[e]
FailedRow(e) == [row[e] EXCEPT !.status = "FAILED"]

(* The handler re-reads the event, mark_failed commits, the answer is 503. *)
MarkFailed(w) ==
  LET e == session[w].event IN
  /\ session[w].pc = "failed"
  /\ row' = [row EXCEPT ![e] = FailedRow(e)]
  /\ Answer(w, {})
  /\ UNCHANGED <<inserted, started, applied, failures, crashes>>

(* The process dies, or a commit outside the try raises: the transaction   *)
(* in progress is lost, nothing is answered.                               *)
Crash(w) ==
  /\ session[w].pc # "idle"
  /\ crashes < MaxCrashes
  /\ crashes' = crashes + 1
  /\ Answer(w, {})
  /\ UNCHANGED <<row, inserted, started, applied, failures>>

Step(w) ==
  \/ Record(w)
  \/ Insert(w)
  \/ Refresh(w)
  \/ AnswerDuplicate(w)
  \/ MarkIgnored(w)
  \/ MarkProcessing(w)
  \/ MarkProcessed(w)
  \/ ReconcileRaises(w)
  \/ MarkFailed(w)

Next ==
  \E w \in Workers :
    \/ \E e \in Events : Deliver(w, e)
    \/ Step(w)
    \/ Crash(w)

Spec == Init /\ [][Next]_vars

(* The provider retries an event it has not seen answered, and the server  *)
(* serves waiting requests in order: no event is passed over for ever.     *)
Redeliver(e) == e \notin answered /\ \E w \in Workers : Deliver(w, e)

Fairness ==
  /\ \A w \in Workers : WF_vars(Step(w))
  /\ \A e \in Events : SF_vars(Redeliver(e))

FairSpec == Spec /\ Fairness
-------------------------------------------------------------------------------

TypeOK ==
  /\ row \in [Events -> Row]
  /\ session \in [Workers -> Session]
  /\ \A w \in Workers : session[w].pc # "idle" => session[w].event \in Events
  /\ answered \subseteq Events
  /\ inserted \in [Events -> Nat]
  /\ started \in [Events -> Nat]
  /\ applied \in [Events -> Nat]
  /\ failures \in 0 .. MaxFailures
  /\ crashes \in 0 .. MaxCrashes

(* The workers between mark_processing and the commit that ends it.        *)
InWork(w, e) ==
  session[w].event = e /\ session[w].pc \in {"reconcile", "failed"}

(* docs/architecture.md:130 -- the unique (provider, event_id) key: however*)
(* many processes race, one of them inserts the event, and a row exists    *)
(* exactly when one did.                                                   *)
InsertedOnce ==
  \A e \in Events : inserted[e] = IF row[e].status = "ABSENT" THEN 0 ELSE 1

(* A PROCESSING row answers duplicates 200 without work, so some worker    *)
(* must still be going to settle it.  Only a cut-off request (between      *)
(* service.py:75 and its last commit) leaves an event orphaned, one each.  *)
Orphaned ==
  {e \in Events : row[e].status = "PROCESSING"
                    /\ ~\E w \in Workers : InWork(w, e)}

OrphansAreCrashes == Cardinality(Orphaned) <= crashes

(* The business effects of an event are committed with its PROCESSED       *)
(* status: with one process, at most once and exactly when the row says so,*)
(* crashes or not.                                                         *)
EffectsMatchStatus ==
  \A e \in Events :
    applied[e] = IF row[e].status = "PROCESSED" THEN 1 ELSE 0

(* processing_attempts counts the reconciliations begun.                   *)
AttemptsCountStarts == \A e \in Events : row[e].attempts = started[e]

(* An event the provider will not send again is settled: with one process, *)
(* 2xx is never given for an event whose processing failed or has not      *)
(* ended, but for those a cut-off request left in PROCESSING.              *)
AnsweredIsSettled ==
  \A e \in answered : row[e].status \in SettledStatuses \/ e \in Orphaned

(* docs/webhooks.md:44-50: PROCESSED and IGNORED are the ends of the       *)
(* processing states; no step takes an event back out of them.             *)
SettledIsFinal ==
  [][\A e \in Events :
       row[e].status \in SettledStatuses => row'[e] = row[e]]_vars

(* docs/architecture.md:133 answers success for settled events and for     *)
(* those `currently processing': what was answered is settled, or a worker *)
(* is on it.                                                               *)
AnsweredHasOwner ==
  \A e \in answered :
    row[e].status \in SettledStatuses \/ \E w \in Workers : InWork(w, e)

(* Every event of a supported type is eventually PROCESSED for good, every *)
(* other one IGNORED, through failures and crashes: all but the orphans.   *)
EventuallySettled ==
  \A e \in Events :
    <>[]\/ row[e].status = IF e \in Supported THEN "PROCESSED" ELSE "IGNORED"
        \/ e \in Orphaned

(* One process, cut off or not, keeps the promise of EventLedger for every *)
(* event but the orphans, whose answer promises too much.                  *)
Ledger == INSTANCE EventLedger
  WITH effects <- applied,
       ignored <- {e \in Events : row[e].status = "IGNORED"},
       told <- answered \ Orphaned

ImplementsLedger == Ledger!Spec
===============================================================================

-------------------------- MODULE WebhookInboxProofs --------------------------
(***************************************************************************)
(* Theorems about WebhookInbox, for every set of events and of workers and *)
(* every bound.                                                            *)
(***************************************************************************)
EXTENDS WebhookInbox, FiniteSetTheorems, TLAPS

USE BoundsAssumption

(* The type invariant: no handler step leaves the declared domains.        *)
THEOREM TypeCorrect == Spec => []TypeOK
<1>1. Init => TypeOK
  BY DEF Init, TypeOK, IdleSession, AbsentRow, Session, Row, ProgramPoints,
         RowStatuses
<1>2. TypeOK /\ [Next]_vars => TypeOK'
  <2> SUFFICES ASSUME TypeOK, [Next]_vars PROVE TypeOK'
    OBVIOUS
  <2>1. CASE UNCHANGED vars
    BY <2>1 DEF vars, TypeOK
  <2>2. ASSUME NEW w \in Workers, NEW e \in Events, Deliver(w, e)
        PROVE  TypeOK'
    BY <2>2 DEF Deliver, IdleSession, AbsentRow, TypeOK, Session, Row, ProgramPoints,
                RowStatuses
  <2>3. ASSUME NEW w \in Workers, Step(w)
        PROVE  TypeOK'
    <3>0. ASSUME session[w].pc # "idle"
          PROVE  row[session[w].event] \in Row
      BY <3>0 DEF TypeOK
    <3>1. CASE Record(w)
      BY <3>0, <3>1 DEF Record, TypeOK, Session, ProgramPoints
    <3>2. CASE Insert(w)
      <4>1. [status |-> "RECEIVED", attempts |-> 0] \in Row
        BY DEF Row, RowStatuses
      <4>2. CASE KeyTaken(session[w].event)
        BY <3>0, <3>2, <4>2 DEF Insert, TypeOK, Session, ProgramPoints
      <4>3. CASE ~KeyTaken(session[w].event)
        <5>1. row' \in [Events -> Row] /\ inserted' \in [Events -> Nat]
          BY <3>2, <4>1, <4>3 DEF Insert, TypeOK
        <5>2. session' \in [Workers -> Session]
          BY <3>2, <4>3 DEF Insert, TypeOK, Session, ProgramPoints
        <5> QED
          BY <3>2, <4>3, <5>1, <5>2 DEF Insert, TypeOK, Session
      <4> QED
        BY <4>2, <4>3
    <3>3. CASE Refresh(w)
      BY <3>0, <3>3 DEF Refresh, TypeOK, Session, ProgramPoints
    <3> USE DEF TypeOK, Session, Row, ProgramPoints, RowStatuses
    <3>4. CASE AnswerDuplicate(w)
      BY <3>4 DEF AnswerDuplicate, Answer, IdleSession, AbsentRow
    <3>5. CASE MarkIgnored(w)
      BY <3>5 DEF MarkIgnored, Answer, IdleSession, AbsentRow
    <3>6. CASE MarkProcessing(w)
      BY <3>6 DEF MarkProcessing, Marked
    <3>7. CASE MarkProcessed(w)
      BY <3>7 DEF MarkProcessed, Answer, IdleSession, AbsentRow
    <3>8. CASE ReconcileRaises(w)
      BY <3>8 DEF ReconcileRaises
    <3>9. CASE MarkFailed(w)
      BY <3>9 DEF MarkFailed, FailedRow, Answer, IdleSession, AbsentRow
    <3> QED
      BY <2>3, <3>1, <3>2, <3>3, <3>4, <3>5, <3>6, <3>7, <3>8, <3>9 DEF Step
  <2>4. ASSUME NEW w \in Workers, Crash(w)
        PROVE  TypeOK'
    BY <2>4 DEF Crash, Answer, IdleSession, AbsentRow, TypeOK, Session, Row,
                ProgramPoints, RowStatuses
  <2> QED
    BY <2>1, <2>2, <2>3, <2>4 DEF Next
<1> QED
  BY <1>1, <1>2, PTL DEF Spec

-------------------------------------------------------------------------------
(* Past its select or its insert, a worker holds an event whose row exists.*)
RowKnown ==
  \A w \in Workers :
    session[w].pc \in {"refresh", "dispatch", "reconcile", "failed"} =>
      row[session[w].event].status # "ABSENT"

LEMMA InsertedOnceStep ==
  ASSUME TypeOK, RowKnown, InsertedOnce, [Next]_vars
  PROVE  RowKnown' /\ InsertedOnce'
<1> USE DEF RowKnown, InsertedOnce
<1>1. CASE UNCHANGED vars
  BY <1>1 DEF vars
<1>2. ASSUME NEW w \in Workers, NEW e \in Events, Deliver(w, e)
      PROVE  RowKnown' /\ InsertedOnce'
  BY <1>2 DEF Deliver, TypeOK
<1>3. ASSUME NEW w \in Workers, Step(w)
      PROVE  RowKnown' /\ InsertedOnce'
  <2>0. session[w].pc # "idle" => session[w].event \in Events
    BY DEF TypeOK
  <2> USE <2>0 DEF TypeOK
  <2>1. CASE Record(w)
    <3>1. CASE row[session[w].event].status = "ABSENT"
      BY <2>1, <3>1 DEF Record, Session
    <3>2. CASE row[session[w].event].status # "ABSENT"
      BY <2>1, <3>2 DEF Record, Session
    <3> QED
      BY <3>1, <3>2
  <2>2. CASE Insert(w)
    <3>1. CASE KeyTaken(session[w].event)
      BY <2>2, <3>1 DEF Insert, KeyTaken, Session
    <3>2. CASE ~KeyTaken(session[w].event)
      <4>1. row' = [row EXCEPT ![session[w].event] =
                       [status |-> "RECEIVED", attempts |-> 0]]
        BY <2>2, <3>2 DEF Insert
      <4>2. InsertedOnce'
        BY <2>2, <3>2, <4>1 DEF Insert, KeyTaken
      <4>3. RowKnown'
        BY <2>2, <3>2, <4>1 DEF Insert, Session
      <4> QED
        BY <4>2, <4>3
    <3> QED
      BY <3>1, <3>2
  <2>3. CASE Refresh(w)
    BY <2>3 DEF Refresh
  <2>4. CASE AnswerDuplicate(w)
    BY <2>4 DEF AnswerDuplicate, Answer, IdleSession
  <2>5. CASE MarkIgnored(w)
    BY <2>5 DEF MarkIgnored, Answer, IdleSession, Row
  <2>6. CASE MarkProcessing(w)
    <3>1. row'[session[w].event].status = "PROCESSING"
      BY <2>6 DEF MarkProcessing, Marked
    <3> QED
      BY <2>6, <3>1 DEF MarkProcessing
  <2>7. CASE MarkProcessed(w)
    BY <2>7 DEF MarkProcessed, Answer, IdleSession, Row
  <2>8. CASE ReconcileRaises(w)
    BY <2>8 DEF ReconcileRaises
  <2>9. CASE MarkFailed(w)
    BY <2>9 DEF MarkFailed, FailedRow, Answer, IdleSession, Row
  <2> QED
    BY <1>3, <2>1, <2>2, <2>3, <2>4, <2>5, <2>6, <2>7, <2>8, <2>9 DEF Step
<1>4. ASSUME NEW w \in Workers, Crash(w)
      PROVE  RowKnown' /\ InsertedOnce'
  BY <1>4 DEF Crash, Answer, IdleSession, TypeOK
<1> QED
  BY <1>1, <1>2, <1>3, <1>4 DEF Next

(* However many processes race on one event, crashes included, one inserts *)
(* its row: WebhookEventRepository.record and the unique key.              *)
THEOREM InsertedOnceHolds == Spec => []InsertedOnce
<1>1. Init => RowKnown /\ InsertedOnce
  BY DEF Init, RowKnown, InsertedOnce, IdleSession, AbsentRow
<1>2. TypeOK /\ (RowKnown /\ InsertedOnce) /\ [Next]_vars
        => (RowKnown /\ InsertedOnce)'
  BY InsertedOnceStep
<1> QED
  BY <1>1, <1>2, TypeCorrect, PTL DEF Spec

-------------------------------------------------------------------------------
(* No handler step orphans a PROCESSING row.                               *)
LEMMA StepOrphansNothing ==
  ASSUME TypeOK, NEW w \in Workers, Step(w)
  PROVE  Orphaned' \subseteq Orphaned
<1>0. session[w].pc # "idle" => session[w].event \in Events
  BY DEF TypeOK
<1> USE <1>0 DEF TypeOK, Orphaned, InWork
<1>1. CASE Record(w)
  BY <1>1 DEF Record
<1>2. CASE Insert(w)
  BY <1>2 DEF Insert, KeyTaken
<1>3. CASE Refresh(w)
  BY <1>3 DEF Refresh
<1>4. CASE AnswerDuplicate(w)
  BY <1>4 DEF AnswerDuplicate, Answer
<1>5. CASE MarkIgnored(w)
  BY <1>5 DEF MarkIgnored, Answer, Row
<1>6. CASE MarkProcessing(w)
  BY <1>6 DEF MarkProcessing, Marked
<1>7. CASE MarkProcessed(w)
  BY <1>7 DEF MarkProcessed, Answer, Row
<1>8. CASE ReconcileRaises(w)
  BY <1>8 DEF ReconcileRaises
<1>9. CASE MarkFailed(w)
  BY <1>9 DEF MarkFailed, FailedRow, Answer, Row
<1> QED
  BY <1>1, <1>2, <1>3, <1>4, <1>5, <1>6, <1>7, <1>8, <1>9 DEF Step

(* A crash orphans at most the event the worker had in hand.               *)
LEMMA CrashOrphansOne ==
  ASSUME TypeOK, NEW w \in Workers, Crash(w)
  PROVE  Orphaned' \subseteq Orphaned \cup {session[w].event}
BY DEF TypeOK, Crash, Answer, Orphaned, InWork

LEMMA OrphanInvariant ==
  Spec => [](IsFiniteSet(Orphaned) /\ OrphansAreCrashes)
<1> DEFINE Inv == IsFiniteSet(Orphaned) /\ OrphansAreCrashes
<1>1. Init => Inv
  <2> SUFFICES ASSUME Init PROVE Inv
    OBVIOUS
  <2>1. Orphaned = {}
    BY DEF Init, Orphaned, AbsentRow
  <2> QED
    BY <2>1, FS_EmptySet DEF Init, OrphansAreCrashes
<1>2. TypeOK /\ Inv /\ [Next]_vars => Inv'
  <2> SUFFICES ASSUME TypeOK, Inv, [Next]_vars PROVE Inv'
    OBVIOUS
  <2>0. Cardinality(Orphaned) \in Nat /\ crashes \in Nat
    BY FS_CardinalityType DEF TypeOK
  <2>1. ASSUME Orphaned' \subseteq Orphaned, crashes' = crashes
        PROVE  Inv'
    <3>1. /\ IsFiniteSet(Orphaned')
          /\ Cardinality(Orphaned') <= Cardinality(Orphaned)
      BY <2>1, FS_Subset
    <3>2. Cardinality(Orphaned') \in Nat
      BY <3>1, FS_CardinalityType
    <3> QED
      BY <2>0, <2>1, <3>1, <3>2 DEF OrphansAreCrashes
  <2>2. CASE UNCHANGED vars
    BY <2>1, <2>2 DEF vars, Orphaned, InWork
  <2>3. ASSUME NEW w \in Workers, NEW e \in Events, Deliver(w, e)
        PROVE  Inv'
    <3>1. Orphaned' \subseteq Orphaned
      BY <2>3 DEF Deliver, Orphaned, InWork, TypeOK
    <3> QED
      BY <2>1, <2>3, <3>1 DEF Deliver
  <2>4. ASSUME NEW w \in Workers, Step(w)
        PROVE  Inv'
    <3>1. crashes' = crashes
      BY <2>4 DEF Step, Record, Insert, Refresh, AnswerDuplicate, MarkIgnored,
                  MarkProcessing, MarkProcessed, ReconcileRaises, MarkFailed
    <3> QED
      BY <2>1, <2>4, <3>1, StepOrphansNothing
  <2>5. ASSUME NEW w \in Workers, Crash(w)
        PROVE  Inv'
    <3> DEFINE S == Orphaned \cup {session[w].event}
    <3>1. IsFiniteSet(S) /\ Cardinality(S) <= Cardinality(Orphaned) + 1
      BY <2>0, FS_AddElement
    <3>2. Orphaned' \subseteq S
      BY <2>5, CrashOrphansOne
    <3>3. IsFiniteSet(Orphaned') /\ Cardinality(Orphaned') <= Cardinality(S)
      BY <3>1, <3>2, FS_Subset
    <3>4. Cardinality(S) \in Nat /\ Cardinality(Orphaned') \in Nat
      BY <3>1, <3>3, FS_CardinalityType
    <3>5. crashes' = crashes + 1
      BY <2>5 DEF Crash
    <3> QED
      BY <2>0, <3>1, <3>3, <3>4, <3>5 DEF OrphansAreCrashes
  <2> QED
    BY <2>2, <2>3, <2>4, <2>5 DEF Next
<1> QED
  BY <1>1, <1>2, TypeCorrect, PTL DEF Spec

(* Every orphaned PROCESSING row is paid for by a crash of its own, for any*)
(* number of processes and events: without crashes there is none.          *)
THEOREM OrphansAreCrashesHolds == Spec => []OrphansAreCrashes
BY OrphanInvariant, PTL

-------------------------------------------------------------------------------
(* What remains true of the effects with several processes, where the runs *)
(* show an event processed twice (inbox_replicas).                         *)
Reconciling(e) ==
  {w \in Workers : session[w].pc = "reconcile" /\ session[w].event = e}

(* Each commit of an event's effects ends a reconciliation of its own that *)
(* mark_processing began: those over and those still running are never more*)
(* than begun.  PROCESSED never stands on a row without effects behind it, *)
(* IGNORED never on a supported event, and nothing is begun for an         *)
(* unsupported one.                                                        *)
EffectsAccounted ==
  \A e \in Events :
    /\ applied[e] + Cardinality(Reconciling(e)) <= started[e]
    /\ row[e].status = "PROCESSED" => applied[e] > 0
    /\ IF e \in Supported
         THEN row[e].status # "IGNORED"
         ELSE /\ started[e] = 0
              /\ row[e].status \in {"ABSENT", "RECEIVED", "IGNORED"}

WorkIsCounted ==
  /\ EffectsAccounted
  /\ \A e \in Events : IsFiniteSet(Reconciling(e))
  /\ \A w \in Workers :
       session[w].pc \in {"reconcile", "failed"} => session[w].event \in Supported

(* One worker's session changes: its event gains or loses that worker.     *)
LEMMA ReconcilingMoves ==
  ASSUME NEW w \in Workers, NEW e, IsFiniteSet(Reconciling(e)),
         \A v \in Workers : v # w => session'[v] = session[v]
  PROVE  /\ IsFiniteSet(Reconciling(e)')
         /\ Cardinality(Reconciling(e)) \in Nat
         /\ Cardinality(Reconciling(e)') \in Nat
         /\ (w \in Reconciling(e)) = (w \in Reconciling(e)')
              => Cardinality(Reconciling(e)') = Cardinality(Reconciling(e))
         /\ w \in Reconciling(e) /\ w \notin Reconciling(e)'
              => Cardinality(Reconciling(e)') = Cardinality(Reconciling(e)) - 1
         /\ w \notin Reconciling(e) /\ w \in Reconciling(e)'
              => Cardinality(Reconciling(e)') = Cardinality(Reconciling(e)) + 1
<1> DEFINE R == Reconciling(e)
           Q == Reconciling(e)'
<1>1. \A v : v # w => (v \in R <=> v \in Q)
  BY DEF Reconciling
<1>2. /\ IsFiniteSet(R \cup {w}) /\ IsFiniteSet(R \ {w})
      /\ Cardinality(R) \in Nat
      /\ w \notin R => Cardinality(R \cup {w}) = Cardinality(R) + 1
      /\ w \in R => Cardinality(R \ {w}) = Cardinality(R) - 1
  BY FS_AddElement, FS_RemoveElement, FS_CardinalityType
<1> HIDE DEF R, Q
<1>3. (w \in R <=> w \in Q) => Q = R
  BY <1>1
<1>4. w \in R /\ w \notin Q => Q = R \ {w}
  BY <1>1
<1>5. w \notin R /\ w \in Q => Q = R \cup {w}
  BY <1>1
<1>6. IsFiniteSet(R) /\ IsFiniteSet(Q)
  <2>1. IsFiniteSet(R)
    BY DEF R
  <2> QED
    BY <1>2, <1>3, <1>4, <1>5, <2>1
<1>7. Cardinality(Q) \in Nat
  BY <1>6, FS_CardinalityType
<1>8. /\ (w \in R <=> w \in Q) => Cardinality(Q) = Cardinality(R)
      /\ w \in R /\ w \notin Q => Cardinality(Q) = Cardinality(R) - 1
      /\ w \notin R /\ w \in Q => Cardinality(Q) = Cardinality(R) + 1
  BY <1>2, <1>3, <1>4, <1>5
<1> QED
  BY <1>2, <1>6, <1>7, <1>8 DEF R, Q

(* One worker moves and leaves what the row, started and applied count.    *)
LEMMA WorkStaysCounted ==
  ASSUME TypeOK, WorkIsCounted, NEW w \in Workers,
         \A v \in Workers : v # w => session'[v] = session[v],
         UNCHANGED <<started, applied>>,
         \A e \in Events : \/ row'[e].status = row[e].status
                           \/ row'[e].status = "RECEIVED"
                           \/ row'[e].status = "FAILED" /\ e \in Supported
                           \/ row'[e].status = "IGNORED" /\ e \notin Supported,
         session'[w].pc \in {"reconcile", "failed"} =>
           session[w].pc = "reconcile" /\ session'[w].event = session[w].event
  PROVE  WorkIsCounted'
<1>1. ASSUME NEW e \in Events
      PROVE  /\ IsFiniteSet(Reconciling(e)')
             /\ (applied[e] + Cardinality(Reconciling(e)) <= started[e])'
  <2>1. IsFiniteSet(Reconciling(e)) /\ w \in Reconciling(e)' => w \in Reconciling(e)
    BY DEF WorkIsCounted, Reconciling
  <2>2. /\ IsFiniteSet(Reconciling(e)')
        /\ Cardinality(Reconciling(e)') \in Nat
        /\ Cardinality(Reconciling(e)) \in Nat
        /\ \/ Cardinality(Reconciling(e)') = Cardinality(Reconciling(e))
           \/ Cardinality(Reconciling(e)') = Cardinality(Reconciling(e)) - 1
    BY <2>1, ReconcilingMoves DEF WorkIsCounted
  <2>3. applied[e] \in Nat /\ started[e] \in Nat
    BY DEF TypeOK
  <2>4. applied[e] + Cardinality(Reconciling(e)) <= started[e]
    BY DEF WorkIsCounted, EffectsAccounted
  <2> QED
    BY <2>2, <2>3, <2>4
<1>2. \A v \in Workers :
        session'[v].pc \in {"reconcile", "failed"} => session'[v].event \in Supported
  BY DEF WorkIsCounted
<1>3. ASSUME NEW e \in Events
      PROVE  /\ (row[e].status = "PROCESSED" => applied[e] > 0)'
             /\ IF e \in Supported
                  THEN row'[e].status # "IGNORED"
                  ELSE /\ started'[e] = 0
                       /\ row'[e].status \in {"ABSENT", "RECEIVED", "IGNORED"}
  BY DEF WorkIsCounted, EffectsAccounted
<1> QED
  BY <1>1, <1>2, <1>3 DEF WorkIsCounted, EffectsAccounted

LEMMA WorkIsCountedStep ==
  ASSUME TypeOK, WorkIsCounted, [Next]_vars
  PROVE  WorkIsCounted'
<1>1. CASE UNCHANGED vars
  BY <1>1 DEF vars, WorkIsCounted, EffectsAccounted, Reconciling
<1>2. ASSUME NEW w \in Workers, NEW f \in Events, Deliver(w, f)
      PROVE  WorkIsCounted'
  <2>1. session'[w].pc = "record"
    BY <1>2 DEF Deliver, TypeOK, IdleSession
  <2> QED
    BY <1>2, <2>1, WorkStaysCounted DEF Deliver, TypeOK
<1>3. ASSUME NEW w \in Workers, Step(w)
      PROVE  WorkIsCounted'
  <2> DEFINE e == session[w].event
  <2>0. /\ session[w] \in Session
        /\ session[w].pc # "idle" => e \in Events /\ row[e] \in Row
    BY DEF TypeOK
  <2>1. CASE Record(w)
    <3>1. session'[w].pc \in {"insert", "dispatch"}
      BY <2>1, <2>0 DEF Record, TypeOK, Session
    <3> QED
      BY <2>1, <3>1, WorkStaysCounted DEF Record, TypeOK
  <2>2. CASE Insert(w)
    <3>1. session'[w].pc \in {"refresh", "dispatch"}
      BY <2>2, <2>0 DEF Insert, TypeOK, Session
    <3>2. \A f \in Events : row'[f].status \in {row[f].status, "RECEIVED"}
      BY <2>2, <2>0 DEF Insert, TypeOK
    <3> QED
      BY <2>2, <3>1, <3>2, WorkStaysCounted DEF Insert, TypeOK
  <2>3. CASE Refresh(w)
    <3>1. session'[w].pc = "dispatch"
      BY <2>3, <2>0 DEF Refresh, TypeOK, Session
    <3> QED
      BY <2>3, <3>1, WorkStaysCounted DEF Refresh, TypeOK
  <2>4. CASE AnswerDuplicate(w)
    <3>1. session'[w].pc = "idle"
      BY <2>4 DEF AnswerDuplicate, Answer, TypeOK, IdleSession
    <3> QED
      BY <2>4, <3>1, WorkStaysCounted DEF AnswerDuplicate, Answer, TypeOK
  <2>5. CASE MarkIgnored(w)
    <3>1. session'[w].pc = "idle"
      BY <2>5 DEF MarkIgnored, Answer, TypeOK, IdleSession
    <3>2. \A f \in Events : \/ row'[f].status = row[f].status
                            \/ row'[f].status = "IGNORED" /\ f \notin Supported
      BY <2>5, <2>0 DEF MarkIgnored, TypeOK, Row
    <3> QED
      BY <2>5, <3>1, <3>2, WorkStaysCounted DEF MarkIgnored, Answer, TypeOK
  <2>6. CASE MarkProcessing(w)
    <3>1. /\ e \in Events /\ e \in Supported
          /\ started' = [started EXCEPT ![e] = @ + 1]
          /\ applied' = applied
          /\ session'[w].pc = "reconcile" /\ session'[w].event = e
          /\ session[w].pc # "reconcile"
          /\ \A v \in Workers : v # w => session'[v] = session[v]
      BY <2>6, <2>0 DEF MarkProcessing, TypeOK, Session
    <3>2. \A f \in Events :
            row'[f].status = IF f = e THEN "PROCESSING" ELSE row[f].status
      BY <2>6, <2>0 DEF MarkProcessing, Marked, TypeOK
    <3>3. ASSUME NEW f \in Events
          PROVE  /\ IsFiniteSet(Reconciling(f)')
                 /\ (applied[f] + Cardinality(Reconciling(f)) <= started[f])'
      <4>1. /\ IsFiniteSet(Reconciling(f))
            /\ w \notin Reconciling(f)
            /\ w \in Reconciling(f)' <=> f = e
        BY <3>1 DEF WorkIsCounted, Reconciling
      <4>2. /\ IsFiniteSet(Reconciling(f)')
            /\ Cardinality(Reconciling(f)') \in Nat
            /\ Cardinality(Reconciling(f)) \in Nat
            /\ f # e => Cardinality(Reconciling(f)') = Cardinality(Reconciling(f))
            /\ f = e => Cardinality(Reconciling(f)') = Cardinality(Reconciling(f)) + 1
        BY <3>1, <4>1, ReconcilingMoves
      <4>3. applied[f] \in Nat /\ started[f] \in Nat
        BY DEF TypeOK
      <4>4. applied[f] + Cardinality(Reconciling(f)) <= started[f]
        BY DEF WorkIsCounted, EffectsAccounted
      <4>5. started'[f] = IF f = e THEN started[f] + 1 ELSE started[f]
        BY <3>1 DEF TypeOK
      <4> QED
        BY <3>1, <4>2, <4>3, <4>4, <4>5
    <3>4. \A v \in Workers : session'[v].pc \in {"reconcile", "failed"}
                               => session'[v].event \in Supported
      BY <3>1 DEF WorkIsCounted
    <3>5. ASSUME NEW f \in Events
          PROVE  /\ (row[f].status = "PROCESSED" => applied[f] > 0)'
                 /\ IF f \in Supported
                      THEN row'[f].status # "IGNORED"
                      ELSE /\ started'[f] = 0
                           /\ row'[f].status \in {"ABSENT", "RECEIVED", "IGNORED"}
      BY <3>1, <3>2 DEF WorkIsCounted, EffectsAccounted
    <3> QED
      BY <3>3, <3>4, <3>5 DEF WorkIsCounted, EffectsAccounted
  <2>7. CASE MarkProcessed(w)
    <3>1. /\ e \in Events /\ e \in Supported
          /\ started' = started
          /\ applied' = [applied EXCEPT ![e] = @ + 1]
          /\ session'[w].pc = "idle"
          /\ session[w].pc = "reconcile"
          /\ \A v \in Workers : v # w => session'[v] = session[v]
      BY <2>7, <2>0
         DEF MarkProcessed, Answer, IdleSession, TypeOK, WorkIsCounted
    <3>2. \A f \in Events :
            row'[f].status = IF f = e THEN "PROCESSED" ELSE row[f].status
      BY <2>7, <2>0 DEF MarkProcessed, TypeOK, Row
    <3>3. ASSUME NEW f \in Events
          PROVE  /\ IsFiniteSet(Reconciling(f)')
                 /\ (applied[f] + Cardinality(Reconciling(f)) <= started[f])'
      <4>1. /\ IsFiniteSet(Reconciling(f))
            /\ w \notin Reconciling(f)'
            /\ w \in Reconciling(f) <=> f = e
        BY <3>1 DEF WorkIsCounted, Reconciling
      <4>2. /\ IsFiniteSet(Reconciling(f)')
            /\ Cardinality(Reconciling(f)') \in Nat
            /\ Cardinality(Reconciling(f)) \in Nat
            /\ f # e => Cardinality(Reconciling(f)') = Cardinality(Reconciling(f))
            /\ f = e => Cardinality(Reconciling(f)') = Cardinality(Reconciling(f)) - 1
        BY <3>1, <4>1, ReconcilingMoves
      <4>3. applied[f] \in Nat /\ started[f] \in Nat
        BY DEF TypeOK
      <4>4. applied[f] + Cardinality(Reconciling(f)) <= started[f]
        BY DEF WorkIsCounted, EffectsAccounted
      <4>5. applied'[f] = IF f = e THEN applied[f] + 1 ELSE applied[f]
        BY <3>1 DEF TypeOK
      <4> QED
        BY <3>1, <4>2, <4>3, <4>4, <4>5
    <3>4. \A v \in Workers : session'[v].pc \in {"reconcile", "failed"}
                               => session'[v].event \in Supported
      BY <3>1 DEF WorkIsCounted
    <3>5. ASSUME NEW f \in Events
          PROVE  /\ (row[f].status = "PROCESSED" => applied[f] > 0)'
                 /\ IF f \in Supported
                      THEN row'[f].status # "IGNORED"
                      ELSE /\ started'[f] = 0
                           /\ row'[f].status \in {"ABSENT", "RECEIVED", "IGNORED"}
      <4>1. applied[f] \in Nat /\ applied'[f] = IF f = e THEN applied[f] + 1 ELSE applied[f]
        BY <3>1 DEF TypeOK
      <4> QED
        BY <3>1, <3>2, <4>1 DEF WorkIsCounted, EffectsAccounted
    <3> QED
      BY <3>3, <3>4, <3>5 DEF WorkIsCounted, EffectsAccounted
  <2>8. CASE ReconcileRaises(w)
    <3>1. /\ session'[w].pc = "failed" /\ session'[w].event = e
          /\ session[w].pc = "reconcile"
      BY <2>8, <2>0 DEF ReconcileRaises, TypeOK, Session
    <3> QED
      BY <2>8, <3>1, WorkStaysCounted DEF ReconcileRaises, TypeOK
  <2>9. CASE MarkFailed(w)
    <3>1. session'[w].pc = "idle" /\ session[w].pc = "failed"
      BY <2>9 DEF MarkFailed, Answer, TypeOK, IdleSession
    <3>2. \A f \in Events : \/ row'[f].status = row[f].status
                            \/ row'[f].status = "FAILED" /\ f \in Supported
      BY <2>9, <2>0 DEF MarkFailed, FailedRow, TypeOK, Row, WorkIsCounted
    <3> QED
      BY <2>9, <3>1, <3>2, WorkStaysCounted DEF MarkFailed, Answer, TypeOK
  <2> QED
    BY <1>3, <2>1, <2>2, <2>3, <2>4, <2>5, <2>6, <2>7, <2>8, <2>9 DEF Step
<1>4. ASSUME NEW w \in Workers, Crash(w)
      PROVE  WorkIsCounted'
  <2>1. session'[w].pc = "idle"
    BY <1>4 DEF Crash, Answer, TypeOK, IdleSession
  <2> QED
    BY <1>4, <2>1, WorkStaysCounted DEF Crash, Answer, TypeOK
<1> QED
  BY <1>1, <1>2, <1>3, <1>4 DEF Next

(* For any number of processes, with crashes at any point: though an event *)
(* may be processed more than once, every commit of effects has a begun    *)
(* reconciliation of its own, a PROCESSED row has effects behind it, and an*)
(* event of an unsupported type has none and is only ever recorded and     *)
(* ignored (ingest, mark_processing, mark_processed, mark_ignored).        *)
THEOREM EffectsAccountedHolds == Spec => []EffectsAccounted
<1>1. Init => WorkIsCounted
  <2> SUFFICES ASSUME Init PROVE WorkIsCounted
    OBVIOUS
  <2>1. \A e \in Events : Reconciling(e) = {}
    BY DEF Init, IdleSession, Reconciling
  <2>2. \A e \in Events : IsFiniteSet(Reconciling(e)) /\ Cardinality(Reconciling(e)) = 0
    BY <2>1, FS_EmptySet
  <2> QED
    BY <2>2 DEF Init, IdleSession, AbsentRow, WorkIsCounted, EffectsAccounted
<1>2. TypeOK /\ WorkIsCounted /\ [Next]_vars => WorkIsCounted'
  BY WorkIsCountedStep
<1>3. WorkIsCounted => EffectsAccounted
  BY DEF WorkIsCounted
<1> QED
  BY <1>1, <1>2, <1>3, TypeCorrect, PTL DEF Spec

(* Two processes may read the same count and both write the next one, so   *)
(* with several of them processing_attempts may lag behind; it never runs  *)
(* ahead, and it is not zero once a reconciliation has begun.              *)
AttemptsLag ==
  \A e \in Events :
    /\ row[e].attempts <= started[e]
    /\ started[e] > 0 => row[e].attempts > 0

CountsLag ==
  /\ AttemptsLag
  /\ \A e \in Events : row[e].status = "ABSENT" => started[e] = 0
  /\ \A w \in Workers :
       session[w].pc # "idle" => session[w].copy.attempts <= started[session[w].event]

(* The rows keep their counts, and a worker that goes on has a copy of one.*)
LEMMA CountsStay ==
  ASSUME TypeOK, CountsLag, NEW w \in Workers,
         \A v \in Workers : v # w => session'[v] = session[v],
         UNCHANGED started,
         \A e \in Events : \/ row'[e].attempts = row[e].attempts
                           \/ row[e].status = "ABSENT" /\ row'[e].attempts = 0,
         \A e \in Events : row'[e].status = "ABSENT" => row[e].status = "ABSENT",
         session'[w].pc # "idle" =>
           /\ session'[w].event \in Events
           /\ session'[w].copy.attempts <= started[session'[w].event]
  PROVE  CountsLag'
<1>1. \A e \in Events : started[e] \in Nat /\ row[e].attempts \in Nat
  BY DEF TypeOK, Row
<1>2. AttemptsLag'
  BY <1>1 DEF CountsLag, AttemptsLag
<1>3. \A e \in Events : row'[e].status = "ABSENT" => started'[e] = 0
  BY DEF CountsLag
<1>4. \A v \in Workers :
        session'[v].pc # "idle" => session'[v].copy.attempts <= started'[session'[v].event]
  BY DEF CountsLag
<1> QED
  BY <1>2, <1>3, <1>4 DEF CountsLag

LEMMA CountsLagStep ==
  ASSUME TypeOK, RowKnown, CountsLag, [Next]_vars
  PROVE  CountsLag'
<1>0. \A e \in Events : /\ row[e] \in Row /\ row[e].attempts \in Nat
                        /\ started[e] \in Nat /\ row[e].attempts <= started[e]
  BY DEF TypeOK, Row, CountsLag, AttemptsLag
<1>1. CASE UNCHANGED vars
  BY <1>1 DEF vars, CountsLag, AttemptsLag
<1>2. ASSUME NEW w \in Workers, NEW e \in Events, Deliver(w, e)
      PROVE  CountsLag'
  <2>1. session'[w].event = e /\ session'[w].copy.attempts = 0
    BY <1>2 DEF Deliver, TypeOK, IdleSession, AbsentRow
  <2> QED
    BY <1>0, <1>2, <2>1, CountsStay DEF Deliver, TypeOK
<1>3. ASSUME NEW w \in Workers, Step(w)
      PROVE  CountsLag'
  <2> DEFINE e == session[w].event
  <2>0. /\ session[w] \in Session
        /\ session[w].pc # "idle" => e \in Events /\ row[e] \in Row
        /\ session[w].pc # "idle" => session[w].copy.attempts <= started[e]
    BY DEF TypeOK, CountsLag
  <2>1. CASE Record(w)
    <3>1. /\ e \in Events /\ session'[w].event = e
          /\ session'[w].copy \in {session[w].copy, row[e]}
      BY <2>0, <2>1 DEF Record, TypeOK, Session
    <3>2. session'[w].copy.attempts <= started[e]
      BY <1>0, <2>0, <2>1, <3>1 DEF Record
    <3> QED
      BY <2>1, <3>1, <3>2, CountsStay DEF Record, TypeOK
  <2>2. CASE Insert(w)
    <3>1. /\ e \in Events /\ session'[w].event = e
          /\ session'[w].copy \in {session[w].copy, row[e]}
      BY <2>0, <2>2 DEF Insert, TypeOK, Session
    <3>2. session'[w].copy.attempts <= started[e]
      BY <1>0, <2>0, <2>2, <3>1 DEF Insert
    <3>3. \A f \in Events :
            \/ row'[f] = row[f]
            \/ /\ row[f].status = "ABSENT" /\ row'[f].attempts = 0
               /\ row'[f].status = "RECEIVED"
      BY <2>0, <2>2 DEF Insert, KeyTaken, TypeOK
    <3> QED
      BY <2>2, <3>1, <3>2, <3>3, CountsStay DEF Insert, TypeOK
  <2>3. CASE Refresh(w)
    <3>1. /\ e \in Events /\ session'[w].event = e
          /\ session'[w].copy = row[e]
      BY <2>0, <2>3 DEF Refresh, TypeOK, Session
    <3> QED
      BY <1>0, <2>3, <3>1, CountsStay DEF Refresh, TypeOK
  <2>4. CASE AnswerDuplicate(w)
    <3>1. session'[w].pc = "idle"
      BY <2>4 DEF AnswerDuplicate, Answer, TypeOK, IdleSession
    <3> QED
      BY <2>4, <3>1, CountsStay DEF AnswerDuplicate, Answer, TypeOK
  <2>5. CASE MarkIgnored(w) \/ MarkProcessed(w) \/ MarkFailed(w)
    <3>1. session'[w].pc = "idle"
      BY <2>5 DEF MarkIgnored, MarkProcessed, MarkFailed, Answer, TypeOK, IdleSession
    <3>2. \A f \in Events : /\ row'[f].attempts = row[f].attempts
                            /\ row'[f].status = "ABSENT" => row[f].status = "ABSENT"
      BY <2>0, <2>5 DEF MarkIgnored, MarkProcessed, MarkFailed, FailedRow, TypeOK, Row
    <3> QED
      BY <2>5, <3>1, <3>2, CountsStay
         DEF MarkIgnored, MarkProcessed, MarkFailed, Answer, TypeOK
  <2>6. CASE MarkProcessing(w)
    <3>1. /\ e \in Events
          /\ started' = [started EXCEPT ![e] = @ + 1]
          /\ row' = [row EXCEPT ![e] = Marked(session[w].copy)]
          /\ session'[w].event = e /\ session'[w].copy = Marked(session[w].copy)
          /\ \A v \in Workers : v # w => session'[v] = session[v]
      BY <2>0, <2>6 DEF MarkProcessing, TypeOK, Session
    <3>2. /\ Marked(session[w].copy).attempts = session[w].copy.attempts + 1
          /\ Marked(session[w].copy).status = "PROCESSING"
          /\ session[w].copy.attempts \in Nat
          /\ session[w].copy.attempts <= started[e]
      BY <2>0, <2>6 DEF Marked, MarkProcessing, Session, Row
    <3>3. \A f \in Events :
            /\ started'[f] = IF f = e THEN started[e] + 1 ELSE started[f]
            /\ row'[f] = IF f = e THEN Marked(session[w].copy) ELSE row[f]
      BY <3>1 DEF TypeOK
    <3> HIDE DEF e
    <3>4. AttemptsLag' /\ \A f \in Events : row'[f].status = "ABSENT" => started'[f] = 0
      BY <1>0, <3>1, <3>2, <3>3 DEF CountsLag, AttemptsLag
    <3>5. ASSUME NEW v \in Workers, session'[v].pc # "idle"
          PROVE  session'[v].copy.attempts <= started'[session'[v].event]
      <4>1. CASE v = w
        BY <1>0, <3>1, <3>2, <3>3, <4>1
      <4>2. CASE v # w
        <5>1. /\ session'[v] = session[v] /\ session[v].event \in Events
              /\ session[v].copy.attempts <= started[session[v].event]
              /\ session[v].copy.attempts \in Nat
          BY <3>1, <3>5, <4>2 DEF CountsLag, TypeOK, Session, Row
        <5> QED
          BY <1>0, <3>1, <3>3, <5>1
      <4> QED
        BY <4>1, <4>2
    <3> QED
      BY <3>4, <3>5 DEF CountsLag
  <2>7. CASE ReconcileRaises(w)
    <3>1. /\ e \in Events /\ session'[w].event = e
          /\ session'[w].copy = session[w].copy
      BY <2>0, <2>7 DEF ReconcileRaises, TypeOK, Session
    <3> QED
      BY <2>0, <2>7, <3>1, CountsStay DEF ReconcileRaises, TypeOK
  <2> QED
    BY <1>3, <2>1, <2>2, <2>3, <2>4, <2>5, <2>6, <2>7 DEF Step
<1>4. ASSUME NEW w \in Workers, Crash(w)
      PROVE  CountsLag'
  <2>1. session'[w].pc = "idle"
    BY <1>4 DEF Crash, Answer, TypeOK, IdleSession
  <2> QED
    BY <1>4, <2>1, CountsStay DEF Crash, Answer, TypeOK
<1> QED
  BY <1>1, <1>2, <1>3, <1>4 DEF Next

(* mark_processing of any number of processes: the increments they lose to *)
(* one another make processing_attempts too low, never too high, and the   *)
(* trace that an event was worked on is never lost.                        *)
THEOREM AttemptsLagHolds == Spec => []AttemptsLag
<1>1. Init => CountsLag /\ RowKnown
  BY DEF Init, CountsLag, AttemptsLag, RowKnown, IdleSession, AbsentRow
<1>2. TypeOK /\ (RowKnown /\ InsertedOnce) /\ CountsLag /\ [Next]_vars => CountsLag'
  BY CountsLagStep
<1>3. TypeOK /\ (RowKnown /\ InsertedOnce) /\ [Next]_vars
        => (RowKnown /\ InsertedOnce)'
  BY InsertedOnceStep
<1>4. Init => InsertedOnce
  BY DEF Init, InsertedOnce, AbsentRow
<1>5. CountsLag => AttemptsLag
  BY DEF CountsLag
<1> QED
  BY <1>1, <1>2, <1>3, <1>4, <1>5, TypeCorrect, PTL DEF Spec

-------------------------------------------------------------------------------
(* One process (the shipped deployment), which may crash between any two   *)
(* transactions.  What its in-memory row says is then what the database    *)
(* says, which is why no step needs to re-read it.                         *)
OneWorker == \A v, w \in Workers : v = w

HandIsCurrent ==
  \A w \in Workers :
    LET s == session[w]  r == row[s.event] IN
    /\ s.pc \in {"record", "insert"} => ~s.created
    /\ s.pc = "refresh" => s.created /\ r.status = "RECEIVED"
    /\ s.pc = "dispatch" =>
         /\ s.copy = r
         /\ r.status # "ABSENT"
         /\ s.created => r.status = "RECEIVED"
    /\ s.pc \in {"reconcile", "failed"} =>
         r.status = "PROCESSING" /\ s.event \in Supported

AbsentIsUntouched ==
  \A e \in Events : row[e].status = "ABSENT" => row[e].attempts = 0

SingleInv ==
  HandIsCurrent /\ AbsentIsUntouched /\ EffectsMatchStatus /\ AttemptsCountStarts

(* A step keeps SingleInv, and takes no event out of a settled status.     *)
SettledRowsKept ==
  \A e \in Events : row[e].status \in SettledStatuses => row'[e] = row[e]

LEMMA SingleStep ==
  ASSUME OneWorker, TypeOK, SingleInv, [Next]_vars
  PROVE  SingleInv' /\ SettledRowsKept
<1> DEFINE Goal == SingleInv' /\ SettledRowsKept
<1> USE DEF SettledStatuses
<1>1. CASE UNCHANGED vars
  BY <1>1 DEF vars, SingleInv, HandIsCurrent, AbsentIsUntouched,
              EffectsMatchStatus, AttemptsCountStarts, SettledRowsKept
<1>2. ASSUME UNCHANGED <<row, started, applied>>, HandIsCurrent'
      PROVE  Goal
  BY <1>2 DEF SingleInv, AbsentIsUntouched, EffectsMatchStatus,
              AttemptsCountStarts, SettledRowsKept
<1>3. ASSUME NEW w \in Workers, session' = [session EXCEPT ![w] = IdleSession]
      PROVE  HandIsCurrent'
  BY <1>3 DEF OneWorker, TypeOK, HandIsCurrent, IdleSession
<1>4. ASSUME NEW w \in Workers, NEW e \in Events, Deliver(w, e)
      PROVE  Goal
  <2>1. HandIsCurrent'
    BY <1>4 DEF Deliver, OneWorker, TypeOK, HandIsCurrent, IdleSession
  <2> QED
    BY <1>2, <1>4, <2>1 DEF Deliver
<1>5. ASSUME NEW w \in Workers, Step(w)
      PROVE  Goal
  <2> DEFINE e == session[w].event
  <2>0. /\ session[w] \in Session
        /\ session[w].pc # "idle" => e \in Events /\ row[e] \in Row
        /\ \A v \in Workers : v = w
    BY DEF TypeOK, OneWorker
  <2>1. CASE Record(w)
    <3>1. HandIsCurrent'
      BY <1>5, <2>0, <2>1 DEF Record, TypeOK, SingleInv, HandIsCurrent, Session
    <3> QED
      BY <1>2, <2>1, <3>1 DEF Record
  <2>2. CASE Insert(w)
    <3>1. CASE KeyTaken(e)
      <4>1. HandIsCurrent'
        BY <2>0, <2>2, <3>1
           DEF Insert, KeyTaken, TypeOK, SingleInv, HandIsCurrent, Session
      <4> QED
        BY <1>2, <2>2, <3>1, <4>1 DEF Insert
    <3>2. CASE ~KeyTaken(e)
      <4>1. row' = [row EXCEPT ![e] = [status |-> "RECEIVED", attempts |-> 0]]
        BY <2>2, <3>2 DEF Insert
      <4>2. HandIsCurrent'
        BY <2>0, <2>2, <3>2, <4>1
           DEF Insert, TypeOK, SingleInv, HandIsCurrent, Session
      <4>3. AbsentIsUntouched' /\ EffectsMatchStatus' /\ AttemptsCountStarts'
        BY <2>0, <2>2, <3>2, <4>1
           DEF Insert, KeyTaken, TypeOK, SingleInv, AbsentIsUntouched,
               EffectsMatchStatus, AttemptsCountStarts
      <4>4. SettledRowsKept
        BY <2>0, <2>2, <3>2, <4>1 DEF Insert, KeyTaken, TypeOK, SettledRowsKept
      <4> QED
        BY <4>2, <4>3, <4>4 DEF SingleInv
    <3> QED
      BY <3>1, <3>2
  <2>3. CASE Refresh(w)
    <3>1. HandIsCurrent'
      BY <2>0, <2>3 DEF Refresh, TypeOK, SingleInv, HandIsCurrent, Session
    <3> QED
      BY <1>2, <2>3, <3>1 DEF Refresh
  <2>4. CASE AnswerDuplicate(w)
    BY <1>2, <1>3, <2>4 DEF AnswerDuplicate, Answer
  <2>5. CASE MarkIgnored(w)
    <3>1. HandIsCurrent'
      BY <1>3, <2>5 DEF MarkIgnored, Answer
    <3>2. row[e].status \in {"RECEIVED", "FAILED"}
      BY <2>0, <2>5 DEF MarkIgnored, IsAnsweredDuplicate, DuplicateStatuses,
                        SingleInv, HandIsCurrent, Row, RowStatuses
    <3>3. AbsentIsUntouched' /\ EffectsMatchStatus' /\ AttemptsCountStarts'
      BY <2>0, <2>5, <3>2 DEF MarkIgnored, TypeOK, Row, SingleInv,
                AbsentIsUntouched, EffectsMatchStatus, AttemptsCountStarts
    <3>4. SettledRowsKept
      BY <2>0, <2>5, <3>2 DEF MarkIgnored, TypeOK, SettledRowsKept
    <3> QED
      BY <3>1, <3>3, <3>4 DEF SingleInv
  <2>6. CASE MarkProcessing(w)
    <3>1. row[e].status \in {"RECEIVED", "FAILED"} /\ session[w].copy = row[e]
      BY <2>0, <2>6 DEF MarkProcessing, IsAnsweredDuplicate, DuplicateStatuses,
                        SingleInv, HandIsCurrent, Row, RowStatuses
    <3>2. row' = [row EXCEPT ![e] = [status |-> "PROCESSING",
                                     attempts |-> row[e].attempts + 1]]
      BY <2>6, <3>1 DEF MarkProcessing, Marked
    <3>3. HandIsCurrent'
      BY <2>0, <2>6, <3>2 DEF MarkProcessing, TypeOK, SingleInv, HandIsCurrent,
                              Session
    <3>4. AbsentIsUntouched' /\ EffectsMatchStatus' /\ AttemptsCountStarts'
      BY <2>0, <2>6, <3>1, <3>2 DEF MarkProcessing, TypeOK, SingleInv,
                AbsentIsUntouched, EffectsMatchStatus, AttemptsCountStarts
    <3>5. SettledRowsKept
      BY <2>0, <2>6, <3>1, <3>2 DEF TypeOK, SettledRowsKept
    <3> QED
      BY <3>3, <3>4, <3>5 DEF SingleInv
  <2>7. CASE MarkProcessed(w)
    <3>1. HandIsCurrent'
      BY <1>3, <2>7 DEF MarkProcessed, Answer
    <3>2. row[e].status = "PROCESSING"
      BY <2>0, <2>7 DEF MarkProcessed, SingleInv, HandIsCurrent
    <3>3. AbsentIsUntouched' /\ EffectsMatchStatus' /\ AttemptsCountStarts'
      BY <2>0, <2>7, <3>2 DEF MarkProcessed, TypeOK, Row, SingleInv,
                AbsentIsUntouched, EffectsMatchStatus, AttemptsCountStarts
    <3>4. SettledRowsKept
      BY <2>0, <2>7, <3>2 DEF MarkProcessed, TypeOK, SettledRowsKept
    <3> QED
      BY <3>1, <3>3, <3>4 DEF SingleInv
  <2>8. CASE ReconcileRaises(w)
    <3>1. HandIsCurrent'
      BY <2>0, <2>8 DEF ReconcileRaises, TypeOK, SingleInv, HandIsCurrent, Session
    <3> QED
      BY <1>2, <2>8, <3>1 DEF ReconcileRaises
  <2>9. CASE MarkFailed(w)
    <3>1. HandIsCurrent'
      BY <1>3, <2>9 DEF MarkFailed, Answer
    <3>2. row[e].status = "PROCESSING"
      BY <2>0, <2>9 DEF MarkFailed, SingleInv, HandIsCurrent
    <3>3. AbsentIsUntouched' /\ EffectsMatchStatus' /\ AttemptsCountStarts'
      BY <2>0, <2>9, <3>2 DEF MarkFailed, FailedRow, TypeOK, Row, SingleInv,
                AbsentIsUntouched, EffectsMatchStatus, AttemptsCountStarts
    <3>4. SettledRowsKept
      BY <2>0, <2>9, <3>2 DEF MarkFailed, TypeOK, SettledRowsKept
    <3> QED
      BY <3>1, <3>3, <3>4 DEF SingleInv
  <2> QED
    BY <1>5, <2>1, <2>2, <2>3, <2>4, <2>5, <2>6, <2>7, <2>8, <2>9 DEF Step
<1>6. ASSUME NEW w \in Workers, Crash(w)
      PROVE  Goal
  BY <1>2, <1>3, <1>6 DEF Crash, Answer
<1> QED
  BY <1>1, <1>4, <1>5, <1>6 DEF Next

LEMMA SingleInvariant == ASSUME OneWorker PROVE Spec => []SingleInv
<1>1. Init => SingleInv
  BY DEF Init, SingleInv, HandIsCurrent, AbsentIsUntouched, EffectsMatchStatus,
         AttemptsCountStarts, IdleSession, AbsentRow
<1>2. TypeOK /\ SingleInv /\ [Next]_vars => SingleInv'
  BY SingleStep
<1> QED
  BY <1>1, <1>2, TypeCorrect, PTL DEF Spec

(* With one process, crashes or not, an event's effects are committed once *)
(* and exactly when its row says PROCESSED: mark_processed commits both.   *)
THEOREM EffectsMatchStatusHolds ==
  ASSUME OneWorker PROVE Spec => []EffectsMatchStatus
BY SingleInvariant, PTL DEF SingleInv

(* With one process, processing_attempts counts every reconciliation begun.*)
THEOREM AttemptsCountStartsHolds ==
  ASSUME OneWorker PROVE Spec => []AttemptsCountStarts
BY SingleInvariant, PTL DEF SingleInv

(* With one process, PROCESSED and IGNORED are final.                      *)
THEOREM SettledIsFinalHolds == ASSUME OneWorker PROVE Spec => SettledIsFinal
<1>1. TypeOK /\ SingleInv /\ [Next]_vars
        => [\A e \in Events :
              row[e].status \in SettledStatuses => row'[e] = row[e]]_vars
  BY SingleStep DEF SettledRowsKept
<1> QED
  BY <1>1, SingleInvariant, TypeCorrect, PTL DEF Spec, SettledIsFinal

-------------------------------------------------------------------------------
(* With one process an orphan stays one: its row is answered as a duplicate*)
(* and never worked on again.                                              *)
LEMMA OrphansStay ==
  ASSUME OneWorker, TypeOK, SingleInv, [Next]_vars
  PROVE  Orphaned \subseteq Orphaned'
<1> USE DEF Orphaned, InWork
<1>1. CASE UNCHANGED vars
  BY <1>1 DEF vars
<1>2. ASSUME NEW w \in Workers, NEW e \in Events, Deliver(w, e)
      PROVE  Orphaned \subseteq Orphaned'
  BY <1>2 DEF Deliver, TypeOK, IdleSession
<1>3. ASSUME NEW w \in Workers, Step(w)
      PROVE  Orphaned \subseteq Orphaned'
  <2> DEFINE e == session[w].event
  <2>0. /\ session[w] \in Session
        /\ session[w].pc # "idle" => e \in Events /\ row[e] \in Row
        /\ \A v \in Workers : v = w
    BY DEF TypeOK, OneWorker
  <2> USE <2>0 DEF TypeOK
  <2>1. CASE Record(w)
    <3>1. UNCHANGED row /\ session'[w].pc \notin {"reconcile", "failed"}
      BY <2>1 DEF Record, Session
    <3> QED
      BY <3>1
  <2>2. CASE Insert(w)
    <3>1. session'[w].pc \notin {"reconcile", "failed"}
      BY <2>2 DEF Insert, Session
    <3>2. row[e].status = "PROCESSING" => row' = row
      BY <2>2 DEF Insert, KeyTaken
    <3>3. \A f \in Events : f # e => row'[f] = row[f]
      BY <2>2 DEF Insert
    <3> QED
      BY <3>1, <3>2, <3>3
  <2>3. CASE Refresh(w)
    BY <2>3 DEF Refresh
  <2>4. CASE AnswerDuplicate(w)
    BY <2>4 DEF AnswerDuplicate, Answer, IdleSession
  <2>5. CASE MarkIgnored(w)
    <3>1. row[e].status # "PROCESSING"
      BY <2>5 DEF MarkIgnored, IsAnsweredDuplicate, DuplicateStatuses,
                  SingleInv, HandIsCurrent
    <3> QED
      BY <2>5, <3>1 DEF MarkIgnored, Answer, IdleSession
  <2>6. CASE MarkProcessing(w)
    <3>1. row[e].status # "PROCESSING"
      BY <2>6 DEF MarkProcessing, IsAnsweredDuplicate, DuplicateStatuses,
                  SingleInv, HandIsCurrent
    <3> QED
      BY <2>6, <3>1 DEF MarkProcessing
  <2>7. CASE MarkProcessed(w)
    BY <2>7 DEF MarkProcessed, Answer, IdleSession
  <2>8. CASE ReconcileRaises(w)
    BY <2>8 DEF ReconcileRaises
  <2>9. CASE MarkFailed(w)
    BY <2>9 DEF MarkFailed, Answer, IdleSession
  <2> QED
    BY <1>3, <2>1, <2>2, <2>3, <2>4, <2>5, <2>6, <2>7, <2>8, <2>9 DEF Step
<1>4. ASSUME NEW w \in Workers, Crash(w)
      PROVE  Orphaned \subseteq Orphaned'
  BY <1>4 DEF Crash, Answer, IdleSession, TypeOK
<1> QED
  BY <1>1, <1>2, <1>3, <1>4 DEF Next

(* What a step may add to the answered events.                             *)
LEMMA AnswersAreEarned ==
  ASSUME OneWorker, TypeOK, SingleInv, NEW w \in Workers, Step(w)
  PROVE  \/ answered' = answered
         \/ /\ answered' = answered \cup {session[w].event}
            /\ session[w].event \in Events
            /\ \/ row'[session[w].event].status \in SettledStatuses
               \/ session[w].event \in Orphaned
<1> DEFINE e == session[w].event
<1>0. /\ session[w] \in Session
      /\ session[w].pc # "idle" => e \in Events /\ row[e] \in Row
      /\ \A v \in Workers : v = w
  BY DEF TypeOK, OneWorker
<1>1. CASE AnswerDuplicate(w)
  <2>1. /\ UNCHANGED row
        /\ answered' \in {answered, answered \cup {e}}
        /\ e \in Events
        /\ row[e].status \in {"PROCESSING", "PROCESSED", "IGNORED"}
    BY <1>0, <1>1 DEF AnswerDuplicate, Answer, IsAnsweredDuplicate,
                      DuplicateStatuses, SingleInv, HandIsCurrent
  <2>2. row[e].status = "PROCESSING" => e \in Orphaned
    BY <1>0, <1>1, <2>1 DEF AnswerDuplicate, Orphaned, InWork
  <2> QED
    BY <2>1, <2>2 DEF SettledStatuses
<1>2. CASE MarkIgnored(w)
  <2>1. e \in Events /\ row'[e].status = "IGNORED"
    BY <1>0, <1>2 DEF MarkIgnored, TypeOK, Row
  <2> QED
    BY <1>2, <2>1 DEF MarkIgnored, Answer, SettledStatuses
<1>3. CASE MarkProcessed(w)
  <2>1. e \in Events /\ row'[e].status = "PROCESSED"
    BY <1>0, <1>3 DEF MarkProcessed, TypeOK, Row
  <2> QED
    BY <1>3, <2>1 DEF MarkProcessed, Answer, SettledStatuses
<1>4. CASE ~(AnswerDuplicate(w) \/ MarkIgnored(w) \/ MarkProcessed(w))
  <2>1. answered' = answered
    BY <1>4 DEF Step, Record, Insert, Refresh, MarkProcessing, ReconcileRaises,
                MarkFailed, Answer
  <2> QED
    BY <2>1
<1> QED
  BY <1>1, <1>2, <1>3, <1>4

LEMMA AnsweredStep ==
  ASSUME OneWorker, TypeOK, SingleInv, AnsweredIsSettled, [Next]_vars
  PROVE  AnsweredIsSettled'
<1>0. /\ SettledRowsKept
      /\ Orphaned \subseteq Orphaned'
      /\ answered \subseteq Events
  BY SingleStep, OrphansStay DEF TypeOK
<1>1. ASSUME answered' = answered PROVE AnsweredIsSettled'
  BY <1>0, <1>1 DEF AnsweredIsSettled, SettledRowsKept
<1>2. CASE UNCHANGED vars
  BY <1>1, <1>2 DEF vars
<1>3. ASSUME NEW w \in Workers, NEW e \in Events, Deliver(w, e)
      PROVE  AnsweredIsSettled'
  BY <1>1, <1>3 DEF Deliver
<1>4. ASSUME NEW w \in Workers, Step(w)
      PROVE  AnsweredIsSettled'
  BY <1>0, <1>1, <1>4, AnswersAreEarned DEF AnsweredIsSettled, SettledRowsKept
<1>5. ASSUME NEW w \in Workers, Crash(w)
      PROVE  AnsweredIsSettled'
  BY <1>1, <1>5 DEF Crash, Answer
<1> QED
  BY <1>2, <1>3, <1>4, <1>5 DEF Next

(* With one process, 2xx is given only for settled events and for those a  *)
(* cut-off request left in PROCESSING: ingest's duplicate check.           *)
THEOREM AnsweredIsSettledHolds ==
  ASSUME OneWorker PROVE Spec => []AnsweredIsSettled
<1>1. Init => AnsweredIsSettled
  BY DEF Init, AnsweredIsSettled
<1>2. TypeOK /\ SingleInv /\ AnsweredIsSettled /\ [Next]_vars
        => AnsweredIsSettled'
  BY AnsweredStep
<1> QED
  BY <1>1, <1>2, TypeCorrect, SingleInvariant, PTL DEF Spec

(* docs/architecture.md:133-134: with one process, what ingest answers 2xx *)
(* is settled, or in work, for as long as no request was cut off: only a   *)
(* cut leaves an answered event to nobody (the run inbox_orphan).          *)
THEOREM AnsweredHasOwnerUncut ==
  ASSUME OneWorker PROVE Spec => [](crashes = 0 => AnsweredHasOwner)
<1>1. TypeOK /\ AnsweredIsSettled /\ IsFiniteSet(Orphaned) /\ OrphansAreCrashes
        => (crashes = 0 => AnsweredHasOwner)
  <2> SUFFICES ASSUME AnsweredIsSettled, IsFiniteSet(Orphaned), OrphansAreCrashes,
                      crashes = 0
               PROVE  AnsweredHasOwner
    OBVIOUS
  <2>1. Cardinality(Orphaned) \in Nat /\ Cardinality(Orphaned) <= 0
    BY FS_CardinalityType DEF OrphansAreCrashes
  <2>2. Orphaned = {}
    BY <2>1, FS_EmptySet
  <2> QED
    BY <2>2 DEF AnsweredIsSettled, AnsweredHasOwner
<1> QED
  BY <1>1, TypeCorrect, AnsweredIsSettledHolds, OrphanInvariant, PTL

-------------------------------------------------------------------------------
(* One process implements EventLedger: the steps that change the ledger are*)
(* mark_processed, mark_ignored and the answer to a duplicate of a settled *)
(* event; every other step, a crash included, leaves it as it is.          *)
LEMMA StepKeepsOrphans ==
  ASSUME OneWorker, TypeOK, SingleInv, NEW w \in Workers, Step(w)
  PROVE  Orphaned' = Orphaned
<1>1. [Next]_vars
  BY DEF Next
<1> QED
  BY <1>1, StepOrphansNothing, OrphansStay

LEMMA LedgerStep ==
  ASSUME OneWorker, TypeOK, SingleInv, AnsweredIsSettled, [Next]_vars
  PROVE  [Ledger!Next]_(Ledger!vars)
<1> DEFINE Ignored == {e \in Events : row[e].status = "IGNORED"}
           Told == answered \ Orphaned
<1> USE DEF Ledger!vars
<1>1. CASE UNCHANGED vars
  BY <1>1 DEF vars, Orphaned, InWork
<1>2. ASSUME NEW w \in Workers, NEW e \in Events, Deliver(w, e)
      PROVE  UNCHANGED <<row, applied, answered>> /\ Orphaned' = Orphaned
  BY <1>2 DEF Deliver, Orphaned, InWork, TypeOK, IdleSession
<1>3. ASSUME NEW w \in Workers, Step(w)
      PROVE  [Ledger!Next]_(Ledger!vars)
  <2> DEFINE e == session[w].event
  <2>0. /\ session[w] \in Session
        /\ session[w].pc # "idle" => e \in Events /\ row[e] \in Row
        /\ \A v \in Workers : v = w
        /\ Orphaned' = Orphaned
    BY <1>3, StepKeepsOrphans DEF TypeOK, OneWorker
  <2>1. CASE Record(w)
    BY <2>0, <2>1 DEF Record
  <2>2. CASE Insert(w)
    <3>1. UNCHANGED <<applied, answered>>
      BY <2>2 DEF Insert
    <3>2. Ignored' = Ignored
      BY <2>0, <2>2 DEF Insert, KeyTaken, TypeOK
    <3> QED
      BY <2>0, <3>1, <3>2
  <2>3. CASE Refresh(w)
    BY <2>0, <2>3 DEF Refresh
  <2>4. CASE AnswerDuplicate(w)
    <3>1. UNCHANGED <<row, applied>> /\ answered' \in {answered, answered \cup {e}}
      BY <2>4 DEF AnswerDuplicate, Answer
    <3>2. e \in Events /\ row[e].status \in {"PROCESSING", "PROCESSED", "IGNORED"}
      BY <2>0, <2>4 DEF AnswerDuplicate, IsAnsweredDuplicate, DuplicateStatuses,
                        SingleInv, HandIsCurrent
    <3>3. CASE row[e].status = "PROCESSING"
      <4>1. e \in Orphaned
        BY <2>0, <2>4, <3>2, <3>3 DEF AnswerDuplicate, Orphaned, InWork
      <4>2. Told' = Told
        BY <2>0, <3>1, <4>1
      <4> QED
        BY <3>1, <4>2
    <3>4. CASE row[e].status # "PROCESSING"
      <4>1. Ledger!Settled(e)
        BY <3>2, <3>4 DEF Ledger!Settled, SingleInv, EffectsMatchStatus
      <4>2. e \notin Orphaned
        BY <3>4 DEF Orphaned
      <4>3. Told' \in {Told, Told \cup {e}}
        BY <2>0, <3>1, <4>2
      <4> QED
        BY <3>1, <3>2, <4>1, <4>3 DEF Ledger!Next, Ledger!Tell
    <3> QED
      BY <3>3, <3>4
  <2>5. CASE MarkIgnored(w)
    <3>1. e \in Events /\ row[e].status \in {"RECEIVED", "FAILED"}
      BY <2>0, <2>5 DEF MarkIgnored, IsAnsweredDuplicate, DuplicateStatuses,
                        SingleInv, HandIsCurrent, Row, RowStatuses
    <3>2. applied[e] = 0 /\ e \notin Orphaned
      BY <3>1 DEF SingleInv, EffectsMatchStatus, Orphaned
    <3>3. /\ e \notin Supported
          /\ applied' = applied
          /\ answered' \in {answered, answered \cup {e}}
      BY <2>5 DEF MarkIgnored, Answer
    <3>4. Ignored' = Ignored \cup {e}
      BY <2>0, <2>5, <3>1 DEF MarkIgnored, TypeOK, Row
    <3>5. ~Ledger!Settled(e)
      BY <3>1, <3>2 DEF Ledger!Settled
    <3>6. Told' \in {Told, Told \cup {e}}
      BY <2>0, <3>2, <3>3
    <3> QED
      BY <3>1, <3>3, <3>4, <3>5, <3>6 DEF Ledger!Next, Ledger!Ignore
  <2>6. CASE MarkProcessing(w)
    <3>1. e \in Events /\ row[e].status \in {"RECEIVED", "FAILED"}
      BY <2>0, <2>6 DEF MarkProcessing, IsAnsweredDuplicate, DuplicateStatuses,
                        SingleInv, HandIsCurrent, Row, RowStatuses
    <3>2. Ignored' = Ignored
      BY <2>6, <3>1 DEF MarkProcessing, Marked, TypeOK
    <3> QED
      BY <2>0, <2>6, <3>2 DEF MarkProcessing
  <2>7. CASE MarkProcessed(w)
    <3>1. /\ e \in Events /\ e \in Supported
          /\ row[e].status = "PROCESSING"
      BY <2>0, <2>7 DEF MarkProcessed, SingleInv, HandIsCurrent
    <3>2. applied[e] = 0 /\ e \notin Orphaned
      BY <2>0, <2>7, <3>1 DEF MarkProcessed, SingleInv, EffectsMatchStatus,
                              Orphaned, InWork
    <3>3. /\ applied' = [applied EXCEPT ![e] = 1]
          /\ answered' \in {answered, answered \cup {e}}
      BY <2>7, <3>2 DEF MarkProcessed, Answer
    <3>4. Ignored' = Ignored
      BY <2>0, <2>7, <3>1 DEF MarkProcessed, TypeOK, Row
    <3>5. ~Ledger!Settled(e)
      BY <3>1, <3>2 DEF Ledger!Settled
    <3>6. Told' \in {Told, Told \cup {e}}
      BY <2>0, <3>2, <3>3
    <3> QED
      BY <3>1, <3>3, <3>4, <3>5, <3>6 DEF Ledger!Next, Ledger!Apply
  <2>8. CASE ReconcileRaises(w)
    BY <2>0, <2>8 DEF ReconcileRaises
  <2>9. CASE MarkFailed(w)
    <3>1. e \in Events /\ row[e].status = "PROCESSING"
      BY <2>0, <2>9 DEF MarkFailed, SingleInv, HandIsCurrent
    <3>2. Ignored' = Ignored
      BY <2>0, <2>9, <3>1 DEF MarkFailed, FailedRow, TypeOK, Row
    <3> QED
      BY <2>0, <2>9, <3>2 DEF MarkFailed, Answer
  <2> QED
    BY <1>3, <2>1, <2>2, <2>3, <2>4, <2>5, <2>6, <2>7, <2>8, <2>9 DEF Step
<1>4. ASSUME NEW w \in Workers, Crash(w)
      PROVE  UNCHANGED <<row, applied, answered>> /\ Told' = Told
  <2>1. UNCHANGED <<row, applied, answered>>
    BY <1>4 DEF Crash, Answer
  <2>2. ASSUME NEW e \in Orphaned' \ Orphaned PROVE e \notin answered
    <3>1. row[e].status = "PROCESSING"
      BY <2>1, <2>2 DEF Orphaned
    <3> QED
      BY <2>2, <3>1 DEF AnsweredIsSettled, SettledStatuses
  <2>3. Orphaned \subseteq Orphaned'
    BY OrphansStay
  <2> QED
    BY <2>1, <2>2, <2>3
<1> QED
  BY <1>1, <1>2, <1>3, <1>4 DEF Next

(* The refinement: for one process, cut off at any point or not, every     *)
(* behaviour of the inbox is a behaviour of the ledger, in which the       *)
(* orphans' answers do not count (the run inbox_single shows it with two   *)
(* crashes).                                                               *)
THEOREM ImplementsLedgerHolds ==
  ASSUME OneWorker PROVE Spec => ImplementsLedger
<1>1. Init => Ledger!Init
  BY DEF Init, Ledger!Init, AbsentRow
<1>2. TypeOK /\ SingleInv /\ AnsweredIsSettled /\ [Next]_vars
        => [Ledger!Next]_(Ledger!vars)
  BY LedgerStep
<1> QED
  BY <1>1, <1>2, TypeCorrect, SingleInvariant, AnsweredIsSettledHolds, PTL
     DEF Spec, ImplementsLedger, Ledger!Spec
===============================================================================

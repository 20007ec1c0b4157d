---------------------------- MODULE CaseLifecycle ----------------------------
(***************************************************************************)
(* The statuses of a recovery case and the transitions the domain allows   *)
(* between them (app/domain/enums.py, app/domain/recovery_case.py).  Every *)
(* module that changes a case's status takes its guard from here.          *)
(***************************************************************************)

(* RecoveryCaseStatus *)
TerminalStatuses == {"RECOVERED", "STOPPED", "EXPIRED", "ESCALATED"}

ActiveStatuses == {"AT_RISK", "ELIGIBILITY_CHECK", "ASSESSING",
                   "DECISION_READY", "POLICY_CHECK", "ACTION_PENDING",
                   "EXECUTING", "ACTION_FAILED", "REASSESS", "NEXT_ACTION"}

CaseStatuses == ActiveStatuses \cup TerminalStatuses

(* The three ways the engine closes a case; ESCALATED is a workflow step.  *)
ClosingStatuses == {"RECOVERED", "STOPPED", "EXPIRED"}

(* The workflow edges of ALLOWED_TRANSITIONS, those that do not close.     *)
WorkflowEdges ==
  { <<"AT_RISK", "ELIGIBILITY_CHECK">>,
    <<"ELIGIBILITY_CHECK", "ASSESSING">>,
    <<"ASSESSING", "DECISION_READY">>,
    <<"DECISION_READY", "POLICY_CHECK">>,
    <<"POLICY_CHECK", "ACTION_PENDING">>,
    <<"POLICY_CHECK", "ESCALATED">>,
    <<"ACTION_PENDING", "EXECUTING">>,
    <<"EXECUTING", "ACTION_FAILED">>,
    <<"ACTION_FAILED", "REASSESS">>,
    <<"REASSESS", "NEXT_ACTION">>,
    <<"NEXT_ACTION", "POLICY_CHECK">> }

(* ALLOWED_TRANSITIONS as a relation: a workflow edge, or closing an       *)
(* active case.                                                            *)
AllowedTransitions ==
  WorkflowEdges \cup (ActiveStatuses \X ClosingStatuses)

(* The rule baseline takes the cases it may assign straight on to          *)
(* DECISION_READY, along the workflow but in one transaction.              *)
EligibleStatuses == {"AT_RISK", "ELIGIBILITY_CHECK", "ASSESSING"}

BatchMoves == EligibleStatuses \X {"DECISION_READY"}

(* ensure_valid_transition: transition_to raises exactly when this fails.  *)
ValidTransition(current, target) == <<current, target>> \in AllowedTransitions
==============================================================================

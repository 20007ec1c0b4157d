----------------------------- MODULE CaseRegister -----------------------------
(***************************************************************************)
(* What the control plane promises about its recovery cases, however       *)
(* webhooks, scans, expiry and requests follow each other.  A case is      *)
(* opened once, at risk or stopped in the same moment, for a positive      *)
(* amount.  While it is active its amount may change, and its status moves *)
(* by an allowed transition, or in a baseline batch by those that lead to  *)
(* DECISION_READY; its window and its customer stay.  Once it has ended,   *)
(* nothing changes.                                                        *)
(***************************************************************************)
EXTENDS CaseLifecycle

CONSTANTS Keys,     \* merchant, source type and source id
          Amounts, Times

VARIABLE entry

Absent == [status |-> "NONE"]

Entry == [status : CaseStatuses, amount : Amounts, end : Times,
          customer : BOOLEAN]

Init == entry = [k \in Keys |-> Absent]

Open(k) ==
  /\ entry[k] = Absent
  /\ entry'[k].status \in {"AT_RISK"} \cup ClosingStatuses

Carry(k) ==
  LET old == entry[k].status
      new == entry'[k].status
  IN
  /\ old \in ActiveStatuses
  /\ new = old \/ <<old, new>> \in AllowedTransitions \cup BatchMoves
  /\ entry'[k].end = entry[k].end /\ entry'[k].customer = entry[k].customer

(* A scan or an expiry moves many cases in one step.                       *)
Next ==
  /\ entry' \in [Keys -> Entry \cup {Absent}]
  /\ \A k \in Keys : entry'[k] = entry[k] \/ Open(k) \/ Carry(k)

Spec == Init /\ [][Next]_entry
===============================================================================

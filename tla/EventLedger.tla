----------------------------- MODULE EventLedger -----------------------------
(***************************************************************************)
(* What the webhook boundary promises about an event, whatever happens     *)
(* between its database transactions: its business effects happen at most  *)
(* once, or it is ignored, never both; and the provider is told 2xx only   *)
(* about an event that is settled for good.                                *)
(***************************************************************************)
EXTENDS Naturals

CONSTANTS Events, Supported

VARIABLES effects,  \* how often the event's effects took place
          ignored,  \* events recorded without effect
          told      \* events the provider was told 2xx about

vars == <<effects, ignored, told>>

Init ==
  /\ effects = [e \in Events |-> 0]
  /\ ignored = {}
  /\ told = {}

Settled(e) == effects[e] > 0 \/ e \in ignored

(* The effects happen, and the provider may hear of it with them.          *)
Apply(e) ==
  /\ e \in Supported /\ ~Settled(e)
  /\ effects' = [effects EXCEPT ![e] = 1]
  /\ told' \in {told, told \cup {e}}
  /\ UNCHANGED ignored

Ignore(e) ==
  /\ e \notin Supported /\ ~Settled(e)
  /\ ignored' = ignored \cup {e}
  /\ told' \in {told, told \cup {e}}
  /\ UNCHANGED effects

(* A redelivery of a settled event is answered again.                      *)
Tell(e) ==
  /\ Settled(e)
  /\ told' = told \cup {e}
  /\ UNCHANGED <<effects, ignored>>

Next == \E e \in Events : Apply(e) \/ Ignore(e) \/ Tell(e)

Spec == Init /\ [][Next]_vars
==============================================================================

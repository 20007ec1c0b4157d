--------------------------- MODULE MCRecoveryEngine ---------------------------
(***************************************************************************)
(* Instances of RecoveryEngine for TLC.  Two attempts to pay one order:    *)
(* the small one leaves part of it due, the large one pays all of it.      *)
(***************************************************************************)
EXTENDS RecoveryEngine, TLC

CONSTANTS p1, p2, o1, l1

(* Attempts on the order itself: 1 of 2, or 2 of 2.                        *)
AttemptOrderOf == (p1 :> o1) @@ (p2 :> o1)
AttemptLink == (p1 :> NoLink) @@ (p2 :> NoLink)
AttemptAmount == (p1 :> 1) @@ (p2 :> 2)
OrderOfTwo == o1 :> 2
NoLinks == [l \in {} |-> o1]

(* One attempt, which pays all.                                            *)
OneOrderOf == p1 :> o1
OneLink == p1 :> NoLink
OneAmount == p1 :> 1
OrderOfOne == o1 :> 1

(* Two instalments through a payment link.                                 *)
InstalmentLink == (p1 :> l1) @@ (p2 :> l1)
InstalmentAmount == (p1 :> 1) @@ (p2 :> 1)
LinkOfOrder == l1 :> o1
===============================================================================

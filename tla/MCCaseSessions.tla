---------------------------- MODULE MCCaseSessions ----------------------------
(* Instances of CaseSessions for TLC.                                      *)
EXTENDS CaseSessions, TLC

SessionSymmetry ==
  Permutations(Cases) \cup Permutations(Sessions) \cup Permutations(Experiments)
===============================================================================

---------------------------- MODULE MCRevenueAtRisk ----------------------------
(* An instance of RevenueAtRisk for TLC: two cases of one currency and one *)
(* window, of which the second is worth less.                              *)
EXTENDS RevenueAtRisk

Currencies == [c \in Cases |-> "INR"]
Begins == [c \in Cases |-> 0]
Ends == [c \in Cases |-> 2]
Values == [c \in Cases |-> IF c = 1 THEN 3 ELSE 1]
===============================================================================

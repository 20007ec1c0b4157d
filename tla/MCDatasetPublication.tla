------------------------- MODULE MCDatasetPublication -------------------------
(* Instances of DatasetPublication for TLC.  The two configurations have   *)
(* equally many rows, so that only checksums and ids can tell their files  *)
(* apart.                                                                  *)
EXTENDS DatasetPublication, TLC

OneCount == [c \in Configs |-> 1]

Symmetry == Permutations(Configs) \cup Permutations(Generators)
              \cup Permutations(Trainers)
===============================================================================

SPECIFICATION Spec
CONSTANTS
  Cases = {c1, c2}
  Experiments = {x1, x2}
  Payments = {p1}
  Sessions = {s1, s2}
  NoExperiment = NoExperiment
  NoGroup = NoGroup
  NoPayment = NoPayment
  Targets = {"STOPPED"}
  Percentages = {1}
SYMMETRY SessionSymmetry
INVARIANTS
  TypeOK
  AssignmentStands
  BothGroupsPopulated
  RecoveredOutcomeHolds
PROPERTIES
  MovesAreLawful
  OutcomeIsFinal

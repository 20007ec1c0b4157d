SPECIFICATION Spec
CONSTANTS
  Configs = {c1, c2}
  CaseCount <- OneCount
  Generators = {g1, g2}
  Trainers = {t1, t2}
  Absent = Absent
  MaxStarts = 4
  MaxFaults = 2
SYMMETRY Symmetry
CHECK_DEADLOCK FALSE
INVARIANTS
  TypeOK
  TrainedOnVerified
  FittedToPublished
  MetadataTellsModel
PROPERTIES
  FinishedIsLoadable
  RerunStaysLoadable

SPECIFICATION Spec
CONSTANTS
  Events = {e1, e2}
  Supported = {e1, e2}
  Workers = {w1, w2}
  NoEvent = NoEvent
  MaxFailures = 2
  MaxCrashes = 1
SYMMETRY ReplicaSymmetry
INVARIANTS
  InsertedOnce
  OrphansAreCrashes

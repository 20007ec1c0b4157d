SPECIFICATION Spec
CONSTANTS
  Events = {e1, e2}
  Supported = {e1, e2}
  Workers = {w1}
  NoEvent = NoEvent
  MaxFailures = 1
  MaxCrashes = 1
INVARIANT
  AnsweredHasOwner

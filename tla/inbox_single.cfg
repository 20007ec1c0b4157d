SPECIFICATION FairSpec
CONSTANTS
  Events = {e1, e2, x1}
  Supported = {e1, e2}
  Workers = {w1}
  NoEvent = NoEvent
  MaxFailures = 2
  MaxCrashes = 2
INVARIANTS
  TypeOK
  EffectsMatchStatus
  AttemptsCountStarts
  AnsweredIsSettled
PROPERTIES
  SettledIsFinal
  ImplementsLedger
  EventuallySettled

SPECIFICATION FairSpec
CONSTANTS
  Cases = {1, 2}
  Currency <- Currencies
  Opens <- Begins
  Closes <- Ends
  Amount <- Values
  Scored = {2}
  Estimates = {3}
  One = 4
  NoEstimate = NoEstimate
  NoDecision = NoDecision
  Requests = {r1, r2}
  TopLimit = 1
  Nothing = Nothing
  MaxTime = 2
  MaxDecisions = 2
CHECK_DEADLOCK FALSE
INVARIANTS
  ListedIsLive
  ExpectedIsWithinRevenue
  UrgencyGrows
  UnscoredStaysVisible
PROPERTIES
  LaterShowsNewer
  ScreenCatchesUp

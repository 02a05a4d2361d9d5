SPECIFICATION FairSpec
CONSTANTS
  e1 = e1
  e2 = e2
  e3 = e3
  e4 = e4
  Events = {e1, e2, e3, e4}
  Capacity = 2
  Ring = 1
INVARIANTS
  ReplayThenLive
  SeenTwiceOnlyInOverlap
PROPERTIES
  SubscribeReturns
  LiveEventsArrive
CHECK_DEADLOCK FALSE

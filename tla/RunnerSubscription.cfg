SPECIFICATION FairSpec
CONSTANTS
  e1 = e1
  e2 = e2
  bad = bad
  Events = {e1, e2, bad}
  Malformed = {bad}
  Capacity = 2
  MaxRedeliveries = 2
INVARIANTS
  NothingSkipped
  ReadIsPrefix
  AckedIsDelivered
PROPERTIES
  EventsArrive
  EndIsSeen
  DropIsNoticed
CHECK_DEADLOCK FALSE

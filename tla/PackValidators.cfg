SPECIFICATION HostSpec
CONSTANTS
  event = event
  other = other
  asset = asset
  handle = handle
  onUpdate = onUpdate
  events = events
  main = main
  Absent = Absent
  Manifests <- MCManifests
  Files <- MCFiles
  EventFiles <- MCEventFiles
  Paths <- MCPaths
  FlowIds <- MCFlowIds
  HandlerIds <- MCHandlerIds
  OnIds <- MCOnIds
  EventsIds <- MCEventsIds
INVARIANTS
  VerdictsAgree
  AcceptedIsSound
CHECK_DEADLOCK FALSE

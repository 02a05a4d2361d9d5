SPECIFICATION FairSpec
CONSTANTS
  n1 = n1
  n2 = n2
  in = in
  f = f
  github = github
  slack = slack
  req = req
  setup = setup
  main = main
  NodeIds <- MCNodeIds
  InNode = in
  NoStart = NoStart
  Fields <- MCFields
  Scenarios <- MCScenarios
  Waits = {"ingest", "subscriptions"}
  Names <- MCNames
  NoFilter = NoFilter
  FlowIds <- MCFlowIds
  RequirementsIds <- MCRequirementsIds
  SetupIds <- MCSetupIds
INVARIANTS
  FlowsWalkedExactly
  VerdictEarned
  ReportAccountsForAll
PROPERTIES
  RunEnds
CHECK_DEADLOCK FALSE

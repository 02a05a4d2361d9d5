SPECIFICATION Spec
CONSTANTS
  a = a
  b = b
  d1 = d1
  d2 = d2
  None = None
  Names <- MCNames
  Topics <- MCTopics
  DefaultPolicy <- MCDefaultPolicy
  U32 = 8
  Packs <- MCPacks
  OverrideMaps <- MCOverrideMaps
  OwnSettings <- MCOwnSettings
  MaxCalls = 4
INVARIANTS
  OverridePrecedence
  PackEntersWhole
CHECK_DEADLOCK FALSE

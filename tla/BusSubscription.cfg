SPECIFICATION Spec
CONSTANTS
  A = A
  B = B
  orders = orders
  bills = bills
  nothing = nothing
  allOf = allOf
  e1 = e1
  e2 = e2
  e3 = e3
  e4 = e4
  s1 = s1
  s2 = s2
  s3 = s3
  s4 = s4
  Tenants <- MCTenants
  Topics <- MCTopics
  Globs = {allOf}
  Matched <- MCMatched
  Registrations <- MCRegistrations
  AclRules <- MCRules
  DefaultAllow = TRUE
  Events = {e1, e2, e3, e4}
  Event <- MCEvent
  Subscribers = {s1, s2, s3, s4}
  Request <- MCRequest
  Ring = 1
  Channel = 1
SYMMETRY Alike
INVARIANTS
  ReachesSubscribers
  SentAsAllowed
CHECK_DEADLOCK FALSE

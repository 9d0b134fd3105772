SPECIFICATION Spec
CONSTANTS
  c1 = c1
  c2 = c2
  k1 = k1
  k2 = k2
  srv = srv
  r1 = r1
  r2 = r2
  q1 = q1
  q2 = q2
  q3 = q3
  Cmd = {c1, c2}
  ChildOf <- Children
  Server = {srv}
  Awkward = {c1}
  MaxMishaps = 1
  Targets = 2
  Chunks <- TwoAndOne
  Permits = 2
  Cap = 3
  Estimate = 1
  Actual = {1, 2}
  Retained = {r1, r2}
  Members <- Shared
  Batch = 2
  MaxDamage = 2
  MaxSetbacks = 1
  Files = 3
  Threads = 2
  MaxCrashes = 2
  Request = {q1, q2, q3}
  Limit = 2
  MaxDeaths = 2
INVARIANTS ServicesTypeOK SpendWithinCap DoneWasValidated
PROPERTIES RequestIsKept RequestsAreServed HelpersAnswer
CHECK_DEADLOCK FALSE

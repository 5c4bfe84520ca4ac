SPECIFICATION GatewaySpec

CONSTANTS
  Project = {p1, p2}
  Tenant = {p1, p2}
  Key = {k1, k2}
  Admin = {a1}
  Signal = {}
  Gateway = {g1}
  Caller = {c1, c2}
  TTL = 1
  NegativeTTL = 0
  MaxLookup = 1
  Rate = 1
  Burst = 1
  Second = 1
  Slack = 0
  MaxFlight = 1
  MaxClock = 2
  MaxEnvelopeItems = 2
  MaxItemBytes = 1
  MaxHeaderLine = 2
  FirstProject = p1
  FirstKey = k1
  Bodies <- AllBodies
  MaxRestarts = 1

INVARIANTS
  BudgetHolds
  RetryAfterIsHonest
  StaleEntriesDie
  AnswersAreTrue
  EveryJobIsCharged

SYMMETRY Symmetry
CHECK_DEADLOCK FALSE

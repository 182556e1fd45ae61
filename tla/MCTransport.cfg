CONSTANTS
  a = a
  b = b
  c = c
  d = d
  p = p
  q = q
  Call = {a, b, c, d}
  WindowSize = 3
  MinCalls = 2
  ErrorPct = 34
  Cooldown = 2
  Poll = {p, q}
  Lifetime = 6
  Spare = 2
  MaxLatency = 3
  MaxPolling = 4
  BucketCapacity = 2
  Refill = 2
  Parts = 4
  MaxClock = 5
  MaxDue = 16
  Workload <- Loads
  NoToken = NoToken
SPECIFICATION SellSpec
INVARIANTS
  PollsAreAuthorized
  RateIsKept
  OffersAreAccountedFor
PROPERTIES
  OpenAdmitsProbe
  CallsReturn
CHECK_DEADLOCK FALSE

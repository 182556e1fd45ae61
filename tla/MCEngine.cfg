CONSTANTS
  plain = plain
  junk = junk
  weak = weak
  r1 = r1
  k1 = k1
  k2 = k2
  Key = {k1, k2}
  Content = {plain, junk, weak}
  Price <- MCPrice
  NoContent = NoContent
  Poisoned = Poisoned
  Raw <- MCRaw
  Run = {r1, r2}
  Share = {s1}
  MaxFed = 1
  Junk = {junk}
  Weak = {weak}
  Cap = 10
  Costs = {9}
  MaxSeen <- MCSeen
  NoKey = NoKey
  NoCall = NoCall
SPECIFICATION Spec
INVARIANTS
  PriceHistoryIsTrue
  ListingsAreTakenUpOnce
  SpendIsBounded
CHECK_DEADLOCK FALSE

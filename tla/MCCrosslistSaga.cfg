CONSTANTS
  Platform = {ebay, mercari}
  HasPublisher = {ebay, mercari}
  Ext = {x1}
  NoExt = NoExt
  NoSale = NoSale
  Call = {c1}
  MaxAttempts = 2
  PubCall = {p1, p2}
  Modes = {"converge", "all_or_nothing"}
SPECIFICATION CrosslistFairSpec
INVARIANTS
  LiveIsAccountedFor
  RolledBackIsGone
PROPERTIES
  EveryPublishReturns
CHECK_DEADLOCK FALSE

CONSTANTS
  Platform = {ebay, mercari, posh}
  HasPublisher = {ebay, mercari}
  Ext = {x1}
  NoExt = NoExt
  NoSale = NoSale
  Call = {c1, c2, c3}
  MaxAttempts = 2
SPECIFICATION FairSpec
INVARIANTS
  HandledMeansOff
  FailuresAreReported
PROPERTIES
  ImplementsSaleGuard
  EverySaleAnswered
CHECK_DEADLOCK FALSE

CONSTANTS
  tx = tx
  Sku = {1, 2}
  Region = {tx}
  Amount = {0, 4}
  Purchase <- Purchases
  Sale <- Sales
  Return <- Returns
  MaxPosts = 6
  NoBasis = NoBasis
  NoRegion = NoRegion
  Parcel <- Parcels
  Workload <- Loads
  LabelCost = 560
  MaxAge = 5
  MaxCalls = 2
  NoOffer = NoOffer
  NoBin = NoBin
SPECIFICATION GoodsSpec
INVARIANTS
  ProfitIsWealth
  StockIsAtBasis
  SalesTaxIsOwed
  BooksMatchTheTill
  UnitsAreSound
PROPERTIES
  MarginIsProtected
CHECK_DEADLOCK FALSE

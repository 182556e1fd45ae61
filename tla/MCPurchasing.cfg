CONSTANTS
  global = global
  market = market
  games = games
  tools = tools
  Switch = {global, market}
  Global = global
  Platform = {market}
  Request <- Deals
  Policy <- Policies
  MaxSpend = 2
  NoAmount = NoAmount
  Total = 20
  Category = {games, tools}
  PerDealPct = 25
  DeployedPct = 50
  CategoryPct = 40
  Anchor <- Anchors
  MinSamples = 2
  MinAgreementPct = 50
  MaxBadPct = 50
  MaxDeal = 4
  DayCap = 6
  Whitelist = {games}
  Workload <- Loads
  NoPrice = NoPrice
  NoDeal = NoDeal
SPECIFICATION PurchasingSpec
INVARIANTS
  CountersAreAffordable
PROPERTIES
  FreshPurchasesAreSound
  NoPolicyEditOverrides
  AutoBuysAreEarned
CHECK_DEADLOCK FALSE

CONSTANTS
  games = games
  gear = gear
  media = media
  MinComps = 5
  Window = 90
  HalfLife = 30
  ActiveCount = 2
  Certainty = 7790
  NetFloor = 2500
  RoiFloorBp = 3000
  HourFloor = 3000
  MinPrice = 100
  MaxPrice = 50000
  Market <- Markets
  Profile <- GamesProfile
  Profiles <- OtherProfiles
  Schedule <- Contributions
  MaxCapital = 40000
  PerDayCap = 22000
  FeeBp = 1310
  FeeFixed = 30
  ShipLabel = 650
  MaxSku = 4
  NoBasis = NoBasis
  NoRegion = NoRegion
  Parent <- Parents
  Strengths = {8}
  Margins = {0, 100}
  MaxTrainings = 3
  NoModel = NoModel
SPECIFICATION LearnSpec
CHECK_DEADLOCK FALSE
INVARIANTS
  EquityIsExplained
  NothingIsOverdue
  TearsheetAgrees
  WaterfallIsExact
  DriftIsBounded

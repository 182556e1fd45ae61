CONSTANTS
  Absent = Absent
  Null = Null
  Migration = 2
  SeedOpps <- Seeded
  Opportunity <- Opportunities
  Inventory <- Items
  Patch <- Patches
  Filter <- Filters
  MaxCalls = 3
  MaxRestarts = 2
SPECIFICATION DeskSpec
CHECK_DEADLOCK FALSE
PROPERTIES
  DecisionsPersist

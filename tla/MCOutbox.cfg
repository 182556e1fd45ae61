CONSTANTS
  Caller = {c1, c2, c3}
  Key = {k1, k2}
  Value = {v1, v2}
  Threw = Threw
  NoKey = NoKey
  NoOutcome = NoOutcome
SPECIFICATION OutboxFairSpec
PROPERTIES
  EveryoneAnswered
  ImplementsOnceCell
CHECK_DEADLOCK FALSE

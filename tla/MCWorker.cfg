CONSTANTS
  global = global
  source = source
  agent = agent
  poll = poll
  negotiate = negotiate
  Switch = {global, source, agent}
  Global = global
  Run = {poll, negotiate}
  Scope <- MCScope
SPECIFICATION FairSpec
PROPERTIES
  HaltedRunsStartNothing
  HaltedRunsEnd

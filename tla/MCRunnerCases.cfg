CONSTANTS
  c1 = c1
  c2 = c2
  c3 = c3
  Null = Null
  Case = {c1, c2, c3}
  NSuites = 1
  Registered <- OrderRegistered
  Name <- MCName
  Priority <- MCPriority
  Tag = {"fossil", "slow"}
  Tags <- MCTags
  HasRun = {c1, c2}
  SetupAsserts = {}
  TeardownAsserts = {c1}
  SuiteAsserts = {}
  Pallets <- CasePallets
  MaxAsserts = 1
SPECIFICATION Spec
INVARIANTS
  NoCaseLost
  ShuffledByField
  OutcomeMatchesEvidence
  FailureSticks
  FixturesPaired
PROPERTIES
  FailuresLand

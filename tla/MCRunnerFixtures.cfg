CONSTANTS
  c1 = c1
  c2 = c2
  c3 = c3
  Null = Null
  Case = {c1, c2, c3}
  NSuites = 2
  Registered <- FixtureRegistered
  Name <- MCName
  Priority <- MCPriority
  Tag = {"fossil", "slow"}
  Tags <- MCTags
  HasRun = {c1, c2, c3}
  SetupAsserts = {c1, c2}
  TeardownAsserts = {c1}
  SuiteAsserts = {2}
  Pallets <- FixturePallets
  MaxAsserts = 1
SPECIFICATION FairSpec
INVARIANTS
  TypeOK
  TotalsAgree
PROPERTIES
  FailFastStops

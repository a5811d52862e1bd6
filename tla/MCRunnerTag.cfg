CONSTANTS
  c1 = c1
  c2 = c2
  c3 = c3
  Null = Null
  Case = {c1, c2, c3}
  NSuites = 1
  Registered <- OrderRegistered
  Name <- MCName
  Priority <- MCPriority
  Tag = {"fossil", "slow"}
  Tags <- MCTags
  HasRun = {c1, c2, c3}
  SetupAsserts = {}
  TeardownAsserts = {}
  SuiteAsserts = {}
  Pallets <- TagPallets
  MaxAsserts = 1
SPECIFICATION Spec
INVARIANTS
  OnlySelectedRun

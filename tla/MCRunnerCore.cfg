CONSTANTS
  c1 = c1
  c2 = c2
  c3 = c3
  Null = Null
  Case = {c1, c2, c3}
  NSuites = 3
  Registered <- CoreRegistered
  Name <- MCName
  Priority <- MCPriority
  Tag = {"fossil", "slow"}
  Tags <- MCTags
  HasRun = {c1, c2, c3}
  SetupAsserts = {}
  TeardownAsserts = {}
  SuiteAsserts = {}
  Pallets <- CorePallets
  MaxAsserts = 1
SPECIFICATION FairSpec
INVARIANTS
  CountedOnce
  ScoreMatchesStates
  NobodyForgotten
  SummaryMeansOutcomes
  LeftoversAreTornDown
PROPERTIES
  ImplementsVerdicts
  Terminates

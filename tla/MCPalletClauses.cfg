CONSTANTS
  Null = Null
  Lines <- MCLines
  DashWords <- MCDashWords
  Atoi <- MCAtoi
  Split <- MCSplit
  Cases <- MCCases
SPECIFICATION FairSpec
INVARIANTS
  TypeOK
  PalletMeansClauses
  DisplayMeansClauses
  SuccessOnlyOnRequest
PROPERTIES
  Terminates

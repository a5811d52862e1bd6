CONSTANTS
  Null = Null
  Lines <- OptionLines
  DashWords <- MCDashWords
  Atoi <- MCAtoi
  Split <- MCSplit
  Cases <- MCCases
SPECIFICATION Spec
INVARIANTS
  OptionsAreHeeded

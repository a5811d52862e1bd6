SPECIFICATION Spec
CONSTANTS
  Size <- Sizes
  MaxPrinted = 5
  MaxFiles = 3
INVARIANTS
  TextStaysInItsPlace
  CapturedIsPrinted
  StdoutIsRestored

CONSTANTS
  Half <- MCHalf
  CharIsSigned = TRUE
  WordSize = 4
  Space = {" "}
  NoString = NoString
  Operand <- MCOperand
  Limit <- MCLimit
  Finite <- MCFinite
  Infinity = 100
  NaN = NaN
  Region <- MCRegion
  NoRegion = NoRegion
  Char = {"a", " "}
  String <- MCString
  Pattern <- MCPattern
SPECIFICATION Spec
INVARIANTS
  OnlyNarrowingMisleads
  OppositesDisagree
  OverflowIsFound
  ToleranceMeansDistance
  BitTricksWork
  CountIsMost
  BuffersFit
  StringsAgree

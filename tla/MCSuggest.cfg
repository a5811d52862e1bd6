CONSTANTS
  Null = Null
  MaxDistance = 2
  Letter <- MCLetter
  Inputs <- MCInputs
  Candidates <- MCCandidates
SPECIFICATION Spec
INVARIANTS
  SuggestionIsNearest

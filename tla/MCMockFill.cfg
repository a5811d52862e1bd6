SPECIFICATION Spec
CONSTANTS
  f = f
  text = text
  label = label
  info = info
  AI_NULL = AI_NULL
  NoNotesText = NoNotesText
  NULL = NULL
  node = node
  Copies = 2
  Function <- Functions
  Argument <- Arguments1
  MaxArgs = 2
  Context <- Contexts
  MaxCalls = 2
  MaxFailed = 1
  AINull <- AI_NULL
  NoNotes <- NoNotesText
  Null <- NULL
  Node <- node
INVARIANT
  OnlyNullIsFilled

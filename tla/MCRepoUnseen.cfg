SPECIFICATION Spec
CONSTANTS
  File = {f, g, h}
  Dir = dir
  Below = {g, h}
  MaxEdits = 3
  MaxCalls = 3
  None = None
PROPERTY ConfirmBindsFiles
CHECK_DEADLOCK FALSE

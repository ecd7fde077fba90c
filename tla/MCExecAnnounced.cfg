SPECIFICATION Spec
CONSTANTS
  Cmd = {c1}
  None = None
INVARIANTS EveryExitAnnounced
CHECK_DEADLOCK FALSE

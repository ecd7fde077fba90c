SPECIFICATION FairSpec
CONSTANTS
  Pane = {p1}
  Status = {working}
  Absent = Absent
  Gone = Gone
  Obj = {o1, o2}
  Chan = {c1, c2}
  Nudge = {n1}
  None = None
  MaxChange = 1
  MaxFault = 2
PROPERTIES EventuallyInStep
CHECK_DEADLOCK FALSE

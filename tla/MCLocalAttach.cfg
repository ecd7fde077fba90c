SPECIFICATION Spec
CONSTANTS
  Pane = {p1}
  Status = {working, idle}
  Absent = Absent
  Gone = Gone
  Obj = {o1, o2}
  Chan = {c1, c2}
  Nudge = {n1}
  None = None
  MaxChange = 2
  MaxFault = 2
SYMMETRY Names
INVARIANTS TypeOK NoLeakedChannel RetiredUnlessAbandoned RosterCurrent ForgottenStaysForgotten
PROPERTIES SilentAfterStop
CHECK_DEADLOCK FALSE

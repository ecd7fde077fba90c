SPECIFICATION TapsFairSpec
CONSTANTS
  Session = {s1}
  Agent = {a1}
  Status = {working}
  Gone = Gone
  Absent = Absent
  MaxConn = 2
  MaxChange = 1
  MaxFault = 1
  CallFrame <- TapFrames
  Proto = {2}
  PROTO_VERSION = 2
  Group = {g1, g2}
  MAX_SUB_GROUPS = 1
INVARIANTS SlotsExact TapsEndWithTunnel OwnEventsUnlessLeaked
PROPERTIES TapsStopUndisturbed
CHECK_DEADLOCK FALSE

SPECIFICATION MirrorSpec
CONSTANTS
  Session = {s1}
  Agent = {a1}
  Status = {working}
  Gone = Gone
  Absent = Absent
  MaxConn = 4
  MaxChange = 1
  MaxFault = 1
  CallFrame <- Replies
  Proto = {2, 3}
  PROTO_VERSION = 2
INVARIANTS TypeOK CurrentTunnel ParentMirrors
PROPERTIES OfflineByCurrentOnly PresenceSpec EventuallyOnline
CHECK_DEADLOCK FALSE

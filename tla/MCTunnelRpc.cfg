SPECIFICATION RpcFairSpec
CONSTANTS
  Session = {s1}
  Agent = {a1}
  Status = {working}
  Gone = Gone
  Absent = Absent
  MaxConn = 2
  MaxChange = 0
  MaxFault = 1
  CallFrame <- Results
  Proto = {2}
  PROTO_VERSION = 2
  Call = {k1, k2}
INVARIANT PendingIsWaiting
PROPERTIES EveryCallSettles CallPromiseSpec
CHECK_DEADLOCK FALSE

SPECIFICATION WorkSpec
CONSTANTS
  File = {f, g, h}
  Dir = dir
  Below = {g, h}
  MaxEdits = 3
  MaxCalls = 3
  Spawn = {p, q}
  Entry <- Scoped
  MaxSets = 2
  MaxBusy = 1
  Cwd = {d, e}
  Agents = {s, t}
  MaxTears = 1
  Name = {1, 2}
  Sizes = {2, 3, 4}
  FileCap = 3
  TotalCap = 4
  MaxMishaps = 1
  Configured <- Candidates
  MaxEmits = 2
  Daemon = {d1, d2, d3}
  Command = {c}
  Https = {d3}
  MaxCrashes = 1
  Issued = {t1}
  Socket = {c1}
  Request = {q1}
  MaxFailures = 2
  MaxPairs = 2
  Key = {ada}
  Form = {plain, capital}
  Token = {t1, t2}
  Login = {l1, l2}
  Demolition = {m1}
  None = None
INVARIANTS AttachmentsKept WhoIsLetIn
PROPERTIES GitKeepsWork SpawnsReady BootIsSound OwnBindingOnly
CHECK_DEADLOCK FALSE

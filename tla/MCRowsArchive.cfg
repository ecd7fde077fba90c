SPECIFICATION Spec
CONSTANTS
  Ws = {w1}
  Slot = {1, 2}
  Root = 1
  Conv = {c1, c2}
  Pinned = {c1, c2}
  Dir = {repo, tree}
  Repo = repo
  Call = {k1}
  MaxMishap = 0
  None = None
SYMMETRY Names
INVARIANTS ArchiveIsResumable
CHECK_DEADLOCK FALSE

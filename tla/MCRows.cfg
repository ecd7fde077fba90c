SPECIFICATION Spec
CONSTANTS
  Ws = {w1, w2}
  Slot = {1, 2}
  Root = 1
  Conv = {c1, c2}
  Pinned = {c1, c2}
  Dir = {repo, tree}
  Repo = repo
  Call = {k1, k2}
  MaxMishap = 1
  None = None
SYMMETRY Names
INVARIANTS TypeOK NothingInherited ArchiveIsExact RowsFollowHerdr NoOrphanUnlessLate ResumesInPlaceUnlessWorktree
PROPERTIES LiveKeepsRow
CHECK_DEADLOCK FALSE

SPECIFICATION EdgeSpec
CONSTANTS
  Name = {"a", "b", "", ".", ".."}
  Millis = {500, 700000}
  Token = {t1, t2}
  MaxSock = 3
  MaxSub = 3
  Repo = {r1, r2}
  Group = {g1, g2}
  NoToken = NoToken
  Source = {s1, s2}
  Loop = {w1, w2}
  MaxVersion = 2
  None = None
INVARIANTS ClientIsTold ChannelAndPagesKept
PROPERTIES EdgeCatchesUp
CHECK_DEADLOCK FALSE

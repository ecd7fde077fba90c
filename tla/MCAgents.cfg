SPECIFICATION AgentsSpec
CONSTANTS
  Asks = {a1, a2}
  Second = a2
  Steers = {s1}
  Grace = 0
  StartGrace = 0
  Budget = 2
  MaxEvents = 6
  Cmd = {c1, c2}
  None = None
INVARIANTS OneAskAtATime ReportsAreTrue
PROPERTIES NoAnswerGivenAway EveryAskSettles
CHECK_DEADLOCK FALSE

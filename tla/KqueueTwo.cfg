\* Two servers of one process whose callbacks leave closing to the loop.
CONSTANTS
  s1 = s1
  s2 = s2
  c1 = c1
  c2 = c2
  c3 = c3
  f1 = f1
  Servers = {s1, s2}
  EarlyClosers = {}
  Conns = {c1, c2, c3}
  Fds = {f1}
  Listener = Listener
  None = None
  Backlog = 1
  MaxEvents = 1
  IdleTimeout = 1
  SweepTick = 1
SPECIFICATION KqSpec
INVARIANTS
  RepliesToAsker
PROPERTIES
  ClosedByItsServer
  ImplementsEpoll
SYMMETRY Symmetry

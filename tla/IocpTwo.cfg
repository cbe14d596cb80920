\* Two servers in one process, as the tests run them.
CONSTANTS
  s1 = s1
  s2 = s2
  c1 = c1
  h1 = h1
  h2 = h2
  i1 = i1
  i2 = i2
  i3 = i3
  Servers = {s1, s2}
  EarlyClosers = {}
  Conns = {c1}
  Handles = {h1, h2}
  Ids = {i1, i2, i3}
  None = None
  Blank = Blank
  Backlog = 1
  AcceptSlots = 1
  IdleTimeout = 1
  SweepTick = 1
SPECIFICATION Spec
PROPERTIES
  OwnCallbacks

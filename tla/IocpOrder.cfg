\* Does Connect always come first?  One server with two accept slots.
CONSTANTS
  s1 = s1
  c1 = c1
  c2 = c2
  c3 = c3
  c4 = c4
  c5 = c5
  h1 = h1
  h2 = h2
  h3 = h3
  Servers = {s1}
  EarlyClosers = {}
  Conns = {c1, c2, c3, c4, c5}
  Handles = {h1, h2, h3}
  Ids = {1,2,3,4,5,6,7}
  None = None
  Blank = Blank
  Backlog = 5
  AcceptSlots = 2
  IdleTimeout = 1
  SweepTick = 1
SPECIFICATION NarrowSpec
PROPERTIES
  CallbackOrder
CHECK_DEADLOCK FALSE

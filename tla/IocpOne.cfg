\* One server, a fair loop, a fair kernel and a moving clock.
CONSTANTS
  s1 = s1
  c1 = c1
  c2 = c2
  h1 = h1
  h2 = h2
  h3 = h3
  i1 = i1
  i2 = i2
  i3 = i3
  Servers = {s1}
  EarlyClosers = {s1}
  Conns = {c1, c2}
  Handles = {h1, h2}
  Ids = {i1, i2, i3}
  None = None
  Blank = Blank
  Backlog = 2
  AcceptSlots = 1
  IdleTimeout = 1
  SweepTick = 1
SPECIFICATION FairSpec
INVARIANTS
  TypeOK
  AcceptSlotsKept
  NoHandleLeak
  SoundUntilSwept
PROPERTIES
  OrderUntilSwept
  ConnectIsFollowed
  EveryConnCloses

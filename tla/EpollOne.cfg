\* One server whose Data callback may close its connection (HTTPServer.Listen),
\* a fair loop and a moving clock.
CONSTANTS
  s1 = s1
  c1 = c1
  c2 = c2
  f1 = f1
  f2 = f2
  Servers = {s1}
  EarlyClosers = {s1}
  Conns = {c1, c2}
  Fds = {f1, f2}
  Listener = Listener
  None = None
  Backlog = 2
  MaxEvents = 2
  IdleTimeout = 2
  SweepTick = 1
SPECIFICATION FairSpec
INVARIANTS
  TypeOK
  NoFdLeak
  DeadlinesAreLive
  SweepScheduled
PROPERTIES
  SweepsOnlyIdle
  KeepsLifecycle
  EveryConnCloses

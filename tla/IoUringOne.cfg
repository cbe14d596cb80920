\* A fair loop and a fair kernel, one descriptor short.
CONSTANTS
  c1 = c1
  c2 = c2
  c3 = c3
  f1 = f1
  f2 = f2
  Conns = {c1, c2}
  Fds = {f1}
  Ids = {1, 2, 3, 4, 5}
  None = None
  ClosesEarly = TRUE
  Backlog = 2
  SqEntries = 3
  IdleTimeout = 1
  SweepTick = 1
SPECIFICATION FairSpec
INVARIANTS
  TypeOK
  OpsArePinned
  OneAcceptOneTimer
  SqFits
  NoFdLeak
  SoundUntilShut
PROPERTIES
  CallbackOrder
  BacklogIsAccepted
  DescriptorIsFreed
  TalkerIsServed

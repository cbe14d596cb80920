\* Every kind of talk and every cut, on plain TCP and TLS.
CONSTANTS
  k1 = k1
  Keys = {k1}
  Drivers = {"once", "many", "tls"}
  Talks <- AllTalks
  None = None
  ReadSize = 20
  MaxHead = 11
  MaxLength = 12
SPECIFICATION Spec
INVARIANTS
  TypeOK
  AnsweredAsMeant
  ClosedWhenDecided
PROPERTIES
  SilentOnceClosed

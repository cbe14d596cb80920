\* Two streams; a client that keeps to the protocol, or breaks it once, and may
\* leave at any point.
CONSTANTS
  None = None
  StreamIds = {1, 3}
  FrameHeader = 1
  PrefaceLen = 2
  ReadSize = 2
  Window = 2
  MaxFrameSize = 2
  BodySizes = {0}
  MaxParts = 2
  MaxData = 2
  MaxPieces = 2
  MaxPings = 0
  MaxRogue = 1
  Trailers = FALSE
SPECIFICATION Spec
INVARIANTS
  TypeOK
  DeliveredAsSent
  LegalNeverFails
  CaughtUp
  StreamsAreDeleted
  NoMixing

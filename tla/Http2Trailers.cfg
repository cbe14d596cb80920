\* One stream, trailers allowed.
CONSTANTS
  None = None
  StreamIds = {1}
  FrameHeader = 2
  PrefaceLen = 2
  ReadSize = 4
  Window = 4
  MaxFrameSize = 2
  BodySizes = {1}
  MaxParts = 1
  MaxData = 1
  MaxPieces = 1
  MaxPings = 0
  MaxRogue = 0
  Trailers = TRUE
SPECIFICATION Spec
INVARIANTS
  DeliveredAsSent

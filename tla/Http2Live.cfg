\* Clients that keep to the protocol and may send trailers, and a fair server.
CONSTANTS
  None = None
  StreamIds = {1, 3}
  FrameHeader = 1
  PrefaceLen = 1
  ReadSize = 2
  Window = 1
  MaxFrameSize = 2
  BodySizes = {0, 2, 3}
  MaxParts = 2
  MaxData = 1
  MaxPieces = 1
  MaxPings = 1
  MaxRogue = 0
  Trailers = TRUE
SPECIFICATION FairSpec
INVARIANT
  ResponsesEndOnce
PROPERTY
  EveryRequestHandled

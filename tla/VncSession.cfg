SPECIFICATION RenderSpec
CHECK_DEADLOCK FALSE
CONSTANTS
  MaxRequests = 3
  MaxSurfaces = 3
  MaxFrames = 2
  MaxCalls = 4
INVARIANTS
  SessionKept
  DisconnectWins
  PictureCurrent
  CleanUpsEnd

CONSTANTS
  gpu = gpu
  card = card
  frame = frame
  Crtc <- MCCrtc
  CardOnly <- MCCardOnly
  MaxTimers = 1
  MaxIdles = 1
  Frame = {frame}
  NoCrtc = NoCrtc
SPECIFICATION FairCaptures
INVARIANTS
  UpdatesAreKept
  PendingEnds
PROPERTIES
  CopiesAreAnswered

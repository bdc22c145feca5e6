CONSTANTS
  win = win
  Window = {win}
  NoWindow = NoWindow
  Edge <- Edges
  Screen = 2
  MaxPos = 1
  Touched = {0}
  MaxLoc = 1
  MaxSize = 2
  MaxButtons = 2
  MaxAsks = 2
SPECIFICATION Spec
INVARIANTS
  GrabsAreSound
  RightEdgeStays
  MaximizeIsUndone
PROPERTIES
  FollowsPointer
\* resize_request of an X11 window may have ended the display thread.
CHECK_DEADLOCK FALSE

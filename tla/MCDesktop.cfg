CONSTANTS
  Window = {w1}
  App = {term}
  NoApp = NoApp
  Space = {main, side}
  Main = main
  Zone = {left, mid}
  NoZone = NoZone
  NoWindow = NoWindow
  Callback = {key}
  Body <- MCBody
  Chunks <- MCChunks
  Gone = Gone
  ChannelSize = 1
  MaxActs = 3
  MaxIdles = 6
  term = term
  left = left
  mid = mid
  main = main
  side = side
  key = key
SPECIFICATION DesktopSpec
INVARIANTS
  DesktopIsSound
  ConfigNeverPanicsDisplay
PROPERTIES
  CallsKeepOrder
  ThingsSettle
\* The threads may have panicked.
CHECK_DEADLOCK FALSE

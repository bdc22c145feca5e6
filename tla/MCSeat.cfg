SPECIFICATION SeatSpec
CONSTANTS
  a = a
  menu = menu
  bar = bar
  ground = ground
  tool = tool
  tablet = tablet
  Nobody = Nobody
  Window = {a, menu}
  Override = {menu}
  Layer = {bar, ground}
  Screen <- Screens
  Extent <- Extents
  Hint <- Hints
  Region <- Regions
  On <- Outputs
  Level <- Heights
  Area <- Areas
  Focusable = {bar}
  Exclusive = {bar}
  Raw <- RawPoints
  Absolute <- AbsolutePoints
  Tool = {tool}
  Tablet = {tablet}
  MaxButtons = 1
  MaxFingers = 1
INVARIANTS
  SeatIsSound
  BoundStays
  RestedIsFocused
PROPERTIES
  PressFocusesUnder

SPECIFICATION DevicesSpec
CONSTANTS
  card0 = card0 card1 = card1 render0 = render0 render1 = render1
  left = left right = right headset = headset other = other
  Devices = {card0, card1}
  Connectors = {left, right, headset, other}
  crtc0 = crtc0 crtc1 = crtc1
  Crtcs = {crtc0, crtc1}
  Unassigned = Unassigned
  Home <- MCHome
  NonDesktop <- MCNonDesktop
  RenderNode <- MCRenderNode
  PrimaryGpu = render0
  MaxEvents = 2
  MaxFaults = 1
INVARIANTS
  DevicesAreSound
  OutputsAreDriven
  DisplaysAreKnown
SYMMETRY Symmetric
CHECK_DEADLOCK FALSE

CONSTANTS
  left = left
  right = right
  main = main
  side = side
  Name = {left, right}
  Space = {main, side}
  Main = main
  NoSpace = NoSpace
  Layouts <- SwitchingLayouts
  MaxObject = 2
SPECIFICATION FairSpec
INVARIANTS
  RenderFindsOutput
  OneSpacePerOutput
PROPERTIES
  StartupFollows

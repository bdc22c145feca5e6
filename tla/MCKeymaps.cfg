CONSTANTS
  quit = quit
  user = user
  NoSlot = NoSlot
  Slot <- MCSlot
  DefaultSlots <- MCDefaultSlots
  Scripts <- MCScripts
  MaxCallback = 4
  MaxQueue = 2
SPECIFICATION FairSpec
INVARIANTS
  NoDanglingRun
  LastMapKeyWins
  NoKeymapLeak
PROPERTIES
  OldBindingsVanish

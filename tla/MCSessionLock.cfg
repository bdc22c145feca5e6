CONSTANTS
  Window = {w1, w2, w3}
  App = {a}
  NoApp = NoApp
  Space = {main, side}
  Main = main
  main = main
  Zone = {z}
  NoZone = NoZone
  NoWindow = NoWindow
  Locker = {l1, l2}
  NoLocker = NoLocker
  Output = {o}
SPECIFICATION LockSpec
SYMMETRY WindowSymmetry
INVARIANTS
  LockIsSound
  FocusGoesRound
  NoWindowIsLost
  UnlockGivesKeyboard
PROPERTIES
  LockPromise
\* The display thread may have panicked.
CHECK_DEADLOCK FALSE

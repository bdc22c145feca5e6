CONSTANTS
  shift = shift caps = caps a = a
  ShiftSym = ShiftSym CapsSym = CapsSym lowerA = lowerA upperA = upperA
  Key = {shift, caps, a}
  ModKey = {shift}
  LockKey = {caps}
  Keysym = {ShiftSym, CapsSym, lowerA, upperA}
  Sym <- MCSym
  Slots <- MCSlots
  Board = {b1, b2}
  Gpu = {g}
  MaxQueue = 1
  MaxSwitches = 1
  MaxHeld = 2
  MaxMessages = 1
SPECIFICATION SessionSpec
SYMMETRY BoardSymmetry
INVARIANTS
  SessionIsSound
  PlainKeysAreFaithful
  InputFollowsDevices
\* A thread that is gone takes the rest of the program with it.
CHECK_DEADLOCK FALSE

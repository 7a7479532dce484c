SPECIFICATION Spec
CONSTANTS
  Threads = {t1, t2}
  Devices = {0, 1}
  Ordinals = {0, 1, 2}
  FirstDevice = 0
  Heap = {a1}
  Keys = {}
  FlagWords = {0}
  RefWrap = 4
  NoHandle = NoHandle
  NoThread = NoThread
  MaxDepth = 2
  MaxHeld = 0
INVARIANTS ResolvedIsPushed
SYMMETRY ThreadSymmetry
CHECK_DEADLOCK FALSE

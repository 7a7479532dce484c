SPECIFICATION FairSpec
CONSTANTS
  Threads = {t1, t2}
  Devices = {0, 1}
  Ordinals = {0, 1}
  FirstDevice = 0
  Heap = {}
  Keys = {k1}
  FlagWords = {0}
  RefWrap = 4
  NoHandle = NoHandle
  NoThread = NoThread
  MaxDepth = 1
  MaxHeld = 1
INVARIANTS TypeOK CountExact OnlyCyclesBlock
PROPERTIES NoCallbackSkipped StuckForGood CallsReturn
CHECK_DEADLOCK FALSE

SPECIFICATION FairSpec
CONSTANTS
  Processes = {p1, p2}
  Threads = {t1, t2, t3}
  Home <- MCHome
  Version <- MCVersion
  Texts = {x}
  Size <- MCSize
  Devices = {d1}
  Arch <- MCIsa
  Clock <- MCClock
  Source <- MCSource
  Heap <- MCHeap
  None = None
  Empty = Empty
  Busy = Busy
  Refused = Refused
  Orphan = Orphan
  t1 = t1
  t2 = t2
  t3 = t3
  p1 = p1
  p2 = p2
  d1 = d1
  x = x
  l = l
INVARIANTS TypeOK SizeExact OneModulePerDevice
PROPERTIES LoadsImplemented CallsReturn

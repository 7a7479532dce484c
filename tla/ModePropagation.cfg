SPECIFICATION Spec
CONSTANTS
  Modes = {on, off}
  Default = on
  NoMode = NoMode
  Clash = Clash
  NotChosen = NotChosen
  k1 = k1
  k2 = k2
  b1 = b1
  b2 = b2
  b3 = b3
  on = on
  off = off
  Graphs <- MCGraphs
INVARIANTS TypeOK Exact Resolved JumpsCovered NoIdleInsertion FewestInsertions
PROPERTIES ReachesEnd
CHECK_DEADLOCK FALSE

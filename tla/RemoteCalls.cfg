SPECIFICATION FairSpec
CONSTANTS
  Threads = {t1, t2}
  Capacities = {4, 8, 16}
  Sizes = {1, 7}
  Failures = {"spawn", "boot", "version", "create", "arena", "open"}
  NoThread = NoThread
  NoMap = NoMap
  MaxCalls = 2
INVARIANTS TypeOK TakeTurns Connected
PROPERTIES CallsImplemented CallsReturn
CHECK_DEADLOCK FALSE

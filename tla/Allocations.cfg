SPECIFICATION Spec
CONSTANTS
  Threads = {t1, t2, t3}
  LastAddr = 4
  Sizes = {1, 3}
  Contexts = {c1, c2}
  Kinds = {"device", "host", "unregistered"}
  DoubleFrees = TRUE
  None = None
INVARIANTS BlocksAccounted EntriesBacked LookupExact
SYMMETRY MemorySymmetry

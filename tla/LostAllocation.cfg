SPECIFICATION Spec
CONSTANTS
  Threads = {t1, t2}
  LastAddr = 2
  Sizes = {1, 2}
  Contexts = {c1}
  Kinds = {"device"}
  DoubleFrees = FALSE
  None = None
INVARIANTS ContextFound
SYMMETRY MemorySymmetry

SPECIFICATION Spec
CONSTANTS
  Ids = {i1, i2, i3}
  ModuleAddrs = {m1, m2}
  FunctionAddrs = {f1, f2}
  EventAddrs = {e1}
  FunctionNames = {"kernel"}
  TextureNames = {"image"}
  Codes = {"good", "odd", "void"}
  Globals <- TwoGlobals
  Requests = {0, 1, 3, 15}
  Unit = 2
  LastUnit = 4
  Wrap = 16
  None = None
INVARIANTS TypeOK HandlesResolve UnitsAccounted AddressRangeExact ArgsMatch
SYMMETRY ServerSymmetry
CHECK_DEADLOCK FALSE

SPECIFICATION Spec
CONSTANTS
  Ids = {i1, i2, i3}
  ModuleAddrs = {m1}
  FunctionAddrs = {f1}
  EventAddrs = {}
  FunctionNames = {"kernel"}
  TextureNames = {}
  Codes = {"bare", "good"}
  Globals <- OneGlobal
  Requests = {}
  Unit = 2
  LastUnit = 1
  Wrap = 16
  None = None
INVARIANTS LaunchPassesGlobals
CHECK_DEADLOCK FALSE

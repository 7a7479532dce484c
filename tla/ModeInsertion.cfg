SPECIFICATION Spec
CONSTANTS
  Modes = {on, off}
  Default = on
  NoMode = NoMode
  Clash = Clash
  None = None
  Refused = Refused
  MaxDepth = 2
  k1 = k1
  k2 = k2
  f = f
  d = d
  a1 = a1
  a2 = a2
  c1 = c1
  c2 = c2
  f1 = f1
  f2 = f2
  f3 = f3
  u = u
  u1 = u1
  on = on
  off = off
  Programs <- AllPrograms
INVARIANTS HonouredUntilMisled EntryAsResolved OnlyFlawedRefused
CHECK_DEADLOCK FALSE

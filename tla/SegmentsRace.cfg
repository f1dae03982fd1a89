\* Two programs decoded at the same time.
SPECIFICATION Spec
CONSTANTS
  Hosts = {h1, h2}
  Keys = {k1, k2}
  Handlers = {f, g}
  HandlersOf <- SmallHandlersOf
  None = None
  k1 = k1
  k2 = k2
  f = f
  g = g
  MaxMachines = 2
INVARIANTS HandlersRight
CHECK_DEADLOCK FALSE

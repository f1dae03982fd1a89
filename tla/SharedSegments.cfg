\* Three host threads, two programs that need a handler each.
SPECIFICATION FairSpec
CONSTANTS
  Hosts = {h1, h2, h3}
  Keys = {k1, k2}
  Handlers = {f, g}
  HandlersOf <- SmallHandlersOf
  None = None
  k1 = k1
  k2 = k2
  f = f
  g = g
  MaxMachines = 3
INVARIANTS TypeOK Shared NotUnderConstruction OneBuilder
PROPERTIES CallsEnd
CHECK_DEADLOCK FALSE

CONSTANTS
  Machines = {m1, m2}
  Size = 4
  Code <- MCCode
  Mapped <- MCMapped
  Native <- MCNative
SPECIFICATION Spec
INVARIANT EndMarked
CHECK_DEADLOCK FALSE

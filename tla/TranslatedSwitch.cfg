\* One block; the second thread waits at the third instruction.
CONSTANTS
  Size = 8
  Programs <- MCPrograms
  Others = {2}
  Options <- SwitchOptions
  Cached = {"ra", "a0", "t0"}
  Start = 0
SPECIFICATION Spec
INVARIANT NothingStale
CHECK_DEADLOCK FALSE

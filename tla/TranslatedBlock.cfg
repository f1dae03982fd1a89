\* Two blocks or one; the second thread waits at the third instruction.
CONSTANTS
  Size = 8
  Programs <- MCPrograms
  Others = {2}
  Options <- MCOptions
  Cached = {"ra", "a0", "t0"}
  Start = 0
SPECIFICATION Spec
PROPERTY ImplementsProgram
PROPERTY CounterFlushed
CHECK_DEADLOCK FALSE

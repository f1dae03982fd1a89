CONSTANTS
  MaxTid = 2
  MaxThreads = 3
  MaxCalls = 3
  Words = {1}
  WordMod = 1073741824
  Bits = {b1}
  Masks = {}
  CloneFlags = {{}}
  Calls = {"clone", "sched_yield", "tgkill_other"}
SPECIFICATION Spec
INVARIANTS SuspendedResumable
CHECK_DEADLOCK FALSE

CONSTANTS
  MaxTid = 3
  MaxThreads = 3
  MaxCalls = 3
  Words = {1}
  WordMod = 1073741824
  Bits = {b1, b2}
  Masks = {{b1}}
  CloneFlags = {{"CHILD_SETTID"}, {"PARENT_SETTID", "CHILD_CLEARTID"}}
  Calls = {"sched_yield", "clone", "clone3", "clone3_short", "exit", "exit_group", "tgkill_self", "tgkill_unknown", "set_tid_address", "futex_wait", "futex_wait_bitset", "futex_wake", "futex_wake_bitset"}
SPECIFICATION Spec
INVARIANTS TypeOK OnePlace NoDanglingThread NeverRewound
PROPERTIES BlockedUntilWoken NoOvertaking
CHECK_DEADLOCK FALSE

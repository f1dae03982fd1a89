SPECIFICATION Spec
CONSTANTS
  VRegs = {"v0", "v1", "v2", "v3"}
  V0 = "v0"
  Starts <- MCStarts
  Operands <- MCOperands
INVARIANT AliasingHarmless
INVARIANT EnginesAgree
INVARIANT UpperHalfUnseen
INVARIANT WidthsAgree
CHECK_DEADLOCK FALSE

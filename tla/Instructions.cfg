SPECIFICATION Spec
CONSTANTS
  Byte = 2
  Regs = {0, 1, 11}
  ArenaSize = 24
  RODataStart = 4
  DataStart = 8
  ArenaPtr = 32
  SegBegin = 64
  SegEnd = 256
  Imm12 = 3
  Imm14 = 4
  Imm16 = 4
  Imm20 = 5
  Offs21 = 5
  Offs26 = 6
  By12 = 3
  By16 = 4
  By18 = 4
  By52 = 13
  Instrs <- MCInstrs
  Starts <- MCStarts
  StartPC = 196
  Samples = {0, 1, 14, 22, 128, 32768, 65535}
  Others = {0, 13, 255, 65535}
INVARIANT TypeOK
INVARIANT FastKeepsResult
INVARIANT TranslatedKeepsResult
INVARIANT FaultIsAtomic
CHECK_DEADLOCK FALSE

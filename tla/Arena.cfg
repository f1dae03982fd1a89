CONSTANTS
  Lo = 16
  End = 104
  MaxChunks = 3
  SizeMod = 256
  Requests = {0, 16, 17, 40}
  Pointers = {0, 16, 24, 32, 48, 64, 80}
  MaxAllocs = 4
SPECIFICATION Spec
INVARIANTS TypeOK HeapTiled NoFreeNeighbours DataAligned ListOrder CountersCover GrantedIsEnough
PROPERTY ImplementsAllocator

\* Every three-instruction program; block and count fields of the real widths.
SPECIFICATION FairSpec
CONSTANTS
  Programs <- SmallPrograms
  Segments <- SmallSegments
  Targets <- SmallTargets
  BlockMod = 16384
  CountMod = 256
  Limits <- SmallLimits
  Unlimited = 1000000
  MaxSteps = 20
INVARIANTS TypeOK DecoderInSegment PcAgrees CounterExact LimitKept
PROPERTIES Terminates ImplementsGuest

CONSTANTS
  Machines = {m1, m2}
  Size = 4
  Code <- MCCode
  Mapped <- MCMapped
  Native <- MCNative
SPECIFICATION FairSpec
INVARIANT TypeOK
INVARIANT CodeReady
INVARIANT DamageConfined
PROPERTY Reclaimed
CHECK_DEADLOCK FALSE

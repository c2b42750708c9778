SPECIFICATION FairScaler
CONSTANTS
  Handlers = {h1}
  Askers = {a1}
  Streams = {s1}
  Triggers <- MCTriggers
  Readings <- MCReadings
  NaN = NaN
  None = None
  MaxAge = 2
  MaxRestarts = 2
INVARIANTS
  ScalerTypeOK
  EarlyFallsPerLife
PROPERTIES
  HeldOnlyInWindow
  ActivityFollows
  StreamEnds

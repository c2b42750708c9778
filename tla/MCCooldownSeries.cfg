SPECIFICATION FairSpec
CONSTANTS
  Handlers = {h1, h2}
  Triggers <- MCTriggers
  Readings <- MCReadings
  NaN = NaN
  None = None
  MaxAge = 3
INVARIANTS
  TypeOK
  OwnReadings
  BaselineIsReported
PROPERTIES
  HeldIsHigher
  RisesImmediately
  FallsSpaced
  RateLimited
  Settles

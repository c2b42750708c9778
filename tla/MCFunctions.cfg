SPECIFICATION Spec
CONSTANTS
  Loads = {0, 1, 2, 4}
  MaxAny = 5
  MaxSplit = 110
  MaxLines = 4
  MaxKeys = 3
  Unparsable = Unparsable
  Error = Error
  Bad = Bad
INVARIANTS
  Monotone
  NearestRank
  AbsentIsError
  TotalsAddUp
  Servable
PROPERTIES
  TuningKeepsSeries
  SeriesHasOneSource
CHECK_DEADLOCK FALSE

SPECIFICATION FairSpec
CONSTANTS
  Handlers = {h1, h2}
  Chips <- MCChips
  Slices <- MCSlices
  Calls <- MCCalls
  Loads <- MCLoads
  None = None
INVARIANTS
  OwnSeries
PROPERTIES
  GaugesFollow

SPECIFICATION FairSpec
CONSTANTS
  Jobs <- MCJobs
  MaxSignals = 2
INVARIANTS
  TypeOK
  PrintedAsDescribed
  OnlyAssigned
PROPERTIES
  SignalStops
CHECK_DEADLOCK FALSE

SPECIFICATION FairSpec
CONSTANTS
  Calls = {call}
  Streams = {stream}
  MaxSignals = 2
INVARIANTS
  TypeOK
  NoCallAfterClose
PROPERTIES
  HealthFollowsNVML
  ShutsDown

SPECIFICATION Spec
CONSTANTS
  Calls = {call}
  Streams = {stream}
  MaxSignals = 1
INVARIANTS
  ReadyOnceCollected

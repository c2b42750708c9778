SPECIFICATION FairSpec
CONSTANTS
  Handlers = {h1}
  NumGPUs = 3
  MIG <- MCSecondInTwo
  MaxLoad = 1
  Requests <- MCRequests
  Faults = {"count", "handle", "mode", "instance", "read"}
  None = None
INVARIANTS
  TypeOK
  FailuresStayOnTheirGPU
  CountedOnce
  AnswerWasSeen
PROPERTIES
  EveryCallReturns

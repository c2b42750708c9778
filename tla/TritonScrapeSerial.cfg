SPECIFICATION Spec
CONSTANTS
  Handlers = {h1}
  Clients = {c1, c2}
  MaxWait = 2
  MaxServed = 4
  None = None
  Faults = {"restart", "blank"}
INVARIANTS
  TypeOK
  CreditedOnce
  NothingLost
  MeanWaitBounded

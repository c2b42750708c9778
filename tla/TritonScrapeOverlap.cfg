SPECIFICATION Spec
CONSTANTS
  Handlers = {h1, h2}
  Clients = {c1, c2, c3}
  MaxWait = 1
  MaxServed = 3
  None = None
  Faults = {}
INVARIANTS
  CreditedOnce

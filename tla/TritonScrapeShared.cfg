SPECIFICATION FairSpec
CONSTANTS
  Handlers = {h1, h2}
  Clients = {c1, c2, c3}
  MaxWait = 1
  MaxServed = 1
  None = None
  Faults = {"restart", "blank"}
PROPERTIES
  IdleReportsZero

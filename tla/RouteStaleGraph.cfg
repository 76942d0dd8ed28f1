SPECIFICATION HSpec
CONSTANTS
  c1 = c1  c2 = c2  i1 = i1  i2 = i2  n1 = n1  n2 = n2  b1 = b1  All = all  None = None
  Client <- Clients
  Id <- Ids
  Number <- Numbers
  Bus <- Buses
  MaxVersion = 1
INVARIANTS
  NextQueryUsesCommittedRoutes
CHECK_DEADLOCK FALSE

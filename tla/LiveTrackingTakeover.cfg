SPECIFICATION HSpec
CONSTANTS
  c1 = c1  c2 = c2  t1 = t1  b1 = b1  b2 = b2  d1 = d1  r1 = r1  full = full
  None = None  Rider = rider
  Conn <- Conns
  Token <- Tokens
  DriverOf <- Drivers
  BusOf <- BusOfToken
  Bus <- OneBus
  Route <- Routes
  RouteOf <- RouteOfOneBus
  Page <- DriverPages
  Level <- NoLevels
INVARIANTS
  RegisteredDriverIsLive
CHECK_DEADLOCK FALSE

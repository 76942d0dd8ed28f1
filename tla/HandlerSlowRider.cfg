SPECIFICATION SlowRiderSpec
CONSTANTS
  c1 = c1  c2 = c2  c3 = c3  t1 = t1  b1 = b1  d1 = d1  r1 = r1  r2 = r2  full = full  None = None
  Rider = rider
  Conn <- ThreeConns
  Token <- Tokens
  DriverOf <- Drivers
  BusOf <- BusOfToken
  Bus <- Buses
  Route <- NoRoutes
  RouteOf <- NoRouteOfBus
  Page <- ThreePages
  Level <- NoLevels
  MaxCallbacks = 1
  MaxStalls = 1
INVARIANTS
  FarewellsReachRiders
CHECK_DEADLOCK FALSE

SPECIFICATION FairSpec
CONSTANTS
  c1 = c1  c2 = c2  t1 = t1  b1 = b1  b2 = b2  d1 = d1  r1 = r1  full = full
  None = None  Rider = rider
  Conn <- Conns
  Token <- Tokens
  DriverOf <- Drivers
  BusOf <- BusOfToken
  Bus <- Buses
  Route <- Routes
  RouteOf <- RouteOfBus
  Page <- DriverPages
  Level <- NoLevels
INVARIANTS
  HTypeOK NoImpersonation RegistryTracksSessions LastWordOnVisibility
PROPERTIES
  SilentSessionsAreSwept
CHECK_DEADLOCK FALSE

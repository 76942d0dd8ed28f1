SPECIFICATION Spec
CONSTANTS
  b1 = b1  b2 = b2  r1 = r1  r2 = r2  None = None
  Bus <- Buses
  Route <- Routes
  RouteOf <- Cards
  Place = {1, 2, 3}
  UserAt = 2
  Path <- Ways
  Road <- Snapped
  MinPerKm = 4
  MaxCalls = 2
INVARIANTS
  TypeOK OneChoice EtaIsOfOneBus ChoiceIsHeard
PROPERTIES
  AlertSpec
CHECK_DEADLOCK FALSE

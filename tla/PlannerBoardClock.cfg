SPECIFICATION Spec
CONSTANTS
  Network <- Town
  PerRide = 2
  PerWalk = 10
  Dwell = 2
  MaxTransferWalk = 4
  MaxAccessWalk = 20
  MaxWalkOnly = 26
  MaxCandidates = 2
  None = None
  Place = {0, 1, 2, 3, 4, 5, 6, 7, 8, 9, 10, 11, 12, 18}
  Spot = {18}
  Home = {0}
INVARIANTS BoardTimesAreReal
CHECK_DEADLOCK FALSE

SPECIFICATION Spec
CONSTANTS
  d1 = d1  d2 = d2  full = full  s1 = s1  None = None
  Driver <- Accounts
  Account <- Accounts
  Level <- Levels1
  Lost <- Sockets1
  MaxUp = 2
  MaxDown = 1
INVARIANTS CrowdingIsRebuilt
CHECK_DEADLOCK FALSE

SPECIFICATION ConsoleSpec
CONSTANTS
  c1 = c1  c2 = c2  i1 = i1  n1 = n1  All = all  None = None
  Client <- Clients
  Id <- Ids
  Number <- Numbers
  Bus <- NoBuses
  MaxVersion = 2
PROPERTIES
  NoSilentOverwrite
CHECK_DEADLOCK FALSE

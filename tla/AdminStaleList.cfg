SPECIFICATION Spec
CONSTANTS
  routes = routes  i1 = i1  i2 = i2  None = None
  Kind <- Kinds
  Row <- Ids
  KindOf <- Tables
  Dialog = Dialog
  Reload = Reload
  MaxAsked = 2
PROPERTIES DeletedRowStaysAway
CHECK_DEADLOCK FALSE

SPECIFICATION Spec
CONSTANTS
  Lines = {0, 1, 3, 8, 12}
  Exceptions = {0, 1, 14}
  Masked = {}
  MaxRaises = 4
INVARIANTS ResetsOnlyEarly DriverFirst NothingInService
PROPERTY RaisedIsServed
CHECK_DEADLOCK FALSE

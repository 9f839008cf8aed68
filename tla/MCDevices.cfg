SPECIFICATION Spec
CONSTANTS
  Headers = {8, 24, 72}
  Deltas = {0, 3, 127, 129}
  MaxPackets = 3
  MaxScans = 1
  Capacity = 1
  Calls = {0, 1, 2, 5}
  Settings <- Requests
  Chars = {1, 2}
  Entries = 3
  EbdaSlots = 5
  BiosSlots = 6
  MaxPointers = 2
INVARIANTS SettingsKept PointerFollowsMouse LinesAgree MapsLastFault FirstPointerDecides
CHECK_DEADLOCK FALSE

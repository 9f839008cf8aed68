SPECIFICATION GetOnlySpec
CONSTANTS
  Capacity = 2
  MaxKeys = 8
PROPERTY KeysInOrder

SPECIFICATION BufferSpec
CONSTANTS
  Capacity = 2
  MaxKeys = 6
INVARIANTS
  BufferTypeOK
  HeadOnRing
  NeverOvercounts
PROPERTIES
  TakesOldest
  ClearForgets

CONSTANTS
  Workers = 2
  TagBits = 4
  MaxStores = 24
  MaxRuns <- OneLate
  None = none
SPECIFICATION Spec
INVARIANT StoredOnce
PROPERTY NeverReused

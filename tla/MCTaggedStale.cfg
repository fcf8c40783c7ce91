CONSTANTS
  Workers = 2
  TagBits = 4
  MaxStores = 18
  MaxRuns <- TwiceLate
  None = none
SPECIFICATION Spec

PROPERTY NeverReused

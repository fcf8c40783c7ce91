CONSTANTS
  NumWorkers = 2
  Objects = {o1, o2, o3}
  MaxEpoch = 4
  MaxStamp = 2
  MaxRefs = 1
SYMMETRY ObjectSymmetry
SPECIFICATION Spec
INVARIANTS TypeOK NoUseAfterFree DoneStampSafe HooksSerialised
PROPERTY DoneStampMonotone

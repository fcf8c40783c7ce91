CONSTANTS
  Threads = {t1, t2, t3}
  Kinds = {"read", "write", "read_hw", "write_hw"}
  MaxStamp = 3
SYMMETRY ThreadSymmetry
SPECIFICATION Spec
INVARIANT TypeOK
PROPERTY IsStampSource

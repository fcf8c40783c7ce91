CONSTANTS
  a = a
  b = b
  c = c
  L = L
  M = M
  N = N
  Threads = {a, b, c}
  Locks = {L, M, N}
  Descriptors = {d1, d2, d3, d4, d5, d6, d7, d8, d9, d10, d11, d12}
  None = none
  LogLen = 4
  BlockLen = 4
  Programs <- InnerAndOuter
SPECIFICATION OnlyOneRuns
PROPERTY LockFree

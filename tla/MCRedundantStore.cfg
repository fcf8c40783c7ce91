CONSTANTS
  W = W
  X = X
  S = S
  P = P
  Q = Q
  n0 = n0
  n1 = n1
  n2 = n2
  n3 = n3
  Threads = {W, X, S}
  Ptrs = {P, Q}
  Nodes = {n0, n1, n2, n3}
  Links = {l1, l2, l3, l4}
  Null = null
  Uses <- RedundantUse
  MaxStamp = 3
SPECIFICATION Spec
INVARIANT LinksFreedOnce

SPECIFICATION Spec
CONSTANTS
  Threads = {0, 1, 2}
  CountMod = 2
  Keys <- MCKeys
  Values = {"old1", "old2", "new"}
  None = None
  Nodes = {1, 2, 3, 4}
  Tail = 9
  Initial <- MCInitial
  Menu <- MCMenu
  MaxCalls <- MCMaxCalls
CHECK_DEADLOCK FALSE
INVARIANT RetiredSafely Sorted
PROPERTIES IsMap FindsValue CallsReturn

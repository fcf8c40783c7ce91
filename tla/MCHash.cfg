SPECIFICATION Spec
CONSTANTS
  Threads = {0, 1, 2}
  CountMod = 4
  Keys = {1, 2, 3}
  Values = {"old", "new"}
  None = None
  Nodes = {1, 2, 3, 4, 5, 6, 7}
  Sizes <- MCSizes
  Initial <- MCInitial
  Menu <- MCMenu
  MaxCalls <- MCMaxCalls
CHECK_DEADLOCK FALSE
INVARIANTS NodesFit NodesAccountedFor
PROPERTIES IsMap CallsReturn

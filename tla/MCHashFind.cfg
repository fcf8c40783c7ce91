SPECIFICATION Spec
CONSTANTS
  Threads = {0, 1, 2}
  CountMod = 2
  Keys = {1, 2, 3}
  Values = {"old", "new"}
  None = None
  Nodes = {1, 2, 3, 4, 5, 6, 7}
  Sizes <- MCSizes
  Initial <- MCDifferent
  Menu <- MCMenu
  MaxCalls <- MCMaxCalls
CHECK_DEADLOCK FALSE
PROPERTY FindsValue

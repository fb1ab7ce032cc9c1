SPECIFICATION Spec
CONSTANTS
  n1 = n1
  n2 = n2
  Nil = Nil
  Nodes = {n1, n2}
  PinChoices = {Nil}
  Goroutines = {"push"}
  Fanout = 1
  MaxTracked = 2
  StaleAfter = 3
  MinAge = 1
  Cooldown = 2
  PushInterval = 3
  WarmUp = 1
  Horizon = 4
SYMMETRY Symmetry
PROPERTIES UntriedComeFirst
CHECK_DEADLOCK FALSE

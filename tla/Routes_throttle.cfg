SPECIFICATION Spec
CONSTANTS
  n1 = n1
  n2 = n2
  Nil = Nil
  Nodes = {n1, n2}
  PinChoices = {Nil}
  Goroutines = {"push", "test", "other"}
  Fanout = 1
  MaxTracked = 1
  StaleAfter = 0
  MinAge = 0
  Cooldown = 1
  PushInterval = 1
  WarmUp = 1
  Horizon = 1
SYMMETRY Symmetry
INVARIANTS TypeOK
PROPERTIES PushesAreSpaced DroppedWereStamped
CHECK_DEADLOCK FALSE

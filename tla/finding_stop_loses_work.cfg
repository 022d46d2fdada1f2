SPECIFICATION Spec
CONSTANTS
  NumOps = 1
  Workers = {w1, w2}
  w1 = w1
  w2 = w2
  Free = Free
  Dead = Dead
  Types = {"edit"}
  Disturbances = {"crash", "stop"}
  MaxDisturbances = 2
  MaxAttempts = 2
SYMMETRY Symmetry
PROPERTIES
  StopLosesNothing
CHECK_DEADLOCK FALSE

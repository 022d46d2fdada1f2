SPECIFICATION Spec
CONSTANTS
  NumOps = 2
  Workers = {w1, w2}
  w1 = w1
  w2 = w2
  Free = Free
  Dead = Dead
  Types = {"edit"}
  Disturbances = {"lapse"}
  MaxDisturbances = 1
  MaxAttempts = 2
SYMMETRY Symmetry
INVARIANTS
  LiveIsChecked
CHECK_DEADLOCK FALSE

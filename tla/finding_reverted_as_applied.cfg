SPECIFICATION Spec
CONSTANTS
  NumOps = 1
  Workers = {w1, w2}
  w1 = w1
  w2 = w2
  Free = Free
  Dead = Dead
  Types = {"edit"}
  Disturbances = {"crash"}
  MaxDisturbances = 1
  MaxAttempts = 2
SYMMETRY Symmetry
INVARIANTS
  AppliedIsShown
CHECK_DEADLOCK FALSE

SPECIFICATION Spec
CONSTANTS
  NumOps = 2
  Workers = {w1, w2}
  w1 = w1
  w2 = w2
  Free = Free
  Dead = Dead
  Types = {"edit", "publish"}
  Disturbances = {"thrown", "lost", "refused", "crash", "sleep", "vanish", "idle", "stop", "foreign", "lapse", "nostart"}
  MaxDisturbances = 2
  MaxAttempts = 2
SYMMETRY Symmetry
PROPERTIES
  NeverForced
  ReleaseOnlyOwn
CHECK_DEADLOCK FALSE

SPECIFICATION FairSpec
CONSTANTS
  NumOps = 2
  Workers = {w1, w2}
  w1 = w1
  w2 = w2
  Free = Free
  Dead = Dead
  Types = {"copilot", "publish"}
  Disturbances = {"thrown", "lost", "refused", "crash", "sleep", "vanish", "idle", "stop", "foreign", "nostart"}
  MaxDisturbances = 1
  MaxAttempts = 2
PROPERTIES
  EveryOperationFinishes
CHECK_DEADLOCK FALSE

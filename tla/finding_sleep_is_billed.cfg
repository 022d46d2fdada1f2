SPECIFICATION Spec
CONSTANTS
  Boxes = {1}
  None = None
  IdlePause = 1
  DestroyAfter = 1
  RotateAfter = 9
  Slack = 1
  MaxRun = 9
  Bootstrap = 1
  Stale = 1
  Attempts = 2
  MaxTime = 5
  MaxFaults = 1
  MaxRequests = 0
INVARIANTS
  MeteringIsCapped
CHECK_DEADLOCK FALSE

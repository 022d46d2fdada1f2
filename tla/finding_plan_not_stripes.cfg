SPECIFICATION Spec
CONSTANTS
  Orders = {}
  Subs = {s1}
  Requests = {r1, r2}
  None = None
  Passes = {1}
  Period = 1
  MaxTime = 1
  MaxEvents = 3
  MaxRare = 0
INVARIANTS
  PlanIsWhatStripeSays
CHECK_DEADLOCK FALSE

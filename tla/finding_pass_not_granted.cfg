SPECIFICATION Spec
CONSTANTS
  Orders = {o1}
  Subs = {}
  Requests = {r1, r2}
  None = None
  Passes = {1}
  Period = 1
  MaxTime = 1
  MaxEvents = 0
  MaxRare = 1
INVARIANTS
  PaidIsGranted
CHECK_DEADLOCK FALSE

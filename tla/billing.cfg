SPECIFICATION Spec
CONSTANTS
  Orders = {o1}
  Subs = {s1, s2}
  Requests = {r1, r2}
  None = None
  Passes = {1}
  Period = 1
  MaxTime = 1
  MaxEvents = 3
  MaxRare = 1
INVARIANTS
  TypeOK
  SettledOnce
  ShortPaymentBuysNothing
  AnsweredIsSettled
  OnlyAFaultLosesAGrant
  TimeIsPaidFor
  PlanMatchesStatus
  RecordedIsApplied
SYMMETRY Symmetry
CHECK_DEADLOCK FALSE

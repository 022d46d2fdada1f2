SPECIFICATION Spec
CONSTANTS
  NumOps = 2
  Workers = {w1, w2}
  w1 = w1
  w2 = w2
  Free = Free
  Dead = Dead
  Types = {"copilot", "publish"}
  Disturbances = {"thrown", "lost", "refused", "crash", "sleep", "vanish", "idle", "stop", "foreign"}
  MaxDisturbances = 2
  MaxAttempts = 2
SYMMETRY Symmetry
INVARIANTS
  TypeOK
  LiveIsChecked
  OneInProgress
  HistoryIsTrue
  SettledWorkIsSafe
  RecordsAreTrue
  PublishedIsOnDraft
PROPERTIES
  MainIsBuilt
  FinishedIsFinal
  ImplementsSafetyNet
CHECK_DEADLOCK FALSE

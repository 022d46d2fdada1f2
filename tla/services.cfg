SPECIFICATION FairServices
CONSTANTS
  Boxes = {1, 2}
  None = None
  IdlePause = 1
  DestroyAfter = 1
  RotateAfter = 2
  Slack = 1
  MaxRun = 3
  Bootstrap = 1
  Stale = 1
  Attempts = 2
  MaxTime = 2
  MaxFaults = 1
  MaxRequests = 1
  Workers = {1, 2}
  SetupFaults = 3
  Commits = {1}
  Builds = {1, 2}
  Grace = 1
  Timeout = 2
  TrackAttempts = 1
  HostTime = 3
  Windows = {1}
  Labels = {1, 2}
  Ttl = 2
  MaxSleeps = 1
INVARIANTS TypesHold BilledIsRun NothingLeaks RunningIsComplete OnlyAStallDeletesTheRepo OneBuildEach
PROPERTIES UnpushedIsKept WaitingEnds
CHECK_DEADLOCK FALSE

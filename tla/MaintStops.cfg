\* The connection to redis fails once, or the master restarts.
SPECIFICATION Spec
CONSTANTS
  p1 = p1
  m1 = m1
  None = None
  Reaper = Reaper
  Calls = {c1}
  Kinds = {"create"}
  Windows <- TwoWindows
  Events <- MachineEvent
  MinWait = 1
  RetryWait = 1
  TimeoutMax = 9
  MaxTime = 4
  MaxWindows = 2
  MaxTimers = 4
  Failures = {"lose", "crash"}
  MaxErrors = 1
INVARIANTS
  ReaperGoesOn
CHECK_DEADLOCK FALSE

\* Requests around the reaper, two windows, a failure at any point.
SPECIFICATION FairSpec
CONSTANTS
  p1 = p1
  m1 = m1
  None = None
  Reaper = Reaper
  Calls = {c1, c2}
  Kinds = {"create", "get", "delete", "listAll", "check"}
  Windows <- TwoWindows
  Events <- MachineEvent
  MinWait = 1
  RetryWait = 1
  TimeoutMax = 2
  MaxTime = 4
  MaxWindows = 2
  MaxTimers = 2
  Failures = {"refuse", "lose", "crash"}
  MaxErrors = 1
INVARIANTS
  TypeOK
  NewWindowIsNew
  NextEndIsWatched
PROPERTIES
  LastsUntilEndOrDelete
  WindowSilencesEvents
  WindowsExpire
CHECK_DEADLOCK FALSE

\* Two events and an API call that overlap, on one probe, with one failure.
SPECIFICATION FairSpec
CONSTANTS
  p1 = p1
  p2 = p2
  p3 = p3
  g1 = g1
  None = None
  Events = {e1, e2}
  Requests = {r1}
  Probes = {p1}
  GroupOf <- Single
  GroupEvents = {p1}
  Operations = {"get", "close", "reopen", "suppress", "unsuppress", "delete"}
  MaintAnswers = {TRUE, FALSE}
  DropSkew = 1
  NewAlarmGap = 1
  MaxTime = 2
  MaxAlarms = 2
  MaxErrors = 1
INVARIANTS
  IndexedAlarmsAreWhole
  FilterFailsOnlyOnDelete
  OneOpenAlarm
PROPERTIES
  KeepsBook
  NoRelisting
  ChangeAnnounced
CHECK_DEADLOCK FALSE

\* Overlapping events of one group, no API call, no failure.
SPECIFICATION Spec
CONSTANTS
  p1 = p1
  p2 = p2
  p3 = p3
  g1 = g1
  None = None
  Events = {e1, e2, e3}
  Requests = {}
  Probes = {p1, p2}
  GroupOf <- OneGroup
  GroupEvents = {p1, p2}
  Operations = {}
  MaintAnswers = {FALSE}
  DropSkew = 0
  NewAlarmGap = 5
  MaxTime = 1
  MaxAlarms = 3
  MaxErrors = 0
INVARIANTS
  FailingProbeHasOpenAlarm
CHECK_DEADLOCK FALSE

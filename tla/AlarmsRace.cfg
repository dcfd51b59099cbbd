\* Three overlapping events on two probes of a group and a probe of its own
\* that has groupEvents = false, with one failure.
SPECIFICATION Spec
CONSTANTS
  p1 = p1
  p2 = p2
  p3 = p3
  g1 = g1
  None = None
  Events = {e1, e2, e3}
  Requests = {}
  Probes = {p1, p2, p3}
  GroupOf <- GroupAndSingle
  GroupEvents = {p1, p3}
  Operations = {}
  MaintAnswers = {TRUE, FALSE}
  DropSkew = 0
  NewAlarmGap = 5
  MaxTime = 1
  MaxAlarms = 3
  MaxErrors = 1
SYMMETRY EventSymmetry
INVARIANTS
  TypeOK
  SaveFindsFreeKey
  FaultsBelongToAlarm
  OpenAlarmsAreTended
  LateFaultsOverlap
CHECK_DEADLOCK FALSE

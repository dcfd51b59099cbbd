\* A probe of each type, two failed checks in three intervals.
SPECIFICATION FairSpec
CONSTANTS
  Types = {"icmp", "http", "cmd", "log-scan", "disk-usage", "machine-up"}
  Threshold = 2
  Interval = 1
  Period = 3
  MaxChecks = 2
  MaxLate = 2
  MaxTurns = 4
  MaxTroubles = 3
INVARIANTS
  TypeOK
PROPERTIES
  StopIsFinal
  FailingTargetAlarms
  ToldIsCurrent
CHECK_DEADLOCK FALSE

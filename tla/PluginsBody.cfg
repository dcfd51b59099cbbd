\* An http probe with or without a bodyMatch.
SPECIFICATION FairSpec
CONSTANTS
  Types = {"http"}
  Threshold = 1
  Interval = 1
  Period = 3
  MaxChecks = 2
  MaxLate = 1
  MaxTurns = 2
  MaxTroubles = 1
PROPERTIES
  BodyMatchFires
CHECK_DEADLOCK FALSE

SPECIFICATION FairSpec
CONSTANTS
  Zones = {z1}
  Slots = {s1, s2, s3}
  None = None
  MaxTurns = 3
  MaxTroubles = 1
INVARIANTS
  TypeOK
  OpenAppsAreListed
PROPERTIES
  ZonesGoDown
  RunningZonesAreServed
CHECK_DEADLOCK FALSE

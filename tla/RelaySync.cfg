SPECIFICATION FairSpec
CONSTANTS
  Global = Global
  Zones = {z1}
  Versions = {0, 1}
  First <- Start
  Fresh = {z1}
  Asking <- GlobalAsks
  Poll = Poll
  Syncs = {s1}
  None = None
  MaxChanges = 1
  Changed <- Both
  MaxTroubles = 1
INVARIANTS
  TypeOK
  NoUpdateMeansCurrent
  CleanDownstreamIsCurrent
PROPERTY Converges
CHECK_DEADLOCK FALSE

\* Two updates at a time, failures and restarts, two probes of four lists.
SPECIFICATION FairSpec
CONSTANTS
  p = p
  q = q
  None = None
  Torn = Torn
  Probes = {p, q}
  Data = {"cmd", "cmd2", "up", "bad"}
  MachineUp = {"up"}
  Bad = {"bad"}
  Lists <- SomeLists
  Polls = {1, 2}
  MaxChanges = 1
  MaxTroubles = 2
INVARIANTS
  TypeOK
  InstancesAreInHand
  SavedIsTheCache
PROPERTIES
  Converges

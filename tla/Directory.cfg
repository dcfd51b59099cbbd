\* Requests of users who may and may not have a probe, with failures.
SPECIFICATION FairSpec
CONSTANTS
  cust = cust op = op nobody = nobody p1 = p1 p2 = p2 p3 = p3 p4 = p4 g1 = g1 vm = vm gz = gz n1 = n1 n2 = n2
  None = None Miss = Miss
  Requests = {r1, r2}
  Asks <- AllAsks
  Users = {cust, op, nobody}
  Known = {cust, op}
  Admin = op
  Probes = {p1, p2, p3, p4}
  Groups = {g1}
  Owner <- OwnerOf
  Agents = {vm, gz}
  VmOwner <- VmOwners
  Stored <- TwoStored
  Operators = {op}
  Servers = {}
  Names = {n1, n2}
  Failures = {"refuse", "lose"}
  MaxErrors = 1
  MaxChanges = 1
PROPERTIES
  RequestsAnswered
INVARIANTS
  TypeOK
  CachesAreCurrent
  WritesWereChecked
CHECK_DEADLOCK FALSE

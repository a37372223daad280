SPECIFICATION Spec
CHECK_DEADLOCK FALSE
CONSTANTS
  r1 = r1
  r2 = r2
  c1 = c1
  c2 = c2
  Runs = {r1}
  NameOf <- OneName
  Clients = {c1}
  MaxBoots = 2
  Faults = {}
  MaxFaults = 0
INVARIANT RemovedStaysRemoved

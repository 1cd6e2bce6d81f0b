SPECIFICATION Spec
CONSTANTS
  r1 = r1
  r2 = r2
  r3 = r3
  Requests = {r1, r2, r3}
  MaxSwitches = 4
  Managed = {"coding"}
  SharedPort = TRUE
  Events = {"startupTimeout"}
INVARIANT NoOrphanedWaiter
CHECK_DEADLOCK FALSE

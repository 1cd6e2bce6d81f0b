SPECIFICATION RawSpec
CONSTANTS
  Requests = {r1}
  TicksPerDay = 2
  RetentionDays = 1
  MaxTime = 3
  Faults = {"crash", "diskFull", "removeFails", "readFails", "insertBusy", "finishBusy", "deleteBusy", "cleanupBusy", "repairBusy"}
INVARIANT TypeOK
INVARIANT PayloadKept
INVARIANT SweptStaysSwept
INVARIANT RepairedAtStart
INVARIANT ErrorsExplained
PROPERTY StatusSettles
CHECK_DEADLOCK FALSE

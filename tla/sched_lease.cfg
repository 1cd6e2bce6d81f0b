SPECIFICATION FairHistorySpec
CONSTANTS
  Requests = {r1, r2}
  MaxSwitches = 5
  Managed = {"coding"}
  SharedPort = TRUE
  Events = {"idle", "disconnect", "startFail", "startupTimeout"}
INVARIANT OrphanedOnlyByGivingUp
PROPERTY WaitersReleased
PROPERTY BackgroundReturns
CHECK_DEADLOCK FALSE

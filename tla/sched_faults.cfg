SPECIFICATION Spec
CONSTANTS
  r1 = r1
  r2 = r2
  r3 = r3
  Requests = {r1}
  MaxSwitches = 3
  Managed = {"coding", "background"}
  SharedPort = FALSE
  Events = {"idle", "disconnect", "startFail", "startupTimeout", "drainTimeout", "killTimeout", "crash", "hang", "lateStart", "signal"}
INVARIANT TypeOK
INVARIANT ProcessOwned
INVARIANT OneModel
INVARIANT RunningIsActive
INVARIANT ChannelFlag
PROPERTY ImplementsHost
PROPERTY CleanExit
CHECK_DEADLOCK FALSE

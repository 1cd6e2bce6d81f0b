SPECIFICATION FairSpec
CONSTANTS
  Conns = {c1, c2}
  Senders = {s1}
  Capacity = 1
  ListSize = 1
  MaxEvents = 2
  Events = {"leave", "stall", "closeTimeout"}
INVARIANT TypeOK
INVARIANT NoDeadChannel
INVARIANT KeepsUp
PROPERTY BroadcastsEnd
PROPERTY CancelledReturn
CHECK_DEADLOCK FALSE

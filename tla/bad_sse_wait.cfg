SPECIFICATION FairSpec
CONSTANTS
  Conns = {c1}
  Senders = {s1}
  Capacity = 1
  ListSize = 2
  MaxEvents = 1
  Events = {}
PROPERTY PagesDoNotDelay
CHECK_DEADLOCK FALSE

SPECIFICATION Spec
CONSTANTS
  Responses <- MCResponses
  Limits <- MCLimits
  ReadSize = 3
  TokenSize = 4
  Marker = 1
INVARIANT TypeOK
INVARIANT Relayed
INVARIANT Captured
INVARIANT RecordFits
CHECK_DEADLOCK FALSE

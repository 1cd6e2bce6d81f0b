SPECIFICATION FairSpec
CONSTANTS
  Proxies = {1, 2}
  Configs <- MCConfigs
  MaxFaults = 1
INVARIANT ServesOnSchema
PROPERTY StartsInTheEnd
CHECK_DEADLOCK FALSE
